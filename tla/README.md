# TLA+ models of ps4-save-signer

ps4-save-signer is a socket server for the PS4 console.  A client uploads zips
and asks the server to generate, extract or resign a save; the server mounts the
save with the console's save-data service, changes it, zips the result and sends
it back.  Every connection has a thread, and the threads share the saves, the
service, `/data/teamalua/uploads` and `/data/teamalua/temp` without a lock.

This directory holds TLA+ modules translated from the server's source, the TLC
configurations that check them and proofs for TLAPS.  Paths of the form
`cmd_resign.cpp:33` are below `src/ps4-save-signer/`.

## Inventory

| Part | Source | State it keeps | Operations | What makes it correct |
|---|---|---|---|---|
| Save commands | `cmd_savegen.cpp`, `cmd_saveextract.cpp`, `cmd_resign.cpp` | a save, its mount, a zip in the temporary directory, the statuses sent | `doSaveGenerator`, `doSaveExtract`, `doSaveResign` and their callbacks | a job that ends releases what it took or tells the client; a client told only READY was sent what its own command made, and nothing is left |
| Mounting and patching | `cmd_utils.cpp:605-714` | retry count | `saveMountUnMount`, `changeSaveAccountId`, `fixParamSfoTitleId` | the retry is bounded; a failed mount leaves nothing of the job, and nothing else is touched |
| Save-data service | external | registered saves, mounts, backing files | `sceSaveDataMount`, `Umount`, `Delete`, `SetParam` | |
| Zip routines | `zip_util.cpp` | an archive being read or written | `zip_partial_extract`, `zip_partial_directory`, `zip_directory` | the pair `.bin` / image stays a pair; the image is copied while unmounted |
| Upload store | `cmd_uploadfile.cpp`, `cmd_deleteupload.cpp`, `cmd_utils.cpp:3-40, 473-548` | files in `uploads`, bytes remaining | `handleUploadFile`, `handleUploadDelete`, `downloadFileTo`, `readFull` | a file reported READY holds the client's bytes; one that is not is gone |
| File transfer | `cmd_utils.cpp:333-471` | bytes sent | `transferFile`, `_transferFile` | what is reported sent was sent; the loop ends |
| Server | `server.cpp` | the listening socket, a thread for each connection | `serverThread`, `clientHandler`, `getPacketHeader` | a connection runs one command at a time; new clients are accepted |
| Clients | `src/example-client/*.py` | position in the conversation | `generate.py`, `extract.py`, `resign.py`, `upload.py`, `repeat.py` | client and server agree on how many statuses follow; neither waits for ever |
| Directory helpers | `cmd_utils.cpp:48-300` | | `recursiveList`, `_mkdir`; `recursiveDelete`, `recursiveCopy` and the rest are never called | each file is listed once, under its own path; what a result says was done was done |
| Random names | `cmd_utils.cpp:551-601` | | `getRandomFileName` | two jobs get different names |
| Start-up | `main.cpp`, `util.cpp` | | `initializeModules`, `resolveDynamicLinks` | the server starts or the process spins |
| Notifications, logging, error names, package | `util.cpp`, `log.cpp`, `errcodes.cpp`, `pkg/` | | | not modelled: no state the commands depend on; the 7480 lines of `errcodes.cpp` are a table in a function nobody calls |

How they interact: `clientHandler` reads a header and calls a command handler; a
handler answers each of its steps with a status code the client counts;
`saveMountUnMount` calls back into the handler while the save is mounted; two
handlers meet only through the service's saves, the backing files and the
temporary directory.

What is hard here: two threads on one save; a call that fails in the middle of a
command; an error path that must undo a mount, a created save and a zip, and must
send exactly the statuses the client expects; the bounded retry of a busy unmount;
the leftovers of one command found by the next.  `PROJECT.json` lists each at the
line where it bites.

## Modules

| Module | Role |
|---|---|
| `SaveData` | the save-data service and the backing files, as the handlers use them (external) |
| `SaveJobs` | the three commands over `SaveData`; the properties |
| `MCSaveJobs` | constants for TLC |
| `SaveJobsProofs` | theorems about `SaveJobs`: what a job that ends leaves behind |
| `SaveScriptProofs` | ... the statuses of a job of which nothing has failed |
| `SaveContentProofs` | ... what the save, its mount and the zip hold, for jobs that take turns |
| `FileStore` | abstract specification of the uploads directory |
| `UploadStore` | the upload and deletion commands, `downloadFileTo` and `readFull` |
| `MCUploadStore` | constants for TLC |
| `UploadStoreProofs` | theorems about `UploadStore`; that it implements `FileStore`, for clients that take turns |
| `Dialogue` | `SaveJobs` composed with its clients, `generate.py`, `extract.py` and `resign.py` |
| `MCDialogue` | constants for TLC |
| `DialogueWayProofs` | theorems about `SaveJobs`: the statuses of any job and its client's script |
| `DialogueProofs` | theorems about `Dialogue` |
| `Server` | start-up, accepting, the thread of a connection, `readFull`, `_transferFile` |
| `MCServer` | the instance for TLC |
| `ServerProofs` | theorems about `Server` |
| `FileTree` | the directory helpers and `zip_directory`, entry by entry |
| `MCFileTree` | the trees for TLC |
| `FileTreeProofs` | theorems about `FileTree` |

### SaveData

`known` is the set of registered saves; `bin` and `img` say where the bytes of a
save's two backing files come from (created by the service for a job, unpacked from
a job's zip, torn by a failed extraction, the console user's) and which job last
wrote each patch into the image; `mount` is the job that has a save mounted;
`creator` is the job whose mount created a registered save.  The operators are the
successful outcomes of a call; a caller adds the failure, which is always possible.
What the service does is read off its use: `CREATE` refuses a registered save,
`CREATE2` creates or opens, no flag opens; a mounted save is neither mounted again
nor deleted.

### SaveJobs

A job is one command on one connection.  An action is one call to the service or
the file system, with both outcomes and the statuses that report it.

| Action | Code |
|---|---|
| `Receive`, `Accept`, `Reject` | the three `handle...` functions: the status of the command, then the packet or its absence; `ThreadFree` is `clientHandler`'s loop |
| `GenMount`, `GenPatch`, `GenUmount` | `cmd_savegen.cpp:35-130` |
| `TempMount`, `TempUmount`, `UmountBusy`, `Clean` (tClean) | `saveMountUnMount` on the temporary save, with the callbacks of the caller |
| `UnzipBin`, `UnzipImg`, `Clean` (xClean) | `zip_partial_extract` over the backing files, and the deletion when it failed |
| `RealMount`, `ResignPatch`, `Dump`, `RealUmount`, `Clean` (rClean) | `saveMountUnMount` on the unpacked save, with `onRealMount` of the caller |
| `ZipBin`, `ZipImg` | `zip_partial_directory`, of the generator and of resign |
| `Send`, `Unlink` | `transferFile`, `remove(outZipPath)` |
| `Del` | the last `sceSaveDataDelete` |

`pc` names the next call, `said` is the sequence of statuses sent, `temp` and `got`
are the zip in the temporary directory and the one the client received, `modified`
is the generator's `success`, `tries` the retry count.  Details that matter and are
easy to miss are kept: extraction passes `tempMount` to its second mount, so the
save is mounted with `CREATE2` and for writing; its `onRealMount` ignores the mount's
error; resign's `onRealMount` works on a copy of its arguments; resign does not make
the temporary directory; the generator unmounts without a retry.

A zip reported READY may lack files (`Built`): those below two folders, which `FileTree`
is about, or the end of an archive that `zip_close` could not finish.

What is abstracted: a status is READY or not; file contents are their origin;
the ten attempts of a patch are one outcome; the name of a zip belongs to one job
(`getRandomFileName` without a collision); `remove` of a zip just written succeeds;
a transfer that starts delivers the archive (`_transferFile` is in `Server`).

### UploadStore and FileStore

A job is one upload or deletion.  `dir` maps a name to an inode and `content` an inode
to its bytes, each byte being the job whose client sent it; an inode is named by the
job that created it, and lives on when its name is unlinked or another upload opens it.
`path`, `filesize`, `remaining` and `fd` are the handlers' variables, `reads` says how
the job's last read ended.

| Action | Code |
|---|---|
| `Accept` | the length test of both handlers; `ThreadFree` and `Live` are `clientHandler`'s loop, which ends with the connection |
| `ReadName`, `ReadSize` | `cmd_uploadfile.cpp:13-37`, `cmd_deleteupload.cpp:12-22` |
| `Open` | `downloadFileTo` up to the loop, with `_mkdir` |
| `Receive` | one turn of the loop: `readFull`, `pwrite`, the count |
| `Finish`, `Unlink` | the end of `downloadFileTo` |
| `Remove` | `cmd_deleteupload.cpp:24-36` |

`ReadFull` returns what was asked for, 0 when the stream has ended, or errno, which the
callers take for a number of bytes; afterwards the stream reads as ended.  What the
buffer then holds is written as bytes of nobody, and an uninitialised `filesize` is any
word.  A read and the write that follows it are one step, since a read touches nothing
that another connection sees.  When a write fails and bytes of the file are still to
come, they are taken for a header and the connection is closed (`astray`).  The result of
the `unlink` that discards a file is ignored, and it may fail on the names in
`Undeletable`, which then keep the file.

`FileStore` says what clients who take turns rely on: a name holds nothing or a whole
file, except while an upload is replacing it; READY means that the file is there, and
an error after the upload began means that the name is empty, or holds part of a file if
`unlink` could not remove it.  `StoreSpec` is
`UploadStore`'s refinement of it, with a name's file hidden while a job has it open.

### Dialogue

A call is the client's half of a job.  `wire` holds the statuses the server has sent
and the client not read: four bytes each, which do not say what they report.  `stream`
holds the headers and packets the client has sent and the server not read, and `open`
says whether the server's end of the connection is open.  `pos` is
the client's place in its script (the order of its `getStatusCode` calls), and
`GenerateOnFailure`, `ExtractOnFailure` and `ResignOnFailure` say which status it reads
after one that is not READY.  The ghost `misread` says that a status was taken for
another one or for another job's.

| Action | Code |
|---|---|
| `Ask` | `sendMagic`; the calls `repeat.py` makes one after the other |
| `ReadStatus` | `getStatusCode` and the test that follows, and the sending of the packet |
| `ReadHeader`, `ReadPacket`, `LosePacket`, `Work`, `Transfer` | `SaveJobs`' actions, whose statuses go onto the wire (`Deliver`) |
| `HangUp`, `CutOff` | `clientHandler` leaves its loop at a wrong magic number and closes; the client's next call of the socket fails |

A transfer begins with a byte that is no status and ends with the name, the sizes and the
file, so a client at another place of its script then reads pieces of these as statuses: it
is `lost`, as is one whose connection was closed, and nothing more is said of it.
`LosePacket` is the one error of a connection here, a client that returned from its last
call before it had sent a packet that the server waits for.

A packet is read by its size, whatever its bytes are.  A call that returns on a status
another left may leave its handler waiting for a packet that never comes; the handler then
takes the headers and the packet of the calls that follow (`ReadPacket`, `Remainder`), and
as many bytes of that packet are left over (`Rest`) as it took of headers: 12 for each, of a
packet of some 200 bytes.  They do not begin with the magic number, and the connection is
closed.  What the handler finds in those bytes is the job's `req`, which is free.

The upload that `do` makes before each call is left out.  Without leftovers client and
server agree on its statuses up to the first error, after which `sendZip` closes the
connection or goes on to the command in step, unless bytes of the file are left over
(`astray` in `UploadStore`, and the closing of the connection in `Server`).  The two
statuses that an extraction left are read by the next call's upload, if there is one, and
the upload's last two by its command: two foreign statuses either way, which may be READY
or not.  What differs is what happens when the first of them is not READY.  Here the call
returns and its handler waits for the packet; with an upload before it `sendZip` has
closed the connection, or the file's bytes are taken for a header and the server closes
it.  The model has the more behaviours of the two.

### Server

`server` is where `main` and `serverThread` are; `pc`, `hdr` and the variables of the
transfer belong to the thread of a connection.  `link` is the connection as both ends
see it: open, closed by its client, failed (the next read tells an errno), or reset
(the errno has been told).  `whole` is a ghost that says whether what was read of the
command was read whole, `sent` which bytes of the zip the client was sent.

| Action | Code |
|---|---|
| `InitializeModules` ... `Listen` | `main.cpp`, `util.cpp:20-66`, `server.cpp:15-57` |
| `AcceptOne`, `AcceptFails` | `server.cpp:58-65`; a failed accept ends the thread |
| `Greet`, `ReadHeader`, `HeaderEnds`, `HeaderFails` | `clientHandler`, `getPacketHeader`, `readFull` |
| `ReadPacket`, `PacketEnds`, `PacketFails` | the first lines of the handlers |
| `RunCommand` | the rest of a handler, up to its transfer |
| `OpenZip`, `ReadZip`, `ReadZipFails`, `WriteZip`, `EndTransfer` | `transferFile`, `_transferFile` |
| `Connect`, `SendCommand`, `HangUp` | clients, which may send several commands at once, stop in the middle of one, or fail |

What is left out: a `write` that fails on a connection that stands (no signal is
handled), and the handlers' bodies, which are in `SaveJobs` and `UploadStore`.

### FileTree

`folders` and `files` are the disk, a path being the sequence of its names; `call` is the
one call a behaviour makes, on any tree of the instance, and `before` the disk when it was
made.  The recursion is a walk.  `at` is the folder of the innermost call, so that the
calls open are those of the folders from `call.dir` down to `at`, and `todo` holds what
their `readdir` loops have found and not yet worked on, in no order.

| Action | Code |
|---|---|
| `RecursiveList`, `ZipFolder`, `RecursiveDelete`, `RecursiveCopy`, `Mkdir` | the outermost call, up to its first `readdir` or `mkdir` |
| `MakeNext` | one turn of `_mkdir`'s loop: a `mkdir`, whose result nobody looks at; `made` counts the folders of the path it has passed |
| `MakeEnds` | the end of `_mkdir`, which a copy goes through for each folder, and there the `opendir` of the target |
| `ListFile`, `DeleteFile` | the loop's body for a file, with the failure that ends every call |
| `OpenCopy`, `WriteCopy` | ... of `recursiveCopy`: the target is cut when it is opened (`Cut`), and written afterwards |
| `Enter` | the loop over `folders`, which begins when the folder's last file has been worked on, and the beginning of the inner call |
| `Return`, `RmDirFails` | the end of a call, in `recursiveDelete` with its `rmdir`, which refuses an occupied folder and may fail on an empty one |
| `AddEntry`, `ZipFails`, `CloseZip` | `zip_partial_directory` over the list; the result of `zip_close` is ignored |

`fault` holds what the system let the call down on: a file it would not open, read, write
or remove, a folder it would not make or remove, the root standing for the zip.  It is what
a property may blame a failure on, and no step reads it.

`recursiveDelete` and `recursiveCopy` are in the code and not called.  A copy whose target
cannot be made hands a null pointer to `closedir` (`cmd_utils.cpp:239`): `crashed`.  A copy
of a folder into itself would not end, and is not made.  An `opendir` that fails on a folder
that is there is left out, and so are the fixed buffers that hold a path.

### Properties

Of `SaveJobs`:

* `MountReleased`: a job ends with its save mounted only after telling of a failed
  unmount.
* `SuccessMeansClean`: a client that read only READY left no save, mount or (but for
  the generator) zip behind.
* `TempResidue`: which ended jobs may leave a zip.
* `EndsTold`: a job that ends before the end of its script told of an error.  There is
  one exception, stated in the property: an extraction whose second mount failed.
* `OwnContent`: with every status READY, all that an extraction or a resign was sent comes
  from its own client's zip and its own patches.  A generator was sent a save that was
  created for it, with exactly its patches, or one that the console's user or an ended job
  had left under that name, with its patches put on top: `CREATE2` opens what is there.
* `ZipsUnmounted`: the backing files are zipped while nobody has the save mounted.
* `JobEnds`: an accepted command runs to its end or to a transfer.
* `ResignPatched`, `OnlyOwnSavesDeleted`: what the code's own test and comments say,
  and the code does not do.

Of `UploadStore`:

* `StoreSpec`: the directory implements `FileStore` for clients that take turns.
* `FailedLeavesNothing`: an upload that was given up has left no name of its file, also
  when others uploaded or removed the name in the meantime; but for the names that `unlink`
  may fail to remove.
* `OpensOwnName`: a name that was cut short is never opened.
* `BrokenEnds`: once its connection has ended or failed, a job ends.
* `ReadErrorReported`: what `downloadFileTo` says of a failed read, and does not do.

Of `Dialogue`:

* `NoFalseSuccess`: a client that came to the end of its script on READY alone has had
  its command done in full, unless another call on its connection met a failed zip.  The
  exception takes three calls of `extract.py` on one connection: the first returns at its
  failed zip, the second reads the two statuses the first left and returns with statuses
  of its own unread, and the third may come to the end of its script on those.
* `MisreadOnly`: a status is taken for another only by `resign.py` after a failed mount
  (the deletion passes for the unmount) and by the call after an extraction that
  returned at the zip.
* `NoLeftover`: a call that returned has left no status unread, but for these two.
* `StuckOnly`: client and server wait for each other only after the named failures, whether
  the client has misread a status or not: `generate.py` after a failed unmount, zip or start
  of the transfer, `extract.py` after the dump of a save that was not mounted, `resign.py`
  after a failed unmount of the new save, and after a failed mount of the unpacked one,
  where it takes the deletion's status for the unmount's (`resign.py:122`) and goes on to
  read a zip's or a deletion's that does not come; and any call behind an extraction that
  returned at the zip.
* `CallEnds`: a call returns, loses its place or comes to such a wait.  It is stated of all
  calls together: again and again there is a time when none is anywhere else.
* `NeverBothWait`: what the clients' reading on supposes, and the server does not do.

Of `Server`:

* `NoGhostCommand`: a save command runs only on a header and a packet read whole,
  although an errno passes for the size of a header and a stale header is dispatched.
* `InOrder`: with any mixture of short and failed writes the client gets a beginning of
  the file, no byte repeated or left out.
* `FileComplete`: on a connection that stands, an announced file has been sent to its
  last byte when the thread says anything else.
* `BrokenCloses`: the thread of a broken connection closes it.

Of `FileTree`:

* `ListedOnce`: `recursiveList` tells each visible file once, under its own path, when
  no folder holds a folder with files.
* `DumpHonest`: a dump reported made holds every visible file, or two files agree in
  their last two names, or `zip_close` failed; a readable shallow folder can be dumped.
* `DeletesAll`: what the result of `recursiveDelete` says is so, at whatever depth it
  failed; a failure goes back to a hidden entry or to a file or folder that the system
  would not remove and that is still there; nothing hidden or outside is touched on the
  way.
* `MakesPath`: `_mkdir`, which looks at no result, has at its end made every folder of the
  path but those at or below a file that is in the way or a folder the system would not
  make, and at no turn of its loop any other.
* `CopiesAll`: what the result of `recursiveCopy` says is so, at whatever depth it failed,
  and at every moment, that between the opening of a target and its last write included,
  nothing but the places of the source's files has changed.  It is about folders neither
  of which holds the other: a copy into a folder above the source may put a file over one
  of the source that it has yet to read.
* `CallEnds`: a call ends.

## Runs

| Run | Instance | Shows |
|---|---|---|
| `jobs_shared` | 2 jobs on 2 connections, 1 save, possibly the user's, 1 retry; 571241 states | `TypeOK`, `MountReleased`, `SuccessMeansClean`, `TempResidue`, `EndsTold` hold |
| `jobs_serial` | 2 jobs on 1 connection, 1 save, possibly the user's, 2 retries; 94491 states | `OwnContent`, `ZipsUnmounted`, `JobEnds` hold |
| `resign_unpatched` | 1 job | `ResignPatched` fails |
| `user_save_deleted` | 1 job, the user's save | `OnlyOwnSavesDeleted` fails |
| `cross_delivery` | 2 jobs on 2 connections, 1 save | `OwnContent` fails |
| `upload_turns` | 3 commands on 1 connection, 2 names of which one is too long to delete, sizes 0, 3 and 5 in chunks of 2, no errno, 1 name that `unlink` may fail to remove; 709582 states | `StoreSpec` holds |
| `upload_shared` | 2 commands on 2 connections, 2 names of which one is the beginning of the other, sizes 1 and 3, 1 that `unlink` may fail to remove, words of 3 bits, errno 3; 215794 states | `TypeOK`, `FailedLeavesNothing`, `OpensOwnName`, `BrokenEnds` hold |
| `read_error_ready` | 1 command | `ReadErrorReported` fails |
| `dialogue` | up to 3 calls of one script, any of the three (3 of `extract.py`, 2 of `resign.py`, 1 of `generate.py`), on 1 connection and 1 save, 1 retry; 244072 states | `DialogueTypeOK`, `NoFalseSuccess`, `MisreadOnly`, `NoLeftover`, `StuckOnly`, `CallEnds` hold |
| `both_wait` | 1 call | `NeverBothWait` fails |
| `connections` | 1 connection, 3 commands, a zip of 5 bytes in chunks of 3, words of 3 bits, errnos 4 and 54, 1 failed read of the zip; 82570 states | `TypeOK`, `NoGhostCommand`, `InOrder`, `FileComplete`, `BrokenCloses` hold |
| `file_tree` | 1066 trees of 4 folders and 9 files, of which a folder and 2 files are hidden and 1 file lies in the hidden folder, 4 targets; 304596 states | `TypeOK`, `ListedOnce`, `DumpHonest`, `DeletesAll`, `CopiesAll`, `MakesPath`, `CallEnds` hold |

Bounds.  A job meets another only through its save and the temporary directory, so
two jobs on one save meet in every way two jobs can; jobs on different saves share
only `tempDir`, whose value is free initially.  In a serial instance the second job
starts from every state the first can leave.  A third job adds nothing to a property
of one job that a second job, or a leftover of any kind, does not do already.  One
repetition of the unmount has both outcomes of the loop's test; the code's limit is
10.  The theorems hold for any number of jobs, saves and retries.

In the upload runs the sizes give no chunk, one, several, and a last chunk that is whole
or not; errno 3 is larger than what remains of a file of 1 byte, so that the count wraps,
larger than a chunk, and equal to what remains of a file of 3.  Three commands on one
connection are an upload of a new name, an upload over an old file and a deletion in
every order.  `upload_turns` has no errno because the store's promise fails with it
(`read_error_ready`).

In `dialogue` a call starts on whatever the ones before left on the wire, in the save and
in the temporary directory.  Three calls are the fewest of which one can come to a handler
that still waits for another's packet: the first returns at the zip, the second on what
the first left, and the third's bytes are the ones that are taken.  `extract.py` has them,
the only script that `repeat.py` repeats and whose calls are misled by the ones before;
the calls are made in one order, since they are alike.  `repeat.py` has a save for each
call; on one save they may meet in it as well.  Calls on two connections are not in it:
the scripts meet only through the save, which `jobs_shared` covers.  In `connections`
there is one connection since threads share nothing in this module but the accepting
thread.  Errno 4 is smaller than the header's 12 bytes and errno 54 (`ECONNRESET`) is
larger; every errno of the system is below 192, the size of the smallest save packet,
which `ErrnosAssumption` says.  A zip of 5 bytes in chunks of 3 gives a full chunk, a last
one that is not, writes of one, two and three bytes, and a failed write at a total of 0, 1
and 2.  Three commands on one connection let a transfer follow a transfer and a stale
header follow either.  In `file_tree` one of the two folders holds a folder with the
other's name, so that a wrong path may exist or not; a file has room at two depths of the
walk and two files of a folder give both orders; the targets are beside a source, below
it, above it and below a file; a folder may hold nothing but a hidden folder or a hidden
file.  The theorems hold for any tree.

`CHECK_DEADLOCK FALSE` is set since the jobs of an instance come to an end.

Fairness.  `Fairness` is weak fairness of `Step(j)`, the steps a thread takes without
waiting for its client: the calls to the service and the file system return, and a
status of four bytes fits the socket's buffer or fails at once (`SIGPIPE` is ignored,
`server.cpp:17`).  Nothing is assumed of `Receive`, `Reject` and `Send`, which wait for
the client.  With `UmountBusy` bounded, no fairness of a successful outcome is needed.

In `UploadStore` it is weak fairness of `Prompt(j)`: the calls to the file system, and
the reads of a connection that has ended, which return at once.  Nothing is assumed of a
client that may still send.

In `Dialogue` it is weak fairness of `GoesOn(c)`, one for each connection: a client that is
called reads on, the thread goes on, and a transfer to a client that reads goes on, one of
them as long as there is one that can.  Nothing is assumed of `Ask`, nor of a client that
is lost.  Fairness of each side by itself would say no less, since only finitely many calls
begin.

In `Server` it is weak fairness of `Prompt(c)`, what a thread does without waiting for its
client; a write belongs to it only once the connection is broken, since a client that
stops reading blocks it.  In `FileTree` it is weak fairness of `Steps`: a thread inside a
helper waits for nobody.  Failed reads of the zip are bounded by `MaxFaults`: one that
persists keeps the loop for ever.

## Findings

* `resign_unpatched`: `onRealMount` (`cmd_resign.cpp:33`) stores its error in a copy of
  the caller's structure, and `errorCode` is unsigned: the test in line 174 never
  fires and an unpatched save is delivered as resigned.
* `user_save_deleted`: `saveMountUnMount` deletes the named save after a mount that
  failed for any reason, and `CREATE2` opens and later deletes a save that was there
  before; the comments speak of creating the save.  The save is the user's in the run, and
  may as well be one that an earlier command could not delete: a generator opens it
  (`cmd_savegen.cpp:44`), patches it and delivers it, all READY, under the comment "Create
  and mount template save", and deletes it.
* `cross_delivery`: two clients on one save.  An extraction has created and unmounted its
  temporary save, a generator on another connection opens it, patches, zips, sends and
  deletes it, all READY, and its client has a save made for the other's command.  Alone on
  its connection and save (`jobs_serial`) a generator may be sent what an ended job or the
  user had left, and nothing else that is not its own; an extraction or a resign nothing.
* `read_error_ready`: `readFull` returns errno as a count (`cmd_utils.cpp:16`), so a read
  that fails when errno's value of bytes is left ends an upload with READY.  The same
  number passes every check of a name or a size.
* `both_wait`: after a failed unmount, and in `generate.py` after a failed zip, the client
  reads on as if the server did, which has returned to reading a header: both wait, with
  the save left mounted or registered.  `resign.py` comes to the same wait after a failed
  mount of the unpacked save.  Besides, `extract.py:119` takes for the status
  "that the true mount was successfully" what is the zip's: that mount has none.

## Proofs

`SaveJobsProofs` assumes what the modules assume of their constants: `NoJob` is not a
job, `Preexisting` is a set of saves, `Conn` is defined on the jobs and
`UmountRetries` is a natural number.  It proves

* `TypeCorrect`: `Spec => []TypeOK`;
* `Invariance`: `Spec => [](TypeOK /\ Inv)`;
* `MountReleasedCorrect`, `TempResidueCorrect`, `SuccessMeansCleanCorrect`: the three
  properties of the same names, from `Inv`.

None of the three properties is inductive: each speaks of ended jobs, and a step into
`done` preserves it only because of where the job was.  `Inv` says so for every
program point: where a job may hold a mount (`Holding`), where it may have a zip
(`Zipping`), which commands pass through a point two of them share (`Path`), that a
job that reported its deletion is over and owns nothing (`Deleted`), and that a job
mounts and creates only the save of its packet (`OwnSaveOnly`).  The step is proved in
two halves: `OtherJob`, that a step leaves every other job's part of `Inv` alone
(`ServiceFrame`: no call mounts or creates for another job), and `OwnJob`, one case
for each action.  `JobStepEffect` gathers what all actions have in common, so that
types and frames are proved once; `SayAppends` is the lemma about appending statuses.
TLC found no violation of `Inv` on the instance of `jobs_shared`.

`UploadStoreProofs` assumes that `NoJob` is not a job and `NoName` not a name, that
`Conn`, `Length`, `CutShort` and `Undeletable` have their types, that sizes are words and
errnos positive; nothing is assumed of how many jobs, names or errno values there are.  It
proves `TypeCorrect`, `Invariance`, `FailedLeavesNothingCorrect` and
`OpensOwnNameCorrect`.  `FailedLeavesNothing` is not inductive: that `unlink` of a name
removes the job's own inode, finds it already removed, or fails on one of `Undeletable`,
needs `OneName` (an inode has no name but the one it was opened under), which needs
`Creators` (a new inode is in nobody's hands).  `OpensOwnName` needs `WholeName`: a name
cut short goes with a broken connection until the next read sends the job away.
`UnopenedStep` gathers the steps that open nothing.

`ServerProofs` assumes that the bounds and sizes are natural numbers, that a chunk is at
least one byte and a word holds a size and a chunk (`SizesAssumption`), and that errnos
are positive and smaller than a save packet (`ErrnosAssumption`); it proves `TypeCorrect`,
`Invariance`, `NoGhostCommandCorrect`, `InOrderCorrect` and `FileCompleteCorrect` for any
connections.  `FileComplete` speaks of the moments outside a transfer, so `Progress` says
how many bytes have been sent at each point inside it, and `Announcing` that nothing is
announced before.  `NoGhostCommand` needs `StaleEnds`: after a stale header the connection
has told its errno and has nothing left to read, so that the packet's read ends it.
`WrittenSent` and `WriteEffect` are the lemmas about one write; `OwnConn` has one case for
each action and `OtherConn` says that it leaves the other connections alone.

`SaveScriptProofs` proves `ScriptInvariance` and from it `EndsToldCorrect`.  `ScriptInv`
says that a job whose client was told of no failure has sent exactly the first n
statuses of its command's script, all READY, where n (`Place`) is a function of the
program point; `OnScript` names what is different after a second mount that failed, whose
error `onRealMount` of the extraction ignores.  At `done` the whole script has been said,
which is `Succeeded`.

`SaveContentProofs` proves `OwnContentCorrect` and `ZipsUnmountedCorrect` under `Apart`:
commands that name one save come over one connection.  That is the hypothesis of
`jobs_serial`, for any number of saves and connections at once; without it both are false
(`cross_delivery`).  `OwnContent` says of the generator where both backing files and the
image come from, so `ContentInv` has to say who may have left a save that is there before a
generator mounts it (`LeftBy`): the user, or an ended job that did not report its deletion.
`Apart` speaks of the packets, which no step changes, and stands
inside the box because `Init` chooses the packets.  `ContentInv` says for each command
and program point who has the save mounted, what the backing files and the image come
from and what the zip holds; `Turns`, that a thread is inside one command, gives that
nobody else works on the save meanwhile (`Untouched`).

`UploadStoreProofs` also proves `StoreRefined`: `Spec /\ TakeTurns => StoreSpec`.
`TakeTurns` says that commands for one name come over one connection and that no read
fails with an errno; `upload_shared` has the first and `read_error_ready` the second
violated, and neither implements the store.  `StoredInv` says what an upload's inode holds
while it is open (the bytes its client has sent so far, those of nobody else) and that the
file behind any other name is whole.  Each action is mapped to a step of the store or to
none: what others see of a name changes with `Open`, `Finish`, `Unlink` and `Remove`.

`DialogueWayProofs` and `DialogueProofs` prove the five invariants of `Dialogue`, for any
number of calls on any number of connections; nothing is assumed but what `SaveJobs`
assumes.  The argument has two halves.

* `WayInvariance` is about the jobs alone.  Let F be the places a client passes when it
  reads the statuses of a job one after the other (`Way`).  Whatever failed, the status
  after each place is the one the client's script has there, and the place after the last
  is the one that belongs to the job's program point (`OnWay`); or the two have parted at
  one of two places, `AfterZip` (the client of an extraction has returned) and
  `AfterMount` (the client of a resign expects an unmount and is told of a deletion).  At
  the end of a job F is at `Return`, or the last word is one of those `Stuck` names.
* `DialogueInvariance` is about the wire.  A client that has misread nothing has read the
  first n statuses of its job (`Reading`) and the rest lies on the wire in order (`Lies`),
  behind other jobs' statuses only when n is 0.  A client that has misread does so behind
  a call that returned at the zip, or has read the last status of a resign whose
  mount failed and reads on (`Misled`).  As long as no call has returned at the zip on a
  connection, all that is on its wire is for the client that reads (`OwnOnly`), the
  connection is open, and what is in its stream is what that client's job has still to read
  (`Attended`, `Due`), so that a packet never waits behind another's.

`StuckOnly` then follows because an empty wire means n is the number of statuses said, or
the client is one of the misled that the property names;
`NoFalseSuccess` because a client that returns on READY alone stands at the end of F,
where the job has succeeded; `NoLeftover` because nothing lies on the wire when n is that
number.  `ServeStep`, `AskStep` and `ReadStep` are the three kinds of step; a step of the
server is seen through `Served`, one of a client through `Taken`, which say what it
changes and keeps.  `DialogueIsJobs` says that a behaviour of `Dialogue` is one of
`SaveJobs`' jobs, so that the invariants of these hold there too.  Each inductive
invariant of this section was checked by TLC before it was proved; that of `Dialogue` with
three extractions on one connection, where TLC found the three-call exception above.

`FileTreeProofs` proves the six invariants of `FileTree` for any names, hidden or not, any
tree, any targets, any order of the entries and any failure; it assumes that the paths of
the instance are sequences of names and not the root (`PathsAssumption`).  The helpers are
recursive over the tree, and induction over data is out of the prover's reach; but as a
walk that takes one entry at a time a helper is a state machine, and the induction is over
its steps.  `IInv` has four parts.

* `WalkInv`: the walk is inside visible folders, and each entry of `todo` lies directly
  below a folder on the path to `at` and not on that path itself.  So no entry lies below
  another (`Antichain`), taking or entering one leaves what is ahead of the walk as it was
  but for that entry (`AheadTake`, `AheadEnter`), and when the outermost loop is over
  nothing is left to do (`WalkOver`).
* One invariant for each helper, which says of every entry of the tree whether it is ahead
  or done.  `ListInv`: a visible file has been told, under its last two names, or is ahead,
  and never both when the folder is shallow.  `DeleteInv`: what is left of the folder is
  hidden, ahead or on the way, so that an `rmdir` that is refused has met a hidden entry.
  `CopyInv`: the source is as it was, and what is not ahead has been copied; `ZipInv`: what
  is in the dump was found under the name told.
* `MakeInv`: each folder that the loop of `_mkdir` has passed is there, or lies at or
  below a file or a folder the system would not make (`Blocked`); of a copy, that the
  folder's place is there before its files are copied.
* `CallInv` and `TypeOK`: the tree, now and when the call was made.

The lemmas about paths say what a prefix, a parent and the place of an entry in the target
are, name by name: two entries have one place only if they are the same (`PlaceOnce`), a
place outside of the source stays outside (`PlaceBeside`), and a name told leads to its
own file or to one with the same last two names (`ToldFile`).  TLC checked the invariants
of the walk on the instance of `file_tree` first.  It also found what a first form of
`CopiesAll` got wrong, that a copy upwards may overwrite its own source.

Every invariant and every refinement of the passing runs is proved.  Only model-checked is
liveness under fairness, out of the prover's reach: `JobEnds`, `BrokenEnds`, `CallEnds` of
`Dialogue` and of `FileTree`, `BrokenCloses`.  The theorems about
`Dialogue` say nothing of what is left out of it: connections that break in the middle of a
command, and the order of the statuses of an upload.

## Left to do

The exact misreadings behind a call that returned at the zip: the invariant says nothing
more of such a client, and `NoFalseSuccess` excepts the whole connection.

## Not modelled

* `errcodes.cpp` is a table of names in a function that is never called.  Its 7480 lines
  are three quarters of the implementation; all the rest together is less than a quarter,
  so that no model of this code covers 30% of its lines.
* `transferFiles`, `directoryExists` and `getFileSize` are never called, and differ from
  what is modelled (`transferFile`, an `opendir`, an `lseek`) in nothing that has a state.
* `getRandomFileName`: the names of temporary zips are taken as distinct.  With
  `/dev/urandom` a collision is a chance of 1 in 16^8; without it the fallback may give two
  jobs one name, which is listed as a hazard.
* Notifications, the log and the package: output nothing reads, and build files.
* The clients' preparation of their zips, `upload.py` and the setup script: sequential and
  local; the upload's own statuses are `UploadStore`'s.
* Buffers of fixed size that hold paths: a path is a value here.
