---------------------------- MODULE UploadStore -----------------------------
(***************************************************************************)
(* handleUploadFile with downloadFileTo, and handleUploadDelete, over the  *)
(* directory /data/teamalua/uploads.  A job is one upload or deletion that *)
(* a client sends on its connection; connections share the directory       *)
(* without a lock.  readFull returns 0 at the end of the stream and errno, *)
(* a positive number, when read fails.  A socket that has failed or ended  *)
(* reads as ended from then on (external).                                 *)
(*                                                                         *)
(* A file is an inode, named by the job that created it, that one name or  *)
(* no name refers to: an unlinked inode can still be written.              *)
(***************************************************************************)
EXTENDS Integers, Sequences

CONSTANTS
    Jobs,       \* the commands
    NoJob,      \* nobody: an unused name, a byte that no client sent
    Names,      \* names of files
    NoName,     \* the empty name
    Conn,       \* the connection each job arrives on
    Length,     \* the length of a name
    CutShort,   \* names that are left of a name whose last bytes did not come
    Sizes,      \* file sizes that clients announce
    Chunk,      \* bytes read at once by downloadFileTo (8192)
    WordMod,    \* values of a uint32_t (2^32)
    Errnos,     \* values of errno after a read of a socket that failed
    Undeletable \* names that unlink may fail to remove

ASSUME NobodyAssumption == NoJob \notin Jobs /\ NoName \notin Names
ASSUME ConnAssumption == DOMAIN Conn = Jobs
ASSUME NamesAssumption ==
    /\ Length \in [Names -> Nat \ {0}]
    /\ CutShort \in [Names -> SUBSET Names]
    /\ Undeletable \subseteq Names
ASSUME NumbersAssumption ==
    /\ WordMod \in Nat \ {0} /\ Chunk \in Nat \ {0}
    /\ Sizes \subseteq 0 .. WordMod - 1
    /\ Errnos \subseteq Nat \ {0}

VARIABLES
    pc,         \* the next step of each job
    order,      \* what the client asks for: command, name, size
    path,       \* the name in the handler's buffer
    filesize,   \* filesize of handleUploadFile
    remaining,  \* bytesRemaining of downloadFileTo
    fd,         \* the inode downloadFileTo opened, or NoJob
    reads,      \* how the job's last read ended
    said,       \* the statuses sent: was it CMD_STATUS_READY
    dir,        \* the inode of each name, or NoJob
    content     \* the bytes of each inode: which job's client sent them

jvars == <<pc, order, path, filesize, remaining, fd, reads, said>>
vars  == <<jvars, dir, content>>

Owner == Jobs \cup {NoJob}
Words == 0 .. WordMod - 1

Labels == {"idle", "name", "size", "open", "receive", "unlink", "remove", "done"}

TypeOK ==
    /\ pc \in [Jobs -> Labels]
    /\ order \in [Jobs -> [cmd : {"upload", "delete"}, name : Names, size : Sizes]]
    /\ path \in [Jobs -> Names \cup {NoName}]
    /\ filesize \in [Jobs -> Words]
    /\ remaining \in [Jobs -> Words]
    /\ fd \in [Jobs -> Owner]
    /\ reads \in [Jobs -> {"ok", "eof", "errno", "astray"}]
    /\ said \in [Jobs -> Seq(BOOLEAN)]
    /\ dir \in [Names -> Owner]
    /\ DOMAIN content = Jobs
    /\ \A i \in Jobs : /\ DOMAIN content[i] \subseteq Nat
                       /\ \A o \in DOMAIN content[i] : content[i][o] \in Owner

-----------------------------------------------------------------------------
Upload(j) == order[j].cmd = "upload"
Name(j)   == order[j].name

At(j, l)   == pc[j] = l
Goto(j, l) == pc' = [pc EXCEPT ![j] = l]

\* sendStatusCode
Say(j, ready) == said' = [said EXCEPT ![j] = Append(@, ready)]

Init ==
    /\ pc = [j \in Jobs |-> "idle"]
    /\ order \in [Jobs -> [cmd : {"upload", "delete"}, name : Names, size : Sizes]]
    /\ path = [j \in Jobs |-> NoName]
    /\ filesize = [j \in Jobs |-> 0]
    /\ remaining = [j \in Jobs |-> 0]
    /\ fd = [j \in Jobs |-> NoJob]
    /\ reads = [j \in Jobs |-> "ok"]
    /\ said = [j \in Jobs |-> << >>]
    /\ dir = [n \in Names |-> NoJob]
    /\ content = [i \in Jobs |-> << >>]

\* The connection carries bytes, and they are where the server expects them.
Live(j) == \A k \in Jobs : Conn[k] = Conn[j] => reads[k] = "ok"

ThreadFree(j) ==
    \A k \in Jobs \ {j} : Conn[k] = Conn[j] => pc[k] \in {"idle", "done"}

\* readFull, asked for some bytes: it returns their number, 0, or errno.
ReadFull(j, wanted, received) ==
    \/ received = wanted /\ Live(j) /\ UNCHANGED reads
    \/ received = 0 /\ reads' = [reads EXCEPT ![j] = IF Live(j) THEN "eof" ELSE @]
    \/ received \in Errnos /\ Live(j) /\ reads' = [reads EXCEPT ![j] = "errno"]

Results(wanted) == {wanted, 0} \cup Errnos

-----------------------------------------------------------------------------
(* The two handlers, up to the file: the length of the name, the name, and  *)
(* of an upload the size of the file.                                       *)

NameLimit(j) == IF Upload(j) THEN 128 ELSE 63

Accept(j) ==
    /\ At(j, "idle") /\ Live(j) /\ ThreadFree(j)
    /\ LET short == Length[Name(j)] <= NameLimit(j)
       IN  Say(j, short) /\ Goto(j, IF short THEN "name" ELSE "done")
    /\ UNCHANGED <<order, path, filesize, remaining, fd, reads, dir, content>>

\* Mutant of Stops: only a result below zero is an error.
StopsBelowZero(received) == received < 0

Stops(received) == received <= 0

AfterName(j) == IF Upload(j) THEN "size" ELSE "remove"

ReadName(j) ==
    /\ At(j, "name")
    /\ \E received \in Results(Length[Name(j)]) :
           /\ ReadFull(j, Length[Name(j)], received)
           /\ Say(j, ~Stops(received))
           /\ Goto(j, IF Stops(received) THEN "done" ELSE AfterName(j))
    /\ \E name \in IF reads'[j] = "ok" THEN {Name(j)}
                    ELSE CutShort[Name(j)] \cup {NoName} :
           path' = [path EXCEPT ![j] = name]
    /\ UNCHANGED <<order, filesize, remaining, fd, dir, content>>

\* filesize is not initialised: when its bytes do not come it has any value.
ReadSize(j) ==
    /\ At(j, "size")
    /\ \E received \in Results(4) :
           /\ ReadFull(j, 4, received)
           /\ Say(j, ~Stops(received))
           /\ Goto(j, IF Stops(received) THEN "done" ELSE "open")
    /\ \E size \in IF reads'[j] = "ok" THEN {order[j].size} ELSE Words :
           filesize' = [filesize EXCEPT ![j] = size]
    /\ UNCHANGED <<order, path, remaining, fd, dir, content>>

-----------------------------------------------------------------------------
(* downloadFileTo.                                                          *)

\* open with O_CREAT and O_TRUNC: it may fail, and a directory cannot be opened.
Open(j) ==
    /\ At(j, "open")
    /\ \/ /\ path[j] \in Names
          /\ LET i == IF dir[path[j]] = NoJob THEN j ELSE dir[path[j]]
             IN  /\ fd' = [fd EXCEPT ![j] = i]
                 /\ dir' = [dir EXCEPT ![path[j]] = i]
                 /\ content' = [content EXCEPT ![i] = << >>]
          /\ remaining' = [remaining EXCEPT ![j] = filesize[j]]
          /\ Say(j, TRUE)
          /\ Goto(j, "receive")
       \/ /\ Say(j, FALSE)
          /\ Goto(j, "done")
          /\ UNCHANGED <<remaining, fd, dir, content>>
    /\ UNCHANGED <<order, path, filesize, reads>>

\* pwrite: bytes of the stream, or after a failed read whatever the buffer held.
Overwrite(bytes, offset, n, who) ==
    LET over == offset .. offset + n - 1
    IN  [o \in DOMAIN bytes \cup over |-> IF o \in over THEN who ELSE bytes[o]]

Offset(j) == (filesize[j] - remaining[j]) % WordMod

\* Mutant of Left: the count is a signed int.
LeftSigned(j, received) == remaining[j] - received

Left(j, received) == (remaining[j] - received) % WordMod

\* Mutant of Short: a short write is not noticed.
ShortUnchecked(n, received) == FALSE

Short(n, received) == n < received

Write(j, received) ==
    \E n \in 0 .. received :
        /\ content' = [content EXCEPT ![fd[j]] =
               Overwrite(@, Offset(j), n, IF reads'[j] = "ok" THEN j ELSE NoJob)]
        /\ \/ Short(n, received) /\ Goto(j, "unlink") /\ UNCHANGED remaining
           \/ /\ ~Short(n, received)
              /\ remaining' = [remaining EXCEPT ![j] = Left(j, received)]
              /\ UNCHANGED pc

\* One turn of the loop: a read and the write of what it returned.
Receive(j) ==
    /\ At(j, "receive") /\ remaining[j] # 0
    /\ LET wanted == IF remaining[j] < Chunk THEN remaining[j] ELSE Chunk
       IN  \E received \in Results(wanted) :
               /\ ReadFull(j, wanted, received)
               /\ IF Stops(received)
                  THEN Goto(j, "unlink") /\ UNCHANGED <<remaining, content>>
                  ELSE Write(j, received)
    /\ UNCHANGED <<order, path, filesize, fd, said, dir>>

Finish(j) ==
    /\ At(j, "receive") /\ remaining[j] = 0
    /\ Say(j, TRUE)
    /\ Goto(j, "done")
    /\ UNCHANGED <<order, path, filesize, remaining, fd, reads, dir, content>>

\* Bytes of the file that are still to come are read as the next header, whose
\* magic number they are not: the server closes the connection.
Strays(j) == reads[j] = "ok" /\ remaining[j] > Chunk

\* Mutant of Discarded: the file is removed only after a failed read.
DiscardedOnReadError(j) == reads[j] # "ok"

Discarded(j) == TRUE

\* The result of unlink is ignored.
Unlink(j) ==
    /\ At(j, "unlink")
    /\ \/ dir' = IF Discarded(j) THEN [dir EXCEPT ![path[j]] = NoJob] ELSE dir
       \/ path[j] \in Undeletable /\ UNCHANGED dir
    /\ reads' = [reads EXCEPT ![j] = IF Strays(j) THEN "astray" ELSE @]
    /\ Say(j, FALSE)
    /\ Goto(j, "done")
    /\ UNCHANGED <<order, path, filesize, remaining, fd, content>>

-----------------------------------------------------------------------------
(* handleUploadDelete: remove.  It may fail for a reason of its own.        *)

Remove(j) ==
    /\ At(j, "remove")
    /\ \/ /\ path[j] \in Names
          /\ dir[path[j]] # NoJob
          /\ dir' = [dir EXCEPT ![path[j]] = NoJob]
          /\ Say(j, TRUE)
       \/ UNCHANGED dir /\ Say(j, FALSE)
    /\ Goto(j, "done")
    /\ UNCHANGED <<order, path, filesize, remaining, fd, reads, content>>

-----------------------------------------------------------------------------
Read(j)  == ReadName(j) \/ ReadSize(j) \/ Receive(j)
Local(j) == Open(j) \/ Finish(j) \/ Unlink(j) \/ Remove(j)

Next == \E j \in Jobs : Accept(j) \/ Read(j) \/ Local(j)

\* A call to the file system returns, and so does a read of a connection that
\* has ended.  Nothing is assumed of a client that may still send.
Prompt(j) == Local(j) \/ (~Live(j) /\ Read(j))

Fairness == \A j \in Jobs : WF_vars(Prompt(j))

Spec == Init /\ [][Next]_vars /\ Fairness

-----------------------------------------------------------------------------
(* What the store promises.                                                 *)

Ended(j) == At(j, "done")

\* The command ended well: the last status its client was sent is READY.
Kept(j) == Ended(j) /\ said[j][Len(said[j])]

\* An upload that opened its file and was answered with an error has left no
\* name of that file, whichever of downloadFileTo's error paths it took and
\* whatever other connections did to the name in the meantime; but a name that
\* unlink may fail to remove can be left, for nothing looks at its result.
FailedLeavesNothing ==
    \A j \in Jobs : Ended(j) /\ fd[j] # NoJob /\ ~Kept(j) =>
        \A n \in Names \ Undeletable : dir[n] # fd[j]

\* A file is opened only under the whole name its client sent: a name that was
\* cut short passes the handler's check, but not the next read.
OpensOwnName ==
    \A j \in Jobs : fd[j] # NoJob => path[j] = Name(j)

\* When a read of its connection has ended in anything but bytes, a job comes to
\* its end: the loop of downloadFileTo does too, although its count of bytes may
\* have wrapped around.
BrokenEnds == \A j \in Jobs : reads[j] # "ok" ~> Ended(j)

\* downloadFileTo, told the size of the file, does not keep a file as READY when
\* a read of the socket failed.
ReadErrorReported ==
    \A j \in Jobs :
        Ended(j) /\ fd[j] # NoJob /\ filesize[j] = order[j].size /\ reads[j] = "errno"
            => ~Kept(j)

\* For clients that take turns the directory is the store of FileStore.
Writer(n) ==
    LET busy == {j \in Jobs : pc[j] \in {"receive", "unlink"} /\ path[j] = n}
    IN  IF busy = {} THEN NoJob ELSE CHOOSE j \in busy : TRUE

Held(n) ==
    IF dir[n] = NoJob \/ Writer(n) # NoJob
    THEN [there |-> FALSE, bytes |-> << >>]
    ELSE [there |-> TRUE, bytes |-> content[dir[n]]]

Outcome(j) ==
    CASE ~Ended(j) -> "none" [] Kept(j) -> "ready" [] OTHER -> "failed"

Store == INSTANCE FileStore WITH
    holds   <- [n \in Names |-> Held(n)],
    writer  <- [n \in Names |-> Writer(n)],
    outcome <- [j \in Jobs |-> Outcome(j)]

StoreSpec == Store!Spec

=============================================================================
