------------------------------ MODULE SaveJobs ------------------------------
(***************************************************************************)
(* The three save commands of the server: doSaveGenerator, doSaveExtract   *)
(* and doSaveResign, with saveMountUnMount, the partial zip routines and   *)
(* transferFile below them.  Each job is one command run by the thread of  *)
(* one connection.  The threads share the saves, the save-data service and *)
(* /data/teamalua/temp without any lock, so an action is one call to the   *)
(* service or the file system together with the statuses that report it.   *)
(*                                                                         *)
(* A status is <<what it reports, whether it is CMD_STATUS_READY>>.        *)
(***************************************************************************)
EXTENDS SaveData, Naturals, Sequences

CONSTANTS
    Conn,           \* the connection each job arrives on
    UmountRetries   \* times saveMountUnMount repeats a busy unmount (10)

ASSUME ConnAssumption == DOMAIN Conn = Jobs
ASSUME RetriesAssumption == UmountRetries \in Nat

VARIABLES
    pc,        \* the next call of each job
    req,       \* its packet: command, save, whether a zip of files is named
    tries,     \* count of the retry loop of saveMountUnMount
    modified,  \* success of doSaveGenerator
    temp,      \* the job's randomly named zip in /data/teamalua/temp
    tempDir,   \* whether that directory exists
    said,      \* the statuses sent to the client, in order
    got        \* the archive transferred to the client

jvars == <<pc, req, tries, modified, temp, tempDir, said, got>>
vars  == <<svars, jvars>>

Commands == {"gen", "extract", "resign"}

Labels == {"idle", "packet", "gMount", "tMount", "tClean", "tUmount", "unzipBin",
           "unzipImg", "xClean", "rMount", "rClean", "account", "title",
           "params", "files", "gUmount", "dump", "unlink", "rUmount",
           "zipBin", "zipImg", "send", "del", "done"}

Topics == {"command", "packet", "mount", "umount", "modify", "unzip", "zip",
           "open", "seekEnd", "seekSet", "delete"}

Archives == [state : {"none", "partial", "whole"}, bin : Sources, img : Images]

Archive(state, b, i) == [state |-> state, bin |-> b, img |-> i]

NoArchive == Archive("none", Absent, Blank(Absent))

TypeOK ==
    /\ SaveTypeOK
    /\ pc \in [Jobs -> Labels]
    /\ req \in [Jobs -> [cmd : Commands, save : Saves, zip : BOOLEAN]]
    /\ tries \in [Jobs -> 0 .. UmountRetries]
    /\ modified \in [Jobs -> BOOLEAN]
    /\ temp \in [Jobs -> Archives]
    /\ tempDir \in BOOLEAN
    /\ said \in [Jobs -> Seq(Topics \X BOOLEAN)]
    /\ got \in [Jobs -> Archives]

-----------------------------------------------------------------------------
Cmd(j)  == req[j].cmd
Save(j) == req[j].save

Mounted(j) == mount[Save(j)] = j

At(j, l)   == pc[j] = l
Goto(j, l) == pc' = [pc EXCEPT ![j] = l]

\* sendStatusCode, once for each status of the sequence.
Say(j, statuses) == said' = [said EXCEPT ![j] = @ \o statuses]
Silent           == UNCHANGED said

Ready(topic)  == <<topic, TRUE>>
Failed(topic) == <<topic, FALSE>>

Heard(j, status) == \E i \in 1 .. Len(said[j]) : said[j][i] = status

Told(j) == \E i \in 1 .. Len(said[j]) : ~said[j][i][2]

Init ==
    /\ SaveInit
    /\ pc = [j \in Jobs |-> "idle"]
    /\ req \in [Jobs -> [cmd : Commands, save : Saves, zip : BOOLEAN]]
    /\ \A j \in Jobs : Cmd(j) # "gen" => req[j].zip
    /\ tries = [j \in Jobs |-> 0]
    /\ modified = [j \in Jobs |-> FALSE]
    /\ temp = [j \in Jobs |-> NoArchive]
    /\ tempDir \in BOOLEAN
    /\ said = [j \in Jobs |-> << >>]
    /\ got = [j \in Jobs |-> NoArchive]

-----------------------------------------------------------------------------
(* handleSaveGenerating, handleSaveExtract, handleSaveResign: the command   *)
(* is acknowledged, then the packet is read.  A connection's thread handles *)
(* one command at a time.                                                   *)

ThreadFree(j) ==
    \A k \in Jobs \ {j} : Conn[k] = Conn[j] => pc[k] \in {"idle", "done"}

Receive(j) ==
    /\ At(j, "idle")
    /\ ThreadFree(j)
    /\ Say(j, <<Ready("command")>>)
    /\ Goto(j, "packet")
    /\ UNCHANGED <<svars, req, tries, modified, temp, tempDir, got>>

Accept(j) ==
    /\ At(j, "packet")
    /\ Say(j, <<Ready("packet")>>)
    /\ Goto(j, IF Cmd(j) = "gen" THEN "gMount" ELSE "tMount")
    /\ UNCHANGED <<svars, req, tries, modified, temp, tempDir, got>>

\* The packet does not come, or not whole.
Reject(j) ==
    /\ At(j, "packet")
    /\ Say(j, <<Failed("packet")>>)
    /\ Goto(j, "done")
    /\ UNCHANGED <<svars, req, tries, modified, temp, tempDir, got>>

-----------------------------------------------------------------------------
(* doSaveGenerator, up to the unmount.                                      *)

GenMount(j) ==
    /\ At(j, "gMount")
    /\ \/ /\ MountSave(j, Save(j), "create2")
          /\ Say(j, <<Ready("mount")>>)
          /\ Goto(j, "account")
       \/ /\ Say(j, <<Failed("mount")>>)
          /\ Goto(j, "done")
          /\ UNCHANGED svars
    /\ UNCHANGED <<req, tries, modified, temp, tempDir, got>>

\* changeSaveAccountId, fixParamSfoTitleId, sceSaveDataSetParam and zip_extract
\* write into the mounted image.  zip_extract may fail half-way.
NextPatch(j, patch) ==
    CASE patch = "account" -> "title"
      [] patch = "title"   -> "params"
      [] patch = "params" /\ req[j].zip -> "files"
      [] OTHER -> "gUmount"

\* Mutants of AfterPatch: the first failure is not a reason to stop; the
\* do-while around the patches is repeated until they succeed.
AfterPatchIgnoring(j, patch, ok) == NextPatch(j, patch)
AfterPatchRetrying(j, patch, ok) == IF ok THEN NextPatch(j, patch) ELSE "account"

AfterPatch(j, patch, ok) == IF ok THEN NextPatch(j, patch) ELSE "gUmount"

GenPatch(j, patch) ==
    /\ Cmd(j) = "gen"
    /\ At(j, patch)
    /\ \/ /\ PatchImage(j, Save(j), patch)
          /\ Goto(j, AfterPatch(j, patch, TRUE))
          /\ modified' = [modified EXCEPT ![j] = NextPatch(j, patch) = "gUmount"]
       \/ /\ UNCHANGED svars \/ (patch = "files" /\ PatchImage(j, Save(j), patch))
          /\ Goto(j, AfterPatch(j, patch, FALSE))
          /\ UNCHANGED modified
    /\ Silent
    /\ UNCHANGED <<req, tries, temp, tempDir, got>>

\* The generator unmounts once, whatever the error, then reports both results.
GenUmount(j) ==
    /\ At(j, "gUmount")
    /\ \/ /\ UmountSave(j, Save(j))
          /\ Say(j, <<Ready("umount"), <<"modify", modified[j]>> >>)
          /\ Goto(j, IF modified[j] THEN "zipBin" ELSE "del")
       \/ /\ Say(j, <<Failed("umount")>>)
          /\ Goto(j, "done")
          /\ UNCHANGED svars
    /\ UNCHANGED <<req, tries, modified, temp, tempDir, got>>

-----------------------------------------------------------------------------
(* saveMountUnMount on the temporary save of doSaveExtract (CREATE2) and    *)
(* doSaveResign (CREATE).  When the mount fails the save is deleted and the *)
(* result of the deletion is only logged.                                   *)

TempMount(j) ==
    /\ At(j, "tMount")
    /\ \/ /\ MountSave(j, Save(j), IF Cmd(j) = "resign" THEN "create" ELSE "create2")
          /\ Say(j, <<Ready("mount")>>)
          /\ Goto(j, "tUmount")
       \/ /\ Say(j, <<Failed("mount")>>)
          /\ Goto(j, "tClean")
          /\ UNCHANGED svars
    /\ UNCHANGED <<req, tries, modified, temp, tempDir, got>>

\* The deletions whose result the code ignores: after a failed mount, and
\* after doSaveExtract could not unpack the client's zip.
TryDelete(j) == DeleteSave(Save(j)) \/ UNCHANGED svars

Clean(j) ==
    /\ TryDelete(j)
    /\ \/ At(j, "tClean") /\ Goto(j, "done") /\ Silent
       \/ At(j, "xClean") /\ Goto(j, "done") /\ Say(j, <<Failed("unzip")>>)
       \/ /\ At(j, "rClean") /\ Silent
          /\ Goto(j, IF Cmd(j) = "extract" THEN "done" ELSE "del")
    /\ UNCHANGED <<req, tries, modified, temp, tempDir, got>>

\* An unmount of saveMountUnMount that reports BUSY is repeated.
\* Mutant of RetryLeft: one repetition too many.
RetryLeftOffByOne(j) == tries[j] <= UmountRetries

RetryLeft(j) == tries[j] < UmountRetries

UmountBusy(j) ==
    /\ pc[j] \in {"tUmount", "rUmount"}
    /\ RetryLeft(j)
    /\ tries' = [tries EXCEPT ![j] = @ + 1]
    /\ Silent
    /\ UNCHANGED <<svars, pc, req, modified, temp, tempDir, got>>

Umount(j, onReady, onFailed) ==
    /\ \/ /\ UmountSave(j, Save(j))
          /\ Say(j, <<Ready("umount")>>)
          /\ Goto(j, onReady)
       \/ /\ Say(j, <<Failed("umount")>>)
          /\ Goto(j, onFailed)
          /\ UNCHANGED svars
    /\ tries' = [tries EXCEPT ![j] = 0]
    /\ UNCHANGED <<req, modified, temp, tempDir, got>>

TempUmount(j) == At(j, "tUmount") /\ Umount(j, "unzipBin", "done")

-----------------------------------------------------------------------------
(* zip_partial_extract of the client's two entries over the backing files   *)
(* of the unmounted save: first <dirName>.bin, then the image.  An entry    *)
(* that cannot be found leaves the file alone, one that cannot be read in   *)
(* full leaves it torn.                                                     *)

\* Mutant of UnzipFails: doSaveResign does not report it.
UnzipFailsQuietly(j) ==
    Silent /\ Goto(j, IF Cmd(j) = "extract" THEN "xClean" ELSE "del")

UnzipFails(j) ==
    IF Cmd(j) = "extract"
    THEN Goto(j, "xClean") /\ Silent
    ELSE Goto(j, "del") /\ Say(j, <<Failed("unzip")>>)

UnzipBin(j) ==
    /\ At(j, "unzipBin")
    /\ \/ WriteBin(Save(j), <<"zip", j>>) /\ Goto(j, "unzipImg") /\ Silent
       \/ (WriteBin(Save(j), <<"torn", j>>) \/ UNCHANGED svars) /\ UnzipFails(j)
    /\ UNCHANGED <<req, tries, modified, temp, tempDir, got>>

UnzipImg(j) ==
    /\ At(j, "unzipImg")
    /\ \/ /\ WriteImage(Save(j), <<"zip", j>>)
          /\ Say(j, <<Ready("unzip")>>)
          /\ Goto(j, "rMount")
       \/ (WriteImage(Save(j), <<"torn", j>>) \/ UNCHANGED svars) /\ UnzipFails(j)
    /\ UNCHANGED <<req, tries, modified, temp, tempDir, got>>

-----------------------------------------------------------------------------
(* saveMountUnMount on the unpacked save.  doSaveExtract passes tempMount   *)
(* again, so the save is mounted with CREATE2 and not read-only, and its    *)
(* onRealMount neither looks at the error nor reports it: with an empty     *)
(* mount path it dumps the application's sandbox.  doSaveResign reports the *)
(* mount and patches param.sfo.                                             *)

RealMount(j) ==
    /\ At(j, "rMount")
    /\ \/ /\ Cmd(j) = "extract"
          /\ MountSave(j, Save(j), "create2") \/ UNCHANGED svars
          /\ Silent
          /\ Goto(j, "dump")
       \/ /\ Cmd(j) = "resign"
          /\ MountSave(j, Save(j), "open")
          /\ Say(j, <<Ready("mount")>>)
          /\ Goto(j, "account")
       \/ /\ Cmd(j) = "resign"
          /\ Say(j, <<Failed("mount")>>)
          /\ Goto(j, "rClean")
          /\ UNCHANGED svars
    /\ UNCHANGED <<req, tries, modified, temp, tempDir, got>>

\* onRealMount of cmd_resign.cpp: realArgs is a copy of the caller's structure,
\* so the error it stores for a failed patch is lost.
ResignPatch(j, patch) ==
    /\ Cmd(j) = "resign"
    /\ At(j, patch)
    /\ PatchImage(j, Save(j), patch) \/ UNCHANGED svars
    /\ Goto(j, IF patch = "account" THEN "title" ELSE "rUmount")
    /\ Silent
    /\ UNCHANGED <<req, tries, modified, temp, tempDir, got>>

\* onRealMount of cmd_saveextract.cpp: the directory is made, or not, and what
\* is mounted, or the sandbox, is zipped into it.
Mkdir(made) == tempDir' = (tempDir \/ made)

\* A zip reported READY may lack files: those of nested folders (see FileTree), or
\* its end, since the result of zip_close is ignored.
Built == {"whole", "partial"}

Dump(j) ==
    /\ At(j, "dump")
    /\ \E made \in BOOLEAN : Mkdir(made)
    /\ \/ /\ tempDir'
          /\ \E state \in Built :
                 temp' = [temp EXCEPT ![j] = Archive(state, Absent,
                     IF Mounted(j) THEN img[Save(j)] ELSE Blank(Sandbox))]
          /\ Say(j, <<Ready("zip")>>)
          /\ Goto(j, "send")
       \/ /\ \/ UNCHANGED temp
             \/ tempDir' /\ temp' = [temp EXCEPT ![j].state = "partial"]
          /\ Say(j, <<Failed("zip")>>)
          /\ Goto(j, "unlink")
    /\ UNCHANGED <<svars, req, tries, modified, got>>

\* Mutant of RealUmount: doSaveResign goes on when the unmount failed.
RealUmountIgnored(j) ==
    /\ At(j, "rUmount")
    /\ IF Cmd(j) = "extract" THEN Umount(j, "del", "done") ELSE Umount(j, "zipBin", "zipBin")

RealUmount(j) ==
    /\ At(j, "rUmount")
    /\ IF Cmd(j) = "extract" THEN Umount(j, "del", "done") ELSE Umount(j, "zipBin", "del")

-----------------------------------------------------------------------------
(* zip_partial_directory of the two backing files of doSaveGenerator, which *)
(* makes the directory first, and doSaveResign, which does not.             *)

ZipFails(j, partly) ==
    /\ \/ UNCHANGED temp
       \/ partly /\ temp' = [temp EXCEPT ![j].state = "partial"]
    /\ Say(j, <<Failed("zip")>>)
    /\ Goto(j, IF Cmd(j) = "gen" THEN "done" ELSE "del")

ZipBin(j) ==
    /\ At(j, "zipBin")
    /\ \E made \in BOOLEAN : Mkdir(made /\ Cmd(j) = "gen")
    /\ \/ /\ tempDir' /\ bin[Save(j)] # Absent
          /\ temp' = [temp EXCEPT ![j] = Archive("partial", bin[Save(j)], Blank(Absent))]
          /\ Goto(j, "zipImg")
          /\ Silent
       \/ ZipFails(j, tempDir')
    /\ UNCHANGED <<svars, req, tries, modified, got>>

ZipImg(j) ==
    /\ At(j, "zipImg")
    /\ \/ /\ img[Save(j)].base # Absent
          /\ \E state \in Built :
                 temp' = [temp EXCEPT ![j] = Archive(state, @.bin, img[Save(j)])]
          /\ Say(j, <<Ready("zip")>>)
          /\ Goto(j, "send")
       \/ ZipFails(j, FALSE)
    /\ UNCHANGED <<svars, req, tries, modified, tempDir, got>>

\* transferFile opens the zip and seeks twice, reporting each, then streams it.
TransferTopics == <<"open", "seekEnd", "seekSet">>

AfterDump(j) == IF Mounted(j) THEN "rUmount" ELSE "rClean"

\* Mutant of AfterSend: an extraction whose transfer failed forgets its zip.
AfterSendLeaving(j, ok) ==
    CASE Cmd(j) = "gen"             -> IF ok THEN "del" ELSE "done"
      [] Cmd(j) = "extract" /\ ~ok  -> AfterDump(j)
      [] OTHER                      -> "unlink"

AfterSend(j, ok) ==
    CASE Cmd(j) = "gen" /\ ok  -> "del"
      [] Cmd(j) = "gen" /\ ~ok -> "done"
      [] OTHER                 -> "unlink"

Send(j) ==
    /\ At(j, "send")
    /\ \/ /\ Say(j, [i \in 1 .. 3 |-> Ready(TransferTopics[i])])
          /\ got' = [got EXCEPT ![j] = temp[j]]
          /\ Goto(j, AfterSend(j, TRUE))
       \/ /\ \E n \in 1 .. 3 :
                 Say(j, [i \in 1 .. n |-> <<TransferTopics[i], i < n>>])
          /\ Goto(j, AfterSend(j, FALSE))
          /\ UNCHANGED got
    /\ UNCHANGED <<svars, req, tries, modified, temp, tempDir>>

\* remove(outZipPath); after a dump, saveMountUnMount then cleans up a failed
\* mount or unmounts.
\* Mutant of AfterUnlink: a dump is the end of an extraction.
AfterUnlinkStopping(j) == IF Cmd(j) = "resign" THEN "del" ELSE "done"

AfterUnlink(j) == IF Cmd(j) = "resign" THEN "del" ELSE AfterDump(j)

Unlink(j) ==
    /\ At(j, "unlink")
    /\ temp' = [temp EXCEPT ![j] = NoArchive]
    /\ Goto(j, AfterUnlink(j))
    /\ Silent
    /\ UNCHANGED <<svars, req, tries, modified, tempDir, got>>

\* The final sceSaveDataDelete.
\* Mutant of Del: its result is not looked at.
DelUnchecked(j) ==
    /\ At(j, "del")
    /\ TryDelete(j)
    /\ Say(j, <<Ready("delete")>>)
    /\ Goto(j, "done")
    /\ UNCHANGED <<req, tries, modified, temp, tempDir, got>>

Del(j) ==
    /\ At(j, "del")
    /\ \/ DeleteSave(Save(j)) /\ Say(j, <<Ready("delete")>>)
       \/ UNCHANGED svars /\ Say(j, <<Failed("delete")>>)
    /\ Goto(j, "done")
    /\ UNCHANGED <<req, tries, modified, temp, tempDir, got>>

-----------------------------------------------------------------------------
\* What the thread does without waiting for the client: a write of statuses
\* fits the socket's buffer, a file may not.
Step(j) ==
    \/ GenMount(j) \/ \E patch \in Patches : GenPatch(j, patch)
    \/ GenUmount(j)
    \/ TempMount(j) \/ TempUmount(j) \/ UmountBusy(j) \/ Clean(j)
    \/ UnzipBin(j) \/ UnzipImg(j)
    \/ RealMount(j) \/ \E patch \in {"account", "title"} : ResignPatch(j, patch)
    \/ Dump(j) \/ RealUmount(j)
    \/ ZipBin(j) \/ ZipImg(j) \/ Unlink(j) \/ Del(j)

Next == \E j \in Jobs : Receive(j) \/ Accept(j) \/ Reject(j) \/ Step(j) \/ Send(j)

Fairness == \A j \in Jobs : WF_vars(Step(j))

Spec == Init /\ [][Next]_vars /\ Fairness

-----------------------------------------------------------------------------
(* What the jobs promise.                                                   *)

\* Every status of a command that went well, in the order the client reads it.
Script(cmd) ==
    CASE cmd = "gen" ->
           <<"command", "packet", "mount", "umount", "modify", "zip",
             "open", "seekEnd", "seekSet", "delete">>
      [] cmd = "extract" ->
           <<"command", "packet", "mount", "umount", "unzip", "zip",
             "open", "seekEnd", "seekSet", "umount", "delete">>
      [] cmd = "resign" ->
           <<"command", "packet", "mount", "umount", "unzip", "mount", "umount",
             "zip", "open", "seekEnd", "seekSet", "delete">>

Ended(j) == At(j, "done")

Succeeded(j) ==
    /\ Ended(j)
    /\ said[j] = [i \in DOMAIN Script(Cmd(j)) |-> Ready(Script(Cmd(j))[i])]

\* A job that has ended still holds a mount only when an unmount failed and the
\* client was told so: no error path of the three handlers skips the unmount.
MountReleased ==
    \A j \in Jobs : \A s \in Saves :
        Ended(j) /\ mount[s] = j => Heard(j, Failed("umount"))

\* When every status the client reads is READY, nothing of the job is left on
\* the console: no save it created, no mount, and no zip but the generator's,
\* which is never removed.
SuccessMeansClean ==
    \A j \in Jobs : Succeeded(j) =>
        /\ \A s \in Saves : creator[s] # j /\ mount[s] # j
        /\ temp[j].state # "none" => Cmd(j) = "gen"

\* A zip stays in /data/teamalua/temp only after the generator or after a
\* resign whose zipping failed.
TempResidue ==
    \A j \in Jobs : Ended(j) /\ temp[j].state # "none" =>
        \/ Cmd(j) = "gen"
        \/ Cmd(j) = "resign" /\ Heard(j, Failed("zip"))

\* A job ends without having sent an error only when it did all of its script,
\* but for the extraction whose second mount failed: its client is sent a dump
\* of the sandbox as READY and hears nothing more.
EndsTold ==
    \A j \in Jobs : Ended(j) /\ ~Succeeded(j) /\ ~Told(j) =>
        Cmd(j) = "extract" /\ got[j].img = Blank(Sandbox)

\* An accepted command runs to its end, or to a transfer to the client, however
\* the service answers: the retry loop of saveMountUnMount is bounded.
JobEnds ==
    \A j \in Jobs :
        pc[j] \notin {"idle", "packet", "send", "done"} ~> pc[j] \in {"send", "done"}

\* The generator's patches: all of them, and the files when its packet names a zip.
Asked(j, p) == p = "files" => req[j].zip

\* A save that was created for the generator and has its patches and no others.
Generated(j) ==
    /\ got[j].bin = <<"new", j>>
    /\ got[j].img = [base |-> <<"new", j>>,
                     by |-> [p \in Patches |-> IF Asked(j, p) THEN j ELSE NoJob]]

\* Who may have left a save behind: the console's user, a job that ended without
\* having deleted it.
LeftBy(s) ==
    {NoJob} \cup {k \in Jobs : Save(k) = s /\ Ended(k) /\ ~Heard(k, Ready("delete"))}

\* CREATE2 opened a save that was left there, and the generator has patched it.
TakenOver(j) ==
    /\ got[j].bin[2] \in LeftBy(Save(j)) /\ got[j].img.base[2] \in LeftBy(Save(j))
    /\ \A p \in Patches :
           IF Asked(j, p) THEN got[j].img.by[p] = j
                          ELSE got[j].img.by[p] \in LeftBy(Save(j))

\* After a script without an error, all that an extraction or a resign was sent
\* comes from its own client's zip and the job's own patches; the generator was sent
\* a save of its own or, patched, one that the user or a failed job had left on the
\* console.  Files may be missing from what is sent (Built).
OwnContent ==
    \A j \in Jobs : Succeeded(j) =>
        CASE Cmd(j) = "gen" -> Generated(j) \/ TakenOver(j)
          [] Cmd(j) = "extract" -> got[j].img = Blank(<<"zip", j>>)
          [] Cmd(j) = "resign" ->
               /\ got[j].bin = <<"zip", j>> /\ got[j].img.base = <<"zip", j>>
               /\ \A p \in Patches : got[j].img.by[p] \in {j, NoJob}

\* The two backing files are zipped while the save is mounted by nobody, so
\* that the image is not copied half-written.
ZipsUnmounted ==
    \A j \in Jobs : pc[j] \in {"zipBin", "zipImg"} => mount[Save(j)] = NoJob

\* doSaveResign delivers a save only when its param.sfo was patched: the error
\* onRealMount stores is tested before the save is zipped.
ResignPatched ==
    \A j \in Jobs : Cmd(j) = "resign" /\ got[j].state # "none" =>
        \A p \in {"account", "title"} : got[j].img.by[p] = j

\* The save a handler deletes, be it to undo a failure or at the end of its
\* script, is one that its own mount created.
OnlyOwnSavesDeleted ==
    [][\A s \in Saves : s \in known /\ s \notin known' =>
           /\ creator[s] # NoJob
           /\ pc'[creator[s]] # pc[creator[s]]]_vars

=============================================================================
