------------------------------ MODULE SaveData ------------------------------
(***************************************************************************)
(* The console's save-data service and the backing files of the saves, as  *)
(* the handlers of ps4-save-signer use them.  The service is not part of   *)
(* the repository: sceSaveDataMount, sceSaveDataUmount, sceSaveDataDelete  *)
(* and the file system are modelled from the calls made in                 *)
(* cmd_utils.cpp, cmd_savegen.cpp, cmd_saveextract.cpp and cmd_resign.cpp  *)
(* and from the SCE_SAVE_DATA_ERROR_* names of errcodes.cpp (BUSY, EXISTS, *)
(* NOT_FOUND).  Every call may also fail for a reason of its own.          *)
(*                                                                         *)
(* A job is one invocation of doSaveGenerator, doSaveExtract or            *)
(* doSaveResign by a client's thread.                                      *)
(***************************************************************************)
CONSTANTS
    Jobs,         \* invocations of the three save handlers
    Saves,        \* (titleId, dirName) pairs of the initial user
    NoJob,        \* nobody
    Preexisting   \* saves that may be on the console before any job runs

ASSUME JobsAssumption == NoJob \notin Jobs
ASSUME SavesAssumption == Preexisting \subseteq Saves

VARIABLES
    known,     \* saves the service has registered
    bin,       \* <dirName>.bin, the sealed key: where its bytes come from
    img,       \* sdimg_<dirName>, the image: its origin and who patched it
    mount,     \* the job that has a save mounted, or NoJob
    creator    \* the job whose mount call created a registered save

svars == <<known, bin, img, mount, creator>>

\* What a job can write into a mounted image: the account id and the title id
\* in sce_sys/param.sfo, the parameters of sceSaveDataSetParam, and the files
\* of the client's zip.
Patches == {"account", "title", "params", "files"}

Owner == Jobs \cup {NoJob}

\* Where a file's bytes come from: no file at all, a half-written file, a save
\* the service created for a job, the zip of a job's client, the console's
\* user, or the application's own sandbox directory.
Sources == {"absent", "torn", "new", "zip", "user", "sandbox"} \X Owner

Absent  == <<"absent", NoJob>>
Sandbox == <<"sandbox", NoJob>>

Images == [base : Sources, by : [Patches -> Owner]]

Blank(source) == [base |-> source, by |-> [p \in Patches |-> NoJob]]

SaveTypeOK ==
    /\ known \in SUBSET Saves
    /\ bin \in [Saves -> Sources]
    /\ img \in [Saves -> Images]
    /\ mount \in [Saves -> Owner]
    /\ creator \in [Saves -> Owner]

SaveInit ==
    /\ known \in SUBSET Preexisting
    /\ bin = [s \in Saves |-> IF s \in known THEN <<"user", NoJob>> ELSE Absent]
    /\ img = [s \in Saves |-> Blank(bin[s])]
    /\ mount = [s \in Saves |-> NoJob]
    /\ creator = [s \in Saves |-> NoJob]

-----------------------------------------------------------------------------
(* sceSaveDataMount that succeeds.  MODE_CREATE refuses a registered save,  *)
(* MODE_CREATE2 creates the save or opens it, and without either flag only  *)
(* a registered save is opened.  A mounted save cannot be mounted again.    *)

OpenSave(j, s) ==
    /\ s \in known
    /\ mount[s] = NoJob
    /\ mount' = [mount EXCEPT ![s] = j]
    /\ UNCHANGED <<known, bin, img, creator>>

CreateSave(j, s) ==
    /\ s \notin known
    /\ mount[s] = NoJob
    /\ mount' = [mount EXCEPT ![s] = j]
    /\ known' = known \cup {s}
    /\ creator' = [creator EXCEPT ![s] = j]
    /\ bin' = [bin EXCEPT ![s] = <<"new", j>>]
    /\ img' = [img EXCEPT ![s] = Blank(<<"new", j>>)]

MountSave(j, s, mode) ==
    \/ mode \in {"create", "create2"} /\ CreateSave(j, s)
    \/ mode \in {"create2", "open"} /\ OpenSave(j, s)

(* sceSaveDataUmount that succeeds: it names the mount point the job got.   *)
UmountSave(j, s) ==
    /\ mount[s] = j
    /\ mount' = [mount EXCEPT ![s] = NoJob]
    /\ UNCHANGED <<known, bin, img, creator>>

(* sceSaveDataDelete that succeeds: whoever created the save, as long as it *)
(* is registered and not mounted.                                           *)
DeleteSave(s) ==
    /\ s \in known
    /\ mount[s] = NoJob
    /\ known' = known \ {s}
    /\ bin' = [bin EXCEPT ![s] = Absent]
    /\ img' = [img EXCEPT ![s] = Blank(Absent)]
    /\ creator' = [creator EXCEPT ![s] = NoJob]
    /\ UNCHANGED mount

(* A write through the mount point, or straight into the backing files.     *)
PatchImage(j, s, patch) ==
    /\ img' = [img EXCEPT ![s].by[patch] = j]
    /\ UNCHANGED <<known, bin, mount, creator>>

WriteBin(s, source) ==
    /\ bin' = [bin EXCEPT ![s] = source]
    /\ UNCHANGED <<known, img, mount, creator>>

WriteImage(s, source) ==
    /\ img' = [img EXCEPT ![s] = Blank(source)]
    /\ UNCHANGED <<known, bin, mount, creator>>

=============================================================================
