------------------------------ MODULE FileTree ------------------------------
(***************************************************************************)
(* The directory helpers of cmd_utils.cpp and zip_directory of             *)
(* zip_util.cpp: one call on any tree, entry by entry.  recursiveList is   *)
(* called by zip_directory and _mkdir by an upload; recursiveDelete and    *)
(* recursiveCopy are there and not called.  A path is the sequence of its  *)
(* names.  The calls that a recursion has open are those of the folders    *)
(* between call.dir and at; todo holds what their readdir loops have found *)
(* and not yet worked on.  The buffers that hold a path are left out.      *)
(***************************************************************************)
EXTENDS Naturals, Sequences

CONSTANTS
    Names,          \* names of files and folders
    Hidden,         \* those that begin with a dot
    AllFolders,     \* paths that may be folders at the start, the root apart
    AllFiles,       \* paths that may be files
    Targets,        \* paths that are made or copied to
    Cut             \* the content of a file that was opened and not written whole

Root == << >>

ASSUME PathsAssumption ==
    AllFolders \cup AllFiles \cup Targets \subseteq Seq(Names) \ {Root}

VARIABLES
    folders, files,   \* the disk
    call, before,     \* the call, and the disk when it was made
    state,            \* none, walk, make, write, zip, ok, failed, crashed
    at, todo,         \* the recursion: its folder, the entries it has yet to take
    made,             \* how many folders of its path the loop of _mkdir has passed
    open,             \* the file that is being copied
    list,             \* the names that recursiveList has told
    dump,             \* the entries of the zip
    fault             \* what the system let the call down on; Root is the zip

disk == <<folders, files>>
copying == <<made, open>>
vars == <<disk, call, before, state, at, todo, copying, list, dump, fault>>

-----------------------------------------------------------------------------
(* Paths.                                                                   *)

Parent(p)   == SubSeq(p, 1, Len(p) - 1)
Name(p)     == p[Len(p)]
Above(p)    == {SubSeq(p, 1, n) : n \in 0 .. Len(p) - 1}
Under(d, p) == Len(d) < Len(p) /\ SubSeq(p, 1, Len(d)) = d
Rest(d, p)  == SubSeq(p, Len(d) + 1, Len(p))   \* the path below d

Tree(d, f) ==
    /\ Root \in d
    /\ d \cap DOMAIN f = {}
    /\ \A p \in d \cup DOMAIN f : Above(p) \subseteq d

Init ==
    /\ \E d \in SUBSET AllFolders, f \in SUBSET AllFiles :
           /\ folders = d \cup {Root}
           /\ files = [p \in f |-> p]
    /\ Tree(folders, files)
    /\ call = [op |-> "none", dir |-> Root, to |-> Root]
    /\ before = [folders |-> folders, files |-> files]
    /\ state = "none"
    /\ at = Root /\ todo = {}
    /\ made = 0 /\ open = Root
    /\ list = << >> /\ dump = << >> /\ fault = {}

\* Mutant of Seen: names that begin with a dot are not passed over.
SeenAll(p) == TRUE

Seen(p) == Name(p) \notin Hidden

\* What one readdir loop finds in dir.
Entries(dir) == {p \in folders \cup DOMAIN files : p # Root /\ Parent(p) = dir /\ Seen(p)}

-----------------------------------------------------------------------------
(* The calls.                                                               *)

Begin(op, dir, to, how, found) ==
    /\ state = "none"
    /\ call' = [op |-> op, dir |-> dir, to |-> to]
    /\ before' = [folders |-> folders, files |-> files]
    /\ state' = how
    /\ at' = dir /\ todo' = found
    /\ made' = 0
    /\ UNCHANGED <<disk, open, list, dump, fault>>

RecursiveList(dir)   == Begin("list", dir, dir, "walk", Entries(dir))

ZipFolder(dir)       == Begin("zip", dir, dir, "walk", Entries(dir))

RecursiveDelete(dir) == dir # Root /\ Begin("delete", dir, dir, "walk", Entries(dir))

\* A copy of a folder into itself would not end.  The target is made before the
\* folder is read, but none of what is made is ever an entry of that folder.
RecursiveCopy(src, dst) ==
    /\ src # dst /\ ~ Under(src, dst)
    /\ Begin("copy", src, dst, "make", Entries(src))

Mkdir(p) == Begin("mkdir", p, p, "make", {})

-----------------------------------------------------------------------------
(* _mkdir: each folder of the path in turn, whatever the last mkdir said.   *)

\* Where an entry of the source goes.  A call that copies nothing makes call.to.
Place(p) == call.to \o Rest(call.dir, p)

CanMake(p) == p \notin folders \cup DOMAIN files /\ Parent(p) \in folders

\* Mutant of MakeNext: a mkdir that fails, for the folder is there, ends the loop.
MakeNextStops ==
    /\ state = "make" /\ made < Len(Place(at))
    /\ LET p == SubSeq(Place(at), 1, made + 1)
       IN  /\ made' = IF CanMake(p) THEN made + 1 ELSE Len(Place(at))
           /\ \/ CanMake(p) /\ folders' = folders \cup {p} /\ UNCHANGED fault
              \/ UNCHANGED folders /\ fault' = IF CanMake(p) THEN fault \cup {p} ELSE fault
    /\ UNCHANGED <<files, call, before, state, at, todo, open, list, dump>>

\* A mkdir that could be done may fail as well, for a reason of the system's own.
MakeNext ==
    /\ state = "make" /\ made < Len(Place(at))
    /\ made' = made + 1
    /\ LET p == SubSeq(Place(at), 1, made + 1)
       IN  \/ CanMake(p) /\ folders' = folders \cup {p} /\ UNCHANGED fault
           \/ UNCHANGED folders /\ fault' = IF CanMake(p) THEN fault \cup {p} ELSE fault
    /\ UNCHANGED <<files, call, before, state, at, todo, open, list, dump>>

\* Mutant of MakeEnds: the target is taken to be there.
MakeEndsUnseen ==
    /\ state = "make" /\ made = Len(Place(at))
    /\ state' = IF call.op = "mkdir" THEN "ok" ELSE "walk"
    /\ UNCHANGED <<disk, call, before, at, todo, copying, list, dump, fault>>

\* The target of a copy that could not be made is a null pointer to closedir.
MakeEnds ==
    /\ state = "make" /\ made = Len(Place(at))
    /\ \/ call.op = "mkdir" /\ state' = "ok"
       \/ call.op = "copy" /\ Place(at) \in folders /\ state' = "walk"
       \/ call.op = "copy" /\ Place(at) \notin folders /\ state' = "crashed"
    /\ UNCHANGED <<disk, call, before, at, todo, copying, list, dump, fault>>

-----------------------------------------------------------------------------
(* A file of the folder: it is listed, removed or copied.                   *)

Take(p) ==
    /\ state = "walk" /\ p \in DOMAIN files
    /\ todo' = todo \ {p}
    /\ UNCHANGED <<call, before, at>>

Goes  == UNCHANGED <<state, fault>>

Fails(p) == state' = "failed" /\ fault' = {p}

\* The base of a folder is its own name, without the base it lies under.
\* Mutant of Base: the base of the folder it lies in.
BaseSame == << >>

Base == IF at = call.dir THEN << >> ELSE <<Name(at)>>

ListFile(p) ==
    /\ call.op \in {"list", "zip"}
    /\ Take(p) /\ Goes
    /\ list' = Append(list, Append(Base, Name(p)))
    /\ UNCHANGED <<disk, copying, dump>>

DeleteFile(p) ==
    /\ call.op = "delete"
    /\ Take(p)
    /\ \/ Goes /\ files' = [q \in DOMAIN files \ {p} |-> files[q]]
       \/ Fails(p) /\ UNCHANGED files
    /\ UNCHANGED <<folders, copying, list, dump>>

Put(q, what) == [p \in DOMAIN files \cup {q} |-> IF p = q THEN what ELSE files[p]]

\* The target is cut when it is opened, after the source; a file that cannot be
\* opened leaves it alone.
OpenCopy(p) ==
    /\ call.op = "copy"
    /\ Take(p)
    /\ \/ Fails(p) /\ UNCHANGED <<files, open>>
       \/ /\ Place(p) \notin folders
          /\ files' = Put(Place(p), Cut)
          /\ state' = "write" /\ open' = p /\ UNCHANGED fault
    /\ UNCHANGED <<folders, made, list, dump>>

\* Mutant of WriteCopy: a file that is written in part passes.
WriteCopyInPart ==
    /\ state = "write"
    /\ state' = "walk" /\ open' = Root
    /\ \E what \in {files[open], Cut} : files' = Put(Place(open), what)
    /\ UNCHANGED <<folders, call, before, at, todo, made, list, dump, fault>>

\* The loop of read and write.
WriteCopy ==
    /\ state = "write"
    /\ \/ state' = "walk" /\ files' = Put(Place(open), files[open]) /\ UNCHANGED fault
       \/ Fails(Place(open)) /\ UNCHANGED files
    /\ open' = Root
    /\ UNCHANGED <<folders, call, before, at, todo, made, list, dump>>

-----------------------------------------------------------------------------
(* The recursive call, after the last file, and the return from it.         *)

\* Mutant of Enter: the folder stays among those to enter.
EnterAgain(p) ==
    /\ state = "walk" /\ p \in folders /\ Parent(p) = at
    /\ todo \cap DOMAIN files = {}
    /\ at' = p /\ todo' = todo \cup Entries(p)
    /\ state' = IF call.op = "copy" THEN "make" ELSE "walk"
    /\ made' = 0
    /\ UNCHANGED <<disk, call, before, open, list, dump, fault>>

Enter(p) ==
    /\ state = "walk" /\ p \in folders /\ Parent(p) = at
    /\ todo \cap DOMAIN files = {}
    /\ at' = p /\ todo' = (todo \ {p}) \cup Entries(p)
    /\ state' = IF call.op = "copy" THEN "make" ELSE "walk"
    /\ made' = 0
    /\ UNCHANGED <<disk, call, before, open, list, dump, fault>>

Occupied(dir) == \E p \in folders \cup DOMAIN files : p # Root /\ Parent(p) = dir

Return ==
    /\ state = "walk" /\ \A p \in todo : Parent(p) # at
    /\ call.op = "delete" => ~ Occupied(at)
    /\ folders' = IF call.op = "delete" THEN folders \ {at} ELSE folders
    /\ IF at = call.dir
       THEN state' = (IF call.op = "zip" THEN "zip" ELSE "ok") /\ UNCHANGED at
       ELSE at' = Parent(at) /\ UNCHANGED state
    /\ UNCHANGED <<files, call, before, todo, copying, list, dump, fault>>

\* rmdir refuses an occupied folder, and may fail on an empty one.
RmDirFails ==
    /\ state = "walk" /\ \A p \in todo : Parent(p) # at
    /\ call.op = "delete"
    /\ state' = "failed"
    /\ fault' = IF Occupied(at) THEN {} ELSE {at}
    /\ UNCHANGED <<disk, call, before, at, todo, copying, list, dump>>

-----------------------------------------------------------------------------
(* zip_partial_directory opens an entry before it looks for the file.       *)

Entry(name, what) == [name |-> name, content |-> what]

\* Mutant of AddEntry: its status is not looked at.
AddEntryAlways ==
    /\ state = "zip" /\ Len(dump) < Len(list)
    /\ LET name == list[Len(dump) + 1]
           file == call.dir \o name
       IN  \/ file \in DOMAIN files /\ dump' = Append(dump, Entry(name, files[file]))
           \/ dump' = Append(dump, Entry(name, Cut))
    /\ UNCHANGED <<disk, call, before, state, at, todo, copying, list, fault>>

AddEntry ==
    /\ state = "zip" /\ Len(dump) < Len(list)
    /\ LET name == list[Len(dump) + 1]
           file == call.dir \o name
       IN  \/ /\ file \in DOMAIN files /\ Goes
              /\ dump' = Append(dump, Entry(name, files[file]))
           \/ /\ state' = "failed" /\ fault' = {file} \cap DOMAIN files
              /\ dump' = Append(dump, Entry(name, Cut))
    /\ UNCHANGED <<disk, call, before, at, todo, copying, list>>

\* The zip itself cannot be opened or added to.
ZipFails ==
    /\ state = "zip"
    /\ Fails(Root)
    /\ UNCHANGED <<disk, call, before, at, todo, copying, list, dump>>

\* zip_close does not tell whether it could finish the archive.
CloseZip ==
    /\ state = "zip" /\ Len(dump) = Len(list)
    /\ state' = "ok"
    /\ fault' \in {{}, {Root}}
    /\ UNCHANGED <<disk, call, before, at, todo, copying, list, dump>>

-----------------------------------------------------------------------------
Calls ==
    \/ \E dir \in folders :
           \/ RecursiveList(dir) \/ ZipFolder(dir) \/ RecursiveDelete(dir)
           \/ \E dst \in Targets : RecursiveCopy(dir, dst)
    \/ \E p \in Targets : Mkdir(p)

Steps ==
    \/ \E p \in todo : ListFile(p) \/ DeleteFile(p) \/ OpenCopy(p) \/ Enter(p)
    \/ MakeNext \/ MakeEnds \/ WriteCopy
    \/ Return \/ RmDirFails
    \/ AddEntry \/ ZipFails \/ CloseZip

Next == Calls \/ Steps

\* The thread that is inside a helper runs on.
Spec == Init /\ [][Next]_vars /\ WF_vars(Steps)

-----------------------------------------------------------------------------
(* What the helpers promise.                                                *)

\* The disk is a tree, whatever the helpers did to it.
TypeOK ==
    /\ folders \subseteq Seq(Names)
    /\ DOMAIN files \subseteq Seq(Names) \ {Root}
    /\ Tree(folders, files)
    /\ call.op \in {"none", "list", "zip", "delete", "copy", "mkdir"}
    /\ state \in {"none", "walk", "make", "write", "zip", "ok", "failed", "crashed"}

HiddenIn(d, p) == \E i \in Len(d) + 1 .. Len(p) : p[i] \in Hidden

Visible(d, S) == {p \in S : Under(d, p) /\ ~ HiddenIn(d, p)}

\* The files below the call's folder that no dot hides, when the call was made.
VisibleFiles == Visible(call.dir, DOMAIN before.files)

\* No folder below that folder holds a folder with files.
Shallow == \A p \in VisibleFiles : Len(p) <= Len(call.dir) + 2

LastTwo(d, p) ==
    IF Len(p) <= Len(d) + 2 THEN Rest(d, p) ELSE SubSeq(p, Len(p) - 1, Len(p))

\* recursiveList tells each file that no dot hides once, under its own path, in a
\* folder whose folders hold only files.
ListedOnce ==
    call.op = "list" /\ state = "ok" /\ Shallow =>
        /\ \A p \in VisibleFiles : \E i \in 1 .. Len(list) : list[i] = Rest(call.dir, p)
        /\ \A i \in 1 .. Len(list) :
               /\ \E p \in VisibleFiles : list[i] = Rest(call.dir, p)
               /\ \A k \in 1 .. Len(list) : list[i] = list[k] => i = k

\* zip_directory reports a dump it could make only when the dump holds every file
\* under its own path with its own content, or two files have the same last two
\* names, or zip_close could not finish the archive, which it does not tell; and in
\* a shallow folder only a file it cannot read or the zip stops it.
DumpHonest ==
    call.op = "zip" =>
        /\ state = "ok" /\ Root \notin fault =>
               \A p \in VisibleFiles :
                   \/ \E i \in 1 .. Len(dump) :
                          dump[i] = Entry(Rest(call.dir, p), before.files[p])
                   \/ \E q \in VisibleFiles \ {p} :
                          LastTwo(call.dir, q) = LastTwo(call.dir, p)
        /\ Shallow /\ state = "failed" => fault \cap (VisibleFiles \cup {Root}) # {}

\* recursiveDelete says that it has succeeded exactly when nothing of the folder is
\* left, fails only for a hidden entry or for the file or folder that the system
\* would not remove, which is then there still, and at no moment has touched a
\* hidden entry or anything outside of the folder.
DeletesAll ==
    call.op = "delete" =>
        LET d    == call.dir
            was  == before.folders \cup DOMAIN before.files
            left == folders \cup DOMAIN files
        IN  /\ left \subseteq was
            /\ \A p \in DOMAIN files : files[p] = before.files[p]
            /\ \A p \in was \ left : (p = d \/ Under(d, p)) /\ ~ HiddenIn(d, p)
            /\ state = "ok" => \A p \in left : p # d /\ ~ Under(d, p)
            /\ state = "failed" =>
                   \E p \in left : (p = d \/ Under(d, p)) /\ (HiddenIn(d, p) \/ p \in fault)

\* recursiveCopy between folders neither of which holds the other: when it has
\* succeeded every visible file of the source is at its place in the target; at
\* any moment such a place holds the old file or the copy, but for the one file that
\* is being written or was cut short by the failure, and nothing else on the disk
\* has changed.
CopiesAll ==
    call.op = "copy" /\ ~ Under(call.to, call.dir) =>
        /\ \A p \in VisibleFiles :
               \/ Place(p) \in DOMAIN files /\ files[Place(p)] = before.files[p]
               \/ /\ state # "ok"
                  /\ \/ Place(p) \in fault \/ (state = "write" /\ p = open)
                     \/ /\ Place(p) \in DOMAIN files <=> Place(p) \in DOMAIN before.files
                        /\ Place(p) \in DOMAIN files =>
                               files[Place(p)] = before.files[Place(p)]
        /\ \A p \in DOMAIN files \cup DOMAIN before.files :
               \/ \E q \in VisibleFiles : p = Place(q)
               \/ /\ p \in DOMAIN files /\ p \in DOMAIN before.files
                  /\ files[p] = before.files[p]
        /\ before.folders \subseteq folders

\* _mkdir, which looks at the result of no mkdir, ends with each folder of the path
\* there, but for those at or below a file that is in the way or a folder that the
\* system would not make; it makes nothing else, also on the way.
MakesPath ==
    call.op = "mkdir" =>
        LET path == Above(call.dir) \cup {call.dir}
        IN  /\ files = before.files
            /\ before.folders \subseteq folders
            /\ folders \subseteq before.folders \cup path
            /\ state = "ok" =>
                   \A p \in path :
                       \/ p \in folders
                       \/ (Above(p) \cup {p}) \cap (DOMAIN files \cup fault) # {}

\* A call ends.
CallEnds ==
    state \in {"walk", "make", "write", "zip"} ~> state \in {"ok", "failed", "crashed"}

=============================================================================
