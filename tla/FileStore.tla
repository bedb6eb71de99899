----------------------------- MODULE FileStore ------------------------------
(***************************************************************************)
(* What /data/teamalua/uploads promises to clients that take turns: a name *)
(* holds nothing or one whole file, except while an upload is replacing    *)
(* it; an upload answered with READY has put its file there, one answered  *)
(* with an error after it began has left the name empty, or part of a file *)
(* under a name that could not be removed, and a refused command has       *)
(* changed nothing.                                                        *)
(***************************************************************************)
EXTENDS Naturals

CONSTANTS
    Jobs,      \* uploads and deletions
    Names,     \* names of files
    NoJob,     \* nobody
    Undeletable \* names that an upload that failed may be unable to remove

VARIABLES
    order,     \* what each job was asked to do: command, name, size
    holds,     \* the file of each name, or Nothing
    writer,    \* the upload that is replacing the file, or NoJob
    outcome    \* what each client has been told

vars == <<order, holds, writer, outcome>>

Nothing == [there |-> FALSE, bytes |-> << >>]

\* The file of an upload: each byte is the byte its client sent for that place.
Whole(j) ==
    [there |-> TRUE, bytes |-> [o \in 0 .. order[j].size - 1 |-> j]]

\* What an upload that failed had written, when it could not be removed.
Left(bytes) == [there |-> TRUE, bytes |-> bytes]

Init ==
    /\ order \in [Jobs -> [cmd : {"upload", "delete"}, name : Names, size : Nat]]
    /\ holds = [n \in Names |-> Nothing]
    /\ writer = [n \in Names |-> NoJob]
    /\ outcome = [j \in Jobs |-> "none"]

Answer(j, what) ==
    /\ outcome[j] = "none"
    /\ outcome' = [outcome EXCEPT ![j] = what]

Refuse(j) ==
    /\ Answer(j, "failed")
    /\ \A n \in Names : writer[n] # j
    /\ UNCHANGED <<order, holds, writer>>

\* The old file is gone as soon as an upload begins.
Begin(j, n) ==
    /\ order[j].cmd = "upload" /\ order[j].name = n
    /\ outcome[j] = "none"
    /\ writer[n] = NoJob
    /\ writer' = [writer EXCEPT ![n] = j]
    /\ holds' = [holds EXCEPT ![n] = Nothing]
    /\ UNCHANGED <<order, outcome>>

End(j, n, what) ==
    /\ writer[n] = j
    /\ writer' = [writer EXCEPT ![n] = NoJob]
    /\ \/ what = "ready"  /\ holds' = [holds EXCEPT ![n] = Whole(j)]
       \/ what = "failed" /\ UNCHANGED holds
       \/ /\ what = "failed" /\ n \in Undeletable
          /\ holds' = [holds EXCEPT ![n] = Left(holds'[n].bytes)]
    /\ Answer(j, what)
    /\ UNCHANGED order

Remove(j, n) ==
    /\ order[j].cmd = "delete" /\ order[j].name = n
    /\ writer[n] = NoJob
    /\ holds[n] # Nothing
    /\ holds' = [holds EXCEPT ![n] = Nothing]
    /\ Answer(j, "ready")
    /\ UNCHANGED <<order, writer>>

Next ==
    \E j \in Jobs :
        \/ Refuse(j)
        \/ \E n \in Names :
               \/ Begin(j, n)
               \/ \E what \in {"ready", "failed"} : End(j, n, what)
               \/ Remove(j, n)

Spec == Init /\ [][Next]_vars

=============================================================================
