--------------------------- MODULE SaveJobsProofs ---------------------------
(***************************************************************************)
(* Proofs about SaveJobs, for any number of jobs, connections and saves    *)
(* and any retry limit.                                                    *)
(***************************************************************************)
EXTENDS SaveJobs, TLAPS

-----------------------------------------------------------------------------
(* The service.                                                             *)

Modes == {"create", "create2", "open"}

\* What job j unpacks over a backing file.
FromZip(j) == {<<"zip", j>>, <<"torn", j>>}

\* What the thread of job j may do to the service: one call about its save.
ServiceCall(j, s) ==
    \/ \E m \in Modes : MountSave(j, s, m)
    \/ UmountSave(j, s)
    \/ DeleteSave(s)
    \/ \E p \in Patches : PatchImage(j, s, p)
    \/ \E b \in FromZip(j) : WriteBin(s, b) \/ WriteImage(s, b)
    \/ UNCHANGED svars

\* Every call keeps the types of the service's state.
LEMMA ServiceType ==
    ASSUME SaveTypeOK, NEW j \in Jobs, NEW s \in Saves, ServiceCall(j, s)
    PROVE  SaveTypeOK'
<1> USE DEF SaveTypeOK, Owner
<1>a. Absent \in Sources /\ <<"new", j>> \in Sources
  BY DEF Absent, Sources
<1>b. \A b \in Sources : Blank(b) \in Images
  BY DEF Blank, Images
<1>1. CASE \E m \in Modes : MountSave(j, s, m)
  <2>1. CASE CreateSave(j, s)
    BY <2>1, <1>a, <1>b DEF CreateSave
  <2>2. CASE OpenSave(j, s)
    BY <2>2 DEF OpenSave
  <2>q. QED BY <1>1, <2>1, <2>2 DEF MountSave
<1>2. CASE UmountSave(j, s)
  BY <1>2 DEF UmountSave
<1>3. CASE DeleteSave(s)
  BY <1>3, <1>a, <1>b DEF DeleteSave
<1>4. CASE \E p \in Patches : PatchImage(j, s, p)
  <2>1. PICK p \in Patches : PatchImage(j, s, p)
    BY <1>4
  <2>2. img[s].base \in Sources /\ [img[s].by EXCEPT ![p] = j] \in [Patches -> Owner]
    BY DEF Images
  <2>3. [img[s] EXCEPT !.by[p] = j] \in Images
    BY <2>2 DEF Images
  <2>q. QED BY <2>1, <2>3 DEF PatchImage
<1>5. CASE \E b \in FromZip(j) : WriteBin(s, b) \/ WriteImage(s, b)
  <2>1. FromZip(j) \subseteq Sources
    BY DEF FromZip, Sources
  <2>q. QED BY <1>5, <2>1, <1>b DEF WriteBin, WriteImage
<1>6. CASE UNCHANGED svars
  BY <1>6 DEF svars
<1>q. QED BY <1>1, <1>2, <1>3, <1>4, <1>5, <1>6 DEF ServiceCall

\* Bytes or a patch of job k are in a save.
Wrote(k, s) ==
    \/ bin[s][2] = k \/ img[s].base[2] = k
    \/ \E p \in Patches : img[s].by[p] = k

\* A call of job j neither mounts, creates nor writes a save for another job, nor
\* any save but its own.
LEMMA ServiceFrame ==
    ASSUME SaveTypeOK, NEW j \in Jobs, NEW s \in Saves, ServiceCall(j, s),
           NEW k \in Jobs, NEW r \in Saves, k # j \/ r # s
    PROVE  /\ mount'[r] = k => mount[r] = k
           /\ creator'[r] = k => creator[r] = k
           /\ Wrote(k, r)' => Wrote(k, r)
<1> USE JobsAssumption DEF SaveTypeOK, Owner
<1>1. CASE \E m \in Modes : MountSave(j, s, m)
  BY <1>1 DEF MountSave, CreateSave, OpenSave, Wrote, Blank
<1>2. CASE UmountSave(j, s)
  BY <1>2 DEF UmountSave, Wrote
<1>3. CASE DeleteSave(s)
  BY <1>3 DEF DeleteSave, Wrote, Blank, Absent
<1>4. CASE \E p \in Patches : PatchImage(j, s, p)
  BY <1>4 DEF PatchImage, Wrote, Images
<1>5. CASE \E b \in FromZip(j) : WriteBin(s, b) \/ WriteImage(s, b)
  BY <1>5 DEF WriteBin, WriteImage, FromZip, Wrote, Blank
<1>6. CASE UNCHANGED svars
  BY <1>6 DEF svars, Wrote
<1>q. QED BY <1>1, <1>2, <1>3, <1>4, <1>5, <1>6 DEF ServiceCall

-----------------------------------------------------------------------------
(* Statuses.                                                                *)

Statuses == Seq(Topics \X BOOLEAN)

\* Saying something appends to what one client hears and to nothing else.
LEMMA SayAppends ==
    ASSUME said \in [Jobs -> Statuses], NEW j \in Jobs,
           NEW st \in Statuses, Say(j, st)
    PROVE  /\ said' \in [Jobs -> Statuses]
           /\ \A k \in Jobs \ {j} : said'[k] = said[k]
           /\ \A e : Heard(j, e)' <=> Heard(j, e) \/ \E i \in 1 .. Len(st) : st[i] = e
<1>1. said'[j] = said[j] \o st /\ said[j] \in Statuses
  BY DEF Say
<1>2. said' \in [Jobs -> Statuses] /\ \A k \in Jobs \ {j} : said'[k] = said[k]
  BY <1>1 DEF Say, Statuses
<1>3. ASSUME NEW e
      PROVE  Heard(j, e)' <=> Heard(j, e) \/ \E i \in 1 .. Len(st) : st[i] = e
  <2> DEFINE n == Len(said[j])
  <2>1. n \in Nat /\ Len(st) \in Nat /\ Len(said'[j]) = n + Len(st)
    BY <1>1 DEF Statuses
  <2>2. \A i \in 1 .. n : said'[j][i] = said[j][i]
    BY <1>1, <2>1 DEF Statuses
  <2>3. \A i \in 1 .. Len(st) : said'[j][n + i] = st[i]
    BY <1>1, <2>1 DEF Statuses
  <2>4. ASSUME Heard(j, e)' PROVE Heard(j, e) \/ \E i \in 1 .. Len(st) : st[i] = e
    <3>1. PICK i \in 1 .. n + Len(st) : said'[j][i] = e
      BY <2>1, <2>4 DEF Heard
    <3>2. CASE i <= n
      BY <3>1, <3>2, <2>1, <2>2 DEF Heard
    <3>3. CASE i > n
      <4>1. i - n \in 1 .. Len(st) /\ n + (i - n) = i
        BY <3>1, <3>3, <2>1
      <4>q. QED BY <4>1, <3>1, <2>3
    <3>q. QED BY <3>1, <3>2, <3>3, <2>1
  <2>5. ASSUME Heard(j, e) PROVE Heard(j, e)'
    BY <2>1, <2>2, <2>5 DEF Heard
  <2>6. ASSUME NEW i \in 1 .. Len(st), st[i] = e PROVE Heard(j, e)'
    <3>1. n + i \in 1 .. Len(said'[j])
      BY <2>1, <2>6
    <3>q. QED BY <3>1, <2>3, <2>6 DEF Heard
  <2>q. QED BY <2>4, <2>5, <2>6
<1>q. QED BY <1>2, <1>3

LEMMA SilenceIsEmpty ==
    ASSUME said \in [Jobs -> Statuses], NEW j \in Jobs, Silent
    PROVE  Say(j, << >>) /\ << >> \in Statuses
<1>1. said[j] \in Statuses /\ said[j] \o << >> = said[j]
  BY DEF Statuses
<1>q. QED BY <1>1 DEF Say, Silent, Statuses

LEMMA StatusPairs ==
    ASSUME NEW x \in Topics \X BOOLEAN, NEW y \in Topics \X BOOLEAN
    PROVE  <<x, y>> \in Statuses
<1> DEFINE S == Topics \X BOOLEAN
<1>1. x \in S /\ y \in S
  OBVIOUS
<1> HIDE DEF S
<1>2. <<x, y>> \in Seq(S)
  BY <1>1
<1>q. QED BY <1>2 DEF S, Statuses

LEMMA StatusRuns ==
    ASSUME NEW n \in Nat, NEW f \in [1 .. n -> Topics \X BOOLEAN]
    PROVE  f \in Statuses /\ Len(f) = n
<1> DEFINE S == Topics \X BOOLEAN
<1>1. f \in [1 .. n -> S]
  OBVIOUS
<1> HIDE DEF S
<1>2. f \in Seq(S) /\ Len(f) = n
  BY <1>1
<1>q. QED BY <1>2 DEF S, Statuses

-----------------------------------------------------------------------------
(* What every step of a job has in common.                                  *)

JobStep(j) == Receive(j) \/ Accept(j) \/ Reject(j) \/ Step(j) \/ Send(j)

Moves(j) == \E l \in Labels \ {"idle"} : Goto(j, l)
Speaks(j) == \E st \in Statuses : Say(j, st)
Works(j) ==
    /\ \E n \in 0 .. UmountRetries : tries' = [tries EXCEPT ![j] = n]
    /\ \E b \in BOOLEAN : modified' = [modified EXCEPT ![j] = b]
    /\ \E a \in Archives : temp' = [temp EXCEPT ![j] = a]
    /\ tempDir' \in BOOLEAN
    /\ \E a \in Archives : got' = [got EXCEPT ![j] = a]

Effect(j) == Moves(j) /\ Speaks(j) /\ Works(j) /\ ServiceCall(j, Save(j)) /\ req' = req

LEMMA ArchiveTypes ==
    /\ Absent \in Sources /\ Sandbox \in Sources
    /\ \A b \in Sources : Blank(b) \in Images
    /\ NoArchive \in Archives
    /\ \A x \in {"none", "partial", "whole"}, b \in Sources, i \in Images :
           Archive(x, b, i) \in Archives
    /\ \A a \in Archives : [a EXCEPT !.state = "partial"] \in Archives
    /\ \A a \in Archives : a.bin \in Sources /\ a.img \in Images
<1>1. Absent \in Sources /\ Sandbox \in Sources
  BY DEF Absent, Sandbox, Sources, Owner
<1>2. \A b \in Sources : Blank(b) \in Images
  BY DEF Blank, Images, Owner
<1>q. QED BY <1>1, <1>2 DEF Archives, Archive, NoArchive

\* Reading a job's own variables back.
LEMMA Unmoved ==
    ASSUME TypeOK, NEW j \in Jobs
    PROVE  /\ Goto(j, pc[j]) <=> pc' = pc
           /\ pc[j] \in Labels
           /\ UNCHANGED tries => \E n \in 0 .. UmountRetries : tries' = [tries EXCEPT ![j] = n]
           /\ UNCHANGED modified => \E b \in BOOLEAN : modified' = [modified EXCEPT ![j] = b]
           /\ UNCHANGED temp => \E a \in Archives : temp' = [temp EXCEPT ![j] = a]
           /\ UNCHANGED tempDir => tempDir' \in BOOLEAN
           /\ UNCHANGED got => \E a \in Archives : got' = [got EXCEPT ![j] = a]
           /\ Save(j) \in Saves
<1>1. tries = [tries EXCEPT ![j] = tries[j]] /\ modified = [modified EXCEPT ![j] = modified[j]]
  BY DEF TypeOK
<1>2. temp = [temp EXCEPT ![j] = temp[j]] /\ got = [got EXCEPT ![j] = got[j]]
  BY DEF TypeOK
<1>q. QED BY <1>1, <1>2 DEF TypeOK, Goto, Save

LEMMA JobStepEffect ==
    ASSUME TypeOK, NEW j \in Jobs, JobStep(j)
    PROVE  Effect(j)
<1> USE DEF Labels
<1>t. said \in [Jobs -> Statuses]
  BY DEF TypeOK, Statuses
<1>s. Silent => Speaks(j)
  BY <1>t, SilenceIsEmpty DEF Speaks
<1>p. \A topic \in Topics, b \in BOOLEAN : Say(j, << <<topic, b>> >>) => Speaks(j)
  BY DEF Speaks, Statuses
<1>n. UNCHANGED svars => ServiceCall(j, Save(j))
  BY DEF ServiceCall
<1>d. TryDelete(j) => ServiceCall(j, Save(j))
  BY DEF TryDelete, ServiceCall
<1>m. \A m \in Modes : MountSave(j, Save(j), m) => ServiceCall(j, Save(j))
  BY DEF ServiceCall
<1>u. UmountSave(j, Save(j)) => ServiceCall(j, Save(j))
  BY DEF ServiceCall
<1>w. \A p \in Patches : PatchImage(j, Save(j), p) => ServiceCall(j, Save(j))
  BY DEF ServiceCall
<1>z. \A k \in {"zip", "torn"} : WriteBin(Save(j), <<k, j>>) \/ WriteImage(Save(j), <<k, j>>)
                                  => ServiceCall(j, Save(j))
  BY DEF ServiceCall, FromZip
<1>1. CASE Receive(j) \/ Accept(j)
  BY <1>1, <1>n, <1>p, Unmoved
     DEF Receive, Accept, Topics, Ready, Effect, Moves, Works
<1>2. CASE Reject(j)
  BY <1>2, <1>n, <1>p, Unmoved DEF Reject, Topics, Failed, Effect, Moves, Works
<1>3. CASE GenMount(j)
  BY <1>3, <1>m, <1>n, <1>p, Unmoved
     DEF GenMount, Modes, Topics, Ready, Failed, Effect, Moves, Works
<1>4. ASSUME NEW p \in Patches, GenPatch(j, p) PROVE Effect(j)
  <2>1. \A b \in BOOLEAN : AfterPatch(j, p, b) \in Labels \ {"idle"}
    BY DEF NextPatch, AfterPatch
  <2>2. Moves(j) /\ Speaks(j) /\ ServiceCall(j, Save(j)) /\ req' = req
    BY <1>4, <2>1, <1>s, <1>n, <1>w DEF GenPatch, Moves
  <2>3. Works(j)
    BY <1>4, Unmoved DEF GenPatch, Works
  <2>q. QED BY <2>2, <2>3 DEF Effect
<1>5. CASE GenUmount(j)
  <2>1. <<Ready("umount"), <<"modify", modified[j]>> >> \in Statuses
    BY StatusPairs DEF Ready, Topics, TypeOK
  <2>2. Speaks(j)
    BY <1>5, <2>1, <1>p DEF GenUmount, Speaks, Failed, Topics
  <2>q. QED BY <1>5, <1>n, <1>u, <2>2, Unmoved DEF GenUmount, Effect, Moves, Works
<1>6. CASE TempMount(j)
  BY <1>6, <1>m, <1>n, <1>p, Unmoved
     DEF TempMount, Modes, Topics, Ready, Failed, Effect, Moves, Works
<1>7. ASSUME NEW l \in Labels \ {"idle"}, NEW m \in Labels \ {"idle"},
             Umount(j, l, m)
      PROVE  Effect(j)
  <2>1. 0 \in 0 .. UmountRetries
    BY RetriesAssumption
  <2>2. Moves(j) /\ Speaks(j) /\ ServiceCall(j, Save(j)) /\ req' = req
    BY <1>7, <1>u, <1>n, <1>p DEF Umount, Topics, Ready, Failed, Moves
  <2>3. Works(j)
    BY <1>7, <2>1, Unmoved DEF Umount, Works
  <2>q. QED BY <2>2, <2>3 DEF Effect
<1>8. CASE TempUmount(j)
  BY <1>8, <1>7 DEF TempUmount
<1>9. CASE UmountBusy(j)
  <2>1. tries[j] + 1 \in 0 .. UmountRetries
    BY <1>9, RetriesAssumption DEF UmountBusy, RetryLeft, TypeOK
  <2>q. QED BY <1>9, <2>1, <1>s, <1>n, Unmoved DEF UmountBusy, Effect, Moves, Works
<1>10. CASE Clean(j)
  BY <1>10, <1>d, <1>s, <1>p, Unmoved DEF Clean, Topics, Failed, Effect, Moves, Works
<1>11. UnzipFails(j) => Moves(j) /\ Speaks(j)
  BY <1>s, <1>p DEF UnzipFails, Moves, Topics, Failed
<1>12. CASE UnzipBin(j)
  BY <1>12, <1>11, <1>z, <1>n, <1>s, Unmoved DEF UnzipBin, Effect, Moves, Works
<1>13. CASE UnzipImg(j)
  BY <1>13, <1>11, <1>z, <1>n, <1>p, Unmoved
     DEF UnzipImg, Topics, Ready, Effect, Moves, Works
<1>14. CASE RealMount(j)
  BY <1>14, <1>m, <1>n, <1>s, <1>p, Unmoved
     DEF RealMount, Modes, Topics, Ready, Failed, Effect, Moves, Works
<1>15. ASSUME NEW p \in {"account", "title"}, ResignPatch(j, p) PROVE Effect(j)
  BY <1>15, <1>w, <1>n, <1>s, Unmoved DEF ResignPatch, Patches, Effect, Moves, Works
<1>16. CASE Dump(j)
  <2>1. Speaks(j) /\ Moves(j) /\ ServiceCall(j, Save(j)) /\ req' = req
    BY <1>16, <1>n, <1>p DEF Dump, Topics, Ready, Failed, Moves
  <2>2. tempDir' \in BOOLEAN
    BY <1>16 DEF Dump, Mkdir, TypeOK
  <2>3. (IF Mounted(j) THEN img[Save(j)] ELSE Blank(Sandbox)) \in Images
    BY ArchiveTypes, Unmoved DEF TypeOK, SaveTypeOK
  <2>4. \E a \in Archives : temp' = [temp EXCEPT ![j] = a]
    BY <1>16, <2>3, ArchiveTypes, Unmoved DEF Dump, Built, TypeOK
  <2>q. QED BY <1>16, <2>1, <2>2, <2>4, Unmoved DEF Dump, Effect, Works
<1>17. CASE RealUmount(j)
  BY <1>17, <1>7 DEF RealUmount
<1>18. ASSUME NEW partly \in BOOLEAN, ZipFails(j, partly)
       PROVE  Moves(j) /\ Speaks(j) /\ \E a \in Archives : temp' = [temp EXCEPT ![j] = a]
  <2>1. \E a \in Archives : temp' = [temp EXCEPT ![j] = a]
    BY <1>18, ArchiveTypes, Unmoved DEF ZipFails, TypeOK
  <2>q. QED BY <1>18, <2>1, <1>p DEF ZipFails, Moves, Topics, Failed
<1>19. CASE ZipBin(j)
  <2>1. tempDir' \in BOOLEAN
    BY <1>19 DEF ZipBin, Mkdir, TypeOK
  <2>2. bin[Save(j)] \in Sources
    BY Unmoved DEF TypeOK, SaveTypeOK
  <2>3. Moves(j) /\ Speaks(j) /\ \E a \in Archives : temp' = [temp EXCEPT ![j] = a]
    BY <1>19, <1>18, <1>s, <2>1, <2>2, ArchiveTypes DEF ZipBin, Moves
  <2>q. QED BY <1>19, <1>n, <2>1, <2>3, Unmoved DEF ZipBin, Effect, Works
<1>20. CASE ZipImg(j)
  <2>1. img[Save(j)] \in Images /\ temp[j].bin \in Sources
    BY Unmoved, ArchiveTypes DEF TypeOK, SaveTypeOK
  <2>2. Moves(j) /\ Speaks(j) /\ \E a \in Archives : temp' = [temp EXCEPT ![j] = a]
    BY <1>20, <1>18, <1>p, <2>1, ArchiveTypes
       DEF ZipImg, Built, Moves, Topics, Ready, TypeOK
  <2>q. QED BY <1>20, <1>n, <2>2, Unmoved DEF ZipImg, Effect, Works
<1>21. CASE Unlink(j)
  BY <1>21, <1>n, <1>s, ArchiveTypes, Unmoved
     DEF Unlink, AfterUnlink, AfterDump, Effect, Moves, Works
<1>22. CASE Del(j)
  <2>1. DeleteSave(Save(j)) => ServiceCall(j, Save(j))
    BY DEF ServiceCall
  <2>q. QED BY <1>22, <2>1, <1>n, <1>p, Unmoved
            DEF Del, Topics, Ready, Failed, Effect, Moves, Works
<1>23. CASE Send(j)
  <2>1. TransferTopics[1] \in Topics /\ TransferTopics[2] \in Topics /\ TransferTopics[3] \in Topics
    BY DEF TransferTopics, Topics
  <2>t. \A i \in 1 .. 3 : TransferTopics[i] \in Topics
    <3>1. \A i \in 1 .. 3 : i = 1 \/ i = 2 \/ i = 3
      OBVIOUS
    <3>q. QED BY <2>1, <3>1
  <2>2. [i \in 1 .. 3 |-> Ready(TransferTopics[i])] \in Statuses
    <3>1. [i \in 1 .. 3 |-> Ready(TransferTopics[i])] \in [1 .. 3 -> Topics \X BOOLEAN]
      BY <2>t DEF Ready
    <3>q. QED BY <3>1, StatusRuns
  <2>3. \A n \in 1 .. 3 : [i \in 1 .. n |-> <<TransferTopics[i], i < n>>] \in Statuses
    <3>1. ASSUME NEW n \in 1 .. 3
          PROVE  [i \in 1 .. n |-> <<TransferTopics[i], i < n>>] \in Statuses
      <4>1. [i \in 1 .. n |-> <<TransferTopics[i], i < n>>] \in [1 .. n -> Topics \X BOOLEAN]
        <5>1. \A i \in 1 .. n : i \in 1 .. 3 /\ (i < n) \in BOOLEAN
          OBVIOUS
        <5>q. QED BY <5>1, <2>t
      <4>q. QED BY <4>1, StatusRuns
    <3>q. QED BY <3>1
  <2>4. Speaks(j)
    BY <1>23, <2>2, <2>3 DEF Send, Speaks
  <2>5. Moves(j)
    BY <1>23 DEF Send, AfterSend, Moves
  <2>6. \E a \in Archives : got' = [got EXCEPT ![j] = a]
    BY <1>23, Unmoved DEF Send, TypeOK
  <2>q. QED BY <1>23, <1>n, <2>4, <2>5, <2>6, Unmoved DEF Send, Effect, Works
<1>q. QED
  BY <1>1, <1>2, <1>3, <1>4, <1>5, <1>6, <1>8, <1>9, <1>10, <1>12, <1>13, <1>14,
     <1>15, <1>16, <1>17, <1>19, <1>20, <1>21, <1>22, <1>23 DEF JobStep, Step

-----------------------------------------------------------------------------
(* Type correctness.                                                        *)

LEMMA TypeInit == Init => TypeOK
<1> SUFFICES ASSUME Init PROVE TypeOK
  OBVIOUS
<1>1. \A s \in Saves : bin[s] \in Sources
  BY DEF Init, SaveInit, Absent, Sources, Owner
<1>2. SaveTypeOK
  BY <1>1, ArchiveTypes, SavesAssumption DEF Init, SaveInit, SaveTypeOK, Owner
<1>3. tries \in [Jobs -> 0 .. UmountRetries]
  BY RetriesAssumption DEF Init
<1>q. QED BY <1>2, <1>3, ArchiveTypes DEF Init, TypeOK, Labels

LEMMA TypeStep ==
    ASSUME TypeOK, [Next]_vars
    PROVE  TypeOK'
<1>1. CASE UNCHANGED vars
  BY <1>1 DEF TypeOK, SaveTypeOK, vars, svars, jvars
<1>2. ASSUME NEW j \in Jobs, JobStep(j) PROVE TypeOK'
  <2>1. Effect(j) /\ Save(j) \in Saves
    BY <1>2, JobStepEffect, Unmoved
  <2>2. SaveTypeOK'
    BY <2>1, ServiceType DEF Effect, TypeOK
  <2>3. said' \in [Jobs -> Seq(Topics \X BOOLEAN)]
    BY <2>1, SayAppends DEF Effect, Speaks, TypeOK, Statuses
  <2>4. pc' \in [Jobs -> Labels] /\ req' \in [Jobs -> [cmd : Commands, save : Saves, zip : BOOLEAN]]
    BY <2>1 DEF Effect, Moves, Goto, TypeOK
  <2>5. /\ tries' \in [Jobs -> 0 .. UmountRetries]
        /\ modified' \in [Jobs -> BOOLEAN]
        /\ temp' \in [Jobs -> Archives]
        /\ tempDir' \in BOOLEAN
        /\ got' \in [Jobs -> Archives]
    BY <2>1 DEF Effect, Works, TypeOK
  <2>q. QED BY <2>2, <2>3, <2>4, <2>5 DEF TypeOK
<1>q. QED BY <1>1, <1>2 DEF Next, JobStep

\* Every variable keeps its type, in particular the retry counter of
\* saveMountUnMount stays within its limit and a job's statuses are among those
\* the handlers send.
THEOREM TypeCorrect == Spec => []TypeOK
<1>1. Init => TypeOK
  BY TypeInit
<1>2. TypeOK /\ [Next]_vars => TypeOK'
  BY TypeStep
<1>q. QED BY <1>1, <1>2, PTL DEF Spec

-----------------------------------------------------------------------------
(* The inductive invariant.                                                 *)

\* Where a job may have its save mounted: between a mount and its unmount, or
\* anywhere after a failed unmount that was reported.
Holding(j) ==
    \/ pc[j] \in Patches \cup {"gUmount", "tUmount", "rUmount"}
    \/ Cmd(j) = "extract" /\ pc[j] \in {"dump", "send", "unlink"}
    \/ Heard(j, Failed("umount"))

\* Where a job may have a zip in the temporary directory.
Zipping(j) ==
    \/ Cmd(j) = "gen" \/ pc[j] \in {"zipImg", "send", "unlink"}
    \/ Cmd(j) = "resign" /\ Heard(j, Failed("zip"))

Path(j) ==
    /\ pc[j] = "gUmount" => Cmd(j) = "gen"
    /\ pc[j] \in {"zipBin", "zipImg"} => Cmd(j) # "extract"

\* A job that told of its deletion is over and has left nothing.
Deleted(j) ==
    Heard(j, Ready("delete")) =>
        /\ pc[j] = "done" /\ creator[Save(j)] # j /\ ~Mounted(j)
        /\ ~Wrote(j, Save(j))

\* A job that has not called the service yet has written nothing.
Early(j) == pc[j] \in {"idle", "packet", "gMount", "tMount"} => ~Wrote(j, Save(j))

JobInv(j) ==
    /\ Mounted(j) => Holding(j)
    /\ temp[j].state # "none" => Zipping(j)
    /\ Path(j)
    /\ Deleted(j)
    /\ Early(j)

\* A job mounts, creates and writes only the save its packet names.
OwnSaveOnly ==
    \A j \in Jobs, s \in Saves :
        mount[s] = j \/ creator[s] = j \/ Wrote(j, s) => s = Save(j)

Inv == OwnSaveOnly /\ \A j \in Jobs : JobInv(j)


LEMMA InvInit == Init => Inv
<1> SUFFICES ASSUME Init PROVE Inv
  OBVIOUS
<1>1. \A j \in Jobs, s \in Saves : mount[s] # j /\ creator[s] # j /\ ~Wrote(j, s)
  BY JobsAssumption DEF Init, SaveInit, Wrote, Blank, Absent
<1>2. \A j \in Jobs : Save(j) \in Saves
  BY DEF Init, Save
<1>3. \A j \in Jobs : \A x : ~Heard(j, x)
  BY DEF Init, Heard
<1>q. QED BY <1>1, <1>2, <1>3 DEF Init, Inv, OwnSaveOnly, JobInv, Mounted, Path, Deleted,
             Early, NoArchive, Archive

\* Saying one status, saying two and saying nothing.
LEMMA HeardAfter ==
    ASSUME TypeOK, NEW j \in Jobs
    PROVE  /\ \A x \in Topics \X BOOLEAN :
                  Say(j, <<x>>) => \A y : Heard(j, y)' <=> Heard(j, y) \/ y = x
           /\ \A x, z \in Topics \X BOOLEAN :
                  Say(j, <<x, z>>) => \A y : Heard(j, y)' <=> Heard(j, y) \/ y = x \/ y = z
           /\ Silent => \A y : Heard(j, y)' <=> Heard(j, y)
<1>t. said \in [Jobs -> Statuses]
  BY DEF TypeOK, Statuses
<1>1. ASSUME NEW x \in Topics \X BOOLEAN, Say(j, <<x>>)
      PROVE  \A y : Heard(j, y)' <=> Heard(j, y) \/ y = x
  <2>1. <<x>> \in Statuses /\ Len(<<x>>) = 1 /\ <<x>>[1] = x
    BY DEF Statuses
  <2>2. \A y : Heard(j, y)' <=> Heard(j, y) \/ \E i \in 1 .. Len(<<x>>) : <<x>>[i] = y
    BY <1>1, <2>1, <1>t, SayAppends
  <2>3. \A y : (\E i \in 1 .. Len(<<x>>) : <<x>>[i] = y) <=> y = x
    BY <2>1
  <2>q. QED BY <2>2, <2>3
<1>2. ASSUME NEW x \in Topics \X BOOLEAN, NEW z \in Topics \X BOOLEAN, Say(j, <<x, z>>)
      PROVE  \A y : Heard(j, y)' <=> Heard(j, y) \/ y = x \/ y = z
  <2>1. <<x, z>> \in Statuses /\ Len(<<x, z>>) = 2 /\ <<x, z>>[1] = x /\ <<x, z>>[2] = z
    BY StatusPairs
  <2>2. \A y : Heard(j, y)' <=> Heard(j, y) \/ \E i \in 1 .. Len(<<x, z>>) : <<x, z>>[i] = y
    BY <1>2, <2>1, <1>t, SayAppends
  <2>3. \A y : (\E i \in 1 .. Len(<<x, z>>) : <<x, z>>[i] = y) <=> y = x \/ y = z
    BY <2>1
  <2>q. QED BY <2>2, <2>3
<1>3. ASSUME Silent PROVE \A y : Heard(j, y)' <=> Heard(j, y)
  BY <1>3 DEF Silent, Heard
<1>q. QED BY <1>1, <1>2, <1>3

\* The statuses of a transfer: none is taken back, none is a deletion's.
LEMMA HeardAfterSend ==
    ASSUME TypeOK, NEW j \in Jobs, Send(j)
    PROVE  /\ \A y : Heard(j, y) => Heard(j, y)'
           /\ Heard(j, Ready("delete"))' => Heard(j, Ready("delete"))
<1>t. said \in [Jobs -> Statuses]
  BY DEF TypeOK, Statuses
<1>1. \A i \in 1 .. 3 : TransferTopics[i] \in Topics \ {"delete"}
  <2>1. \A i \in 1 .. 3 : i = 1 \/ i = 2 \/ i = 3
    OBVIOUS
  <2>q. QED BY <2>1 DEF TransferTopics, Topics
<1>a. \E n \in 1 .. 3 : \E f \in [1 .. n -> (Topics \ {"delete"}) \X BOOLEAN] : Say(j, f)
  <2>1. CASE Say(j, [i \in 1 .. 3 |-> Ready(TransferTopics[i])])
    <3>1. [i \in 1 .. 3 |-> Ready(TransferTopics[i])]
              \in [1 .. 3 -> (Topics \ {"delete"}) \X BOOLEAN]
      BY <1>1 DEF Ready
    <3>q. QED BY <2>1, <3>1
  <2>2. ASSUME NEW n \in 1 .. 3, Say(j, [i \in 1 .. n |-> <<TransferTopics[i], i < n>>])
        PROVE  \E f \in [1 .. n -> (Topics \ {"delete"}) \X BOOLEAN] : Say(j, f)
    <3>1. \A i \in 1 .. n : i \in 1 .. 3 /\ (i < n) \in BOOLEAN
      OBVIOUS
    <3>2. [i \in 1 .. n |-> <<TransferTopics[i], i < n>>]
              \in [1 .. n -> (Topics \ {"delete"}) \X BOOLEAN]
      BY <1>1, <3>1
    <3>q. QED BY <2>2, <3>2
  <2>q. QED BY <2>1, <2>2 DEF Send
<1>b. PICK n \in 1 .. 3 : \E f \in [1 .. n -> (Topics \ {"delete"}) \X BOOLEAN] : Say(j, f)
  BY <1>a
<1>2. PICK f \in [1 .. n -> (Topics \ {"delete"}) \X BOOLEAN] : Say(j, f)
  BY <1>b
<1>3. f \in Statuses /\ Len(f) = n
  <2>1. f \in [1 .. n -> Topics \X BOOLEAN] /\ n \in Nat
    OBVIOUS
  <2>q. QED BY <2>1, StatusRuns
<1>4. \A y : Heard(j, y)' <=> Heard(j, y) \/ \E i \in 1 .. n : f[i] = y
  BY <1>t, <1>2, <1>3, SayAppends
<1>5. \A i \in 1 .. n : f[i][1] # "delete" /\ Ready("delete")[1] = "delete"
  BY DEF Ready
<1>q. QED BY <1>4, <1>5

\* What is read of a job after another job's step.
LEMMA OtherJob ==
    ASSUME TypeOK, Inv, NEW j \in Jobs, JobStep(j), NEW k \in Jobs \ {j}
    PROVE  JobInv(k)'
<1>1. Effect(j) /\ Save(j) \in Saves /\ Save(k) \in Saves
  BY JobStepEffect, Unmoved
<1>2. pc'[k] = pc[k] /\ temp'[k] = temp[k] /\ Cmd(k)' = Cmd(k) /\ Save(k)' = Save(k)
  BY <1>1 DEF Effect, Moves, Goto, Works, TypeOK, Cmd, Save
<1>3. said'[k] = said[k]
  BY <1>1, SayAppends DEF Effect, Speaks, TypeOK, Statuses
<1>4. \A x : Heard(k, x)' <=> Heard(k, x)
  BY <1>3 DEF Heard
<1>5. /\ Mounted(k)' => Mounted(k)
      /\ creator'[Save(k)] = k => creator[Save(k)] = k
      /\ Wrote(k, Save(k))' => Wrote(k, Save(k))
  <2>1. \A s \in Saves : /\ mount'[s] = k => mount[s] = k
                         /\ creator'[s] = k => creator[s] = k
                         /\ Wrote(k, s)' => Wrote(k, s)
    BY <1>1, ServiceFrame DEF Effect, TypeOK
  <2>2. Wrote(k, Save(k))' <=> \E s \in Saves : s = Save(k) /\ Wrote(k, s)'
    BY <1>1, <1>2 DEF Wrote
  <2>q. QED BY <1>1, <1>2, <2>1, <2>2 DEF Mounted
<1>6. JobInv(k)
  BY DEF Inv
<1>q. QED BY <1>2, <1>4, <1>5, <1>6 DEF JobInv, Holding, Zipping, Path, Deleted, Early

LEMMA OwnSaveOnlyStep ==
    ASSUME TypeOK, Inv, NEW j \in Jobs, JobStep(j)
    PROVE  OwnSaveOnly'
<1>1. Effect(j) /\ Save(j) \in Saves
  BY JobStepEffect, Unmoved
<1>2. ASSUME NEW k \in Jobs, NEW s \in Saves,
             mount'[s] = k \/ creator'[s] = k \/ Wrote(k, s)'
      PROVE  s = Save(k)
  <2>1. CASE k # j \/ s # Save(j)
    BY <1>1, <1>2, <2>1, ServiceFrame DEF Effect, TypeOK, Inv, OwnSaveOnly
  <2>2. CASE k = j /\ s = Save(j)
    BY <2>2
  <2>q. QED BY <2>1, <2>2
<1>3. \A k \in Jobs : Save(k)' = Save(k)
  BY <1>1 DEF Effect, Save
<1>q. QED BY <1>2, <1>3 DEF OwnSaveOnly

\* A job is before its first call until its packet has come.
LEMMA EarlyStep ==
    ASSUME TypeOK, NEW j \in Jobs, JobStep(j), Early(j)
    PROVE  Early(j)'
<1>1. Save(j)' = Save(j) /\ \A l : Goto(j, l) => pc'[j] = l
  BY JobStepEffect DEF Effect, Save, Goto, TypeOK
<1>2. UNCHANGED svars => (Wrote(j, Save(j))' <=> Wrote(j, Save(j)))
  BY <1>1 DEF svars, Wrote
<1> USE <1>1 DEF Early, At
<1>3. CASE Receive(j) \/ Accept(j) \/ Reject(j)
  BY <1>2, <1>3 DEF Receive, Accept, Reject
<1>4. CASE GenMount(j) \/ GenUmount(j) \/ \E p \in Patches : GenPatch(j, p)
  BY <1>4 DEF GenMount, GenUmount, GenPatch, AfterPatch, NextPatch
<1>5. CASE TempMount(j) \/ TempUmount(j) \/ UmountBusy(j) \/ Clean(j)
  BY <1>5 DEF TempMount, TempUmount, Umount, UmountBusy, Clean
<1>6. CASE UnzipBin(j) \/ UnzipImg(j)
  BY <1>6 DEF UnzipBin, UnzipImg, UnzipFails
<1>7. CASE RealMount(j) \/ RealUmount(j) \/ \E p \in {"account", "title"} : ResignPatch(j, p)
  BY <1>7 DEF RealMount, RealUmount, Umount, ResignPatch
<1>8. CASE Dump(j) \/ ZipBin(j) \/ ZipImg(j)
  BY <1>8 DEF Dump, ZipBin, ZipImg, ZipFails
<1>9. CASE Unlink(j) \/ Del(j) \/ Send(j)
  BY <1>9 DEF Unlink, AfterUnlink, AfterDump, Del, Send, AfterSend
<1>q. QED BY <1>3, <1>4, <1>5, <1>6, <1>7, <1>8, <1>9 DEF JobStep, Step

\* The job's own step, one case for each action.
LEMMA OwnJob ==
    ASSUME TypeOK, Inv, NEW j \in Jobs, JobStep(j)
    PROVE  JobInv(j)'
<1>1. Effect(j) /\ Save(j) \in Saves /\ JobInv(j)
  BY JobStepEffect, Unmoved DEF Inv
<1>2. Cmd(j)' = Cmd(j) /\ Save(j)' = Save(j)
  BY <1>1 DEF Effect, Cmd, Save
<1>3. \A l : Goto(j, l) => pc'[j] = l
  BY DEF Goto, TypeOK
<1>4. UNCHANGED svars => (Mounted(j)' <=> Mounted(j))
  BY <1>2 DEF svars, Mounted
<1>5. \A p : PatchImage(j, Save(j), p) => (Mounted(j)' <=> Mounted(j))
  BY <1>2 DEF PatchImage, Mounted
<1>6. \A b : WriteBin(Save(j), b) \/ WriteImage(Save(j), b) => (Mounted(j)' <=> Mounted(j))
  BY <1>2 DEF WriteBin, WriteImage, Mounted
<1>7. UmountSave(j, Save(j)) => ~Mounted(j)'
  BY <1>1, <1>2, JobsAssumption DEF UmountSave, Mounted, TypeOK, SaveTypeOK
<1>8. DeleteSave(Save(j)) =>
          ~Mounted(j)' /\ creator'[Save(j)] # j /\ ~Wrote(j, Save(j))'
  BY <1>1, <1>2, JobsAssumption
     DEF DeleteSave, Mounted, TypeOK, SaveTypeOK, Wrote, Blank, Absent
<1>9. TryDelete(j) => (Mounted(j)' => Mounted(j))
  BY <1>4, <1>8 DEF TryDelete
<1>10. temp \in [Jobs -> Archives] /\ NoArchive.state = "none"
  BY DEF TypeOK, NoArchive, Archive
<1>s. Silent => \A y : Heard(j, y)' <=> Heard(j, y)
  BY HeardAfter
<1>p. \A topic \in Topics, b \in BOOLEAN :
          Say(j, << <<topic, b>> >>) => \A y : Heard(j, y)' <=> Heard(j, y) \/ y = <<topic, b>>
  BY HeardAfter
<1>z. \A x, w \in Topics \X BOOLEAN :
          Say(j, <<x, w>>) => \A y : Heard(j, y)' <=> Heard(j, y) \/ y = x \/ y = w
  BY HeardAfter
<1>y. Cmd(j) \in Commands
  BY DEF TypeOK, Cmd
<1>h. pc[j] # "done" => ~Heard(j, Ready("delete"))
  BY <1>1 DEF JobInv, Deleted
<1>x. Early(j)'
  BY <1>1, EarlyStep DEF JobInv
<1> USE <1>1, <1>2, <1>3, <1>10, <1>h, <1>x, <1>y
    DEF JobInv, Holding, Zipping, Path, Deleted, At, Topics, Ready, Failed, Patches, Commands
<1>a. CASE GenMount(j)
  BY <1>a, <1>4, <1>p DEF GenMount
<1>b. CASE TempMount(j)
  BY <1>b, <1>4, <1>p DEF TempMount
<1>c. CASE Clean(j)
  BY <1>c, <1>9, <1>s, <1>p DEF Clean
<1>d. CASE UmountBusy(j)
  BY <1>d, <1>4, <1>s DEF UmountBusy
<1>e. CASE UnzipBin(j)
  BY <1>e, <1>4, <1>6, <1>s, <1>p DEF UnzipBin, UnzipFails
<1>f. CASE UnzipImg(j)
  BY <1>f, <1>4, <1>6, <1>s, <1>p DEF UnzipImg, UnzipFails
<1>g. CASE RealMount(j)
  BY <1>g, <1>4, <1>s, <1>p DEF RealMount
<1>i. CASE Receive(j) \/ Accept(j) \/ Reject(j)
  BY <1>i, <1>4, <1>p DEF Receive, Accept, Reject
<1>j. ASSUME NEW p \in Patches, GenPatch(j, p) PROVE JobInv(j)'
  BY <1>j, <1>4, <1>5, <1>s DEF GenPatch, NextPatch, AfterPatch
<1>k. CASE GenUmount(j)
  <2>1. CASE UmountSave(j, Save(j)) /\ Say(j, << <<"umount", TRUE>>, <<"modify", modified[j]>> >>)
    <3>1. modified[j] \in BOOLEAN
      BY DEF TypeOK
    <3>2. \A y : Heard(j, y)' <=>
              Heard(j, y) \/ y = <<"umount", TRUE>> \/ y = <<"modify", modified[j]>>
      BY <2>1, <3>1, <1>z, ZenonT(30)
    <3>q. QED BY <1>k, <1>7, <2>1, <3>2 DEF GenUmount
  <2>2. CASE UNCHANGED svars /\ Say(j, << <<"umount", FALSE>> >>)
    <3>1. \A y : Heard(j, y)' <=> Heard(j, y) \/ y = <<"umount", FALSE>>
      BY <2>2, <1>p
    <3>q. QED BY <1>k, <1>4, <2>2, <3>1 DEF GenUmount
  <2>q. QED BY <1>k, <2>1, <2>2 DEF GenUmount
<1>l. CASE TempUmount(j)
  BY <1>l, <1>4, <1>7, <1>p DEF TempUmount, Umount
<1>m. CASE RealUmount(j)
  BY <1>m, <1>4, <1>7, <1>p DEF RealUmount, Umount
<1>n. ASSUME NEW p \in {"account", "title"}, ResignPatch(j, p) PROVE JobInv(j)'
  BY <1>n, <1>4, <1>5, <1>s DEF ResignPatch
<1>o. CASE Dump(j)
  BY <1>o, <1>4, <1>p DEF Dump
<1>r. CASE ZipBin(j)
  BY <1>r, <1>4, <1>s, <1>p DEF ZipBin, ZipFails
<1>t. CASE ZipImg(j)
  BY <1>t, <1>4, <1>p DEF ZipImg, ZipFails
<1>u. CASE Unlink(j)
  BY <1>u, <1>4, <1>s DEF Unlink, AfterUnlink, AfterDump
<1>v. CASE Del(j)
  BY <1>v, <1>4, <1>8, <1>p DEF Del
<1>w. CASE Send(j)
  BY <1>w, <1>4, HeardAfterSend DEF Send, AfterSend
<1>q. QED
  BY <1>a, <1>b, <1>c, <1>d, <1>e, <1>f, <1>g, <1>i, <1>j, <1>k, <1>l, <1>m, <1>n, <1>o,
     <1>r, <1>t, <1>u, <1>v, <1>w DEF JobStep, Step

LEMMA InvStep ==
    ASSUME TypeOK, Inv, [Next]_vars
    PROVE  Inv'
<1>1. CASE UNCHANGED vars
  BY <1>1 DEF vars, svars, jvars, Inv, OwnSaveOnly, JobInv, Mounted, Holding, Zipping, Path,
              Deleted, Early, Wrote, Heard, Cmd, Save
<1>2. ASSUME NEW j \in Jobs, JobStep(j) PROVE Inv'
  BY <1>2, OwnSaveOnlyStep, OwnJob, OtherJob DEF Inv
<1>q. QED BY <1>1, <1>2 DEF Next, JobStep

THEOREM Invariance == Spec => [](TypeOK /\ Inv)
<1>1. Init => TypeOK /\ Inv
  BY TypeInit, InvInit
<1>2. TypeOK /\ Inv /\ [Next]_vars => TypeOK' /\ Inv'
  BY TypeStep, InvStep
<1>q. QED BY <1>1, <1>2, PTL DEF Spec

-----------------------------------------------------------------------------
(* The safety properties.                                                   *)

\* No path through the three handlers ends with a save mounted, unless an
\* unmount failed and its error was sent.
THEOREM MountReleasedCorrect == Spec => []MountReleased
<1>1. TypeOK /\ Inv => MountReleased
  BY DEF TypeOK, Inv, OwnSaveOnly, JobInv, Holding, MountReleased, Ended, At, Mounted, Patches
<1>q. QED BY <1>1, Invariance, PTL

\* A zip outlives its job only after the generator, or after a resign whose
\* zipping failed and was reported.
THEOREM TempResidueCorrect == Spec => []TempResidue
<1>1. TypeOK /\ Inv => TempResidue
  BY DEF Inv, JobInv, Zipping, TempResidue, Ended, At
<1>q. QED BY <1>1, Invariance, PTL

\* A script without an error tells of the deletion and of no failure.
LEMMA ScriptHeard ==
    ASSUME NEW j \in Jobs, TypeOK, Succeeded(j)
    PROVE  Heard(j, Ready("delete")) /\ \A topic : ~Heard(j, Failed(topic))
<1> DEFINE S == Script(Cmd(j))
<1>1. Cmd(j) \in Commands
  BY DEF TypeOK, Cmd
<1>2. /\ Len(S) \in Nat /\ DOMAIN S = 1 .. Len(S)
      /\ Len(S) > 0 /\ S[Len(S)] = "delete"
  <2>1. CASE Cmd(j) = "gen"
    BY <2>1 DEF Script
  <2>2. CASE Cmd(j) = "extract"
    BY <2>2 DEF Script
  <2>3. CASE Cmd(j) = "resign"
    BY <2>3 DEF Script
  <2>q. QED BY <1>1, <2>1, <2>2, <2>3 DEF Commands
<1> HIDE DEF S
<1>3. said[j] = [i \in 1 .. Len(S) |-> Ready(S[i])]
  BY <1>2 DEF Succeeded, S
<1>4. Len(said[j]) = Len(S)
  BY <1>2, <1>3 DEF TypeOK
<1>5. ASSUME NEW i \in 1 .. Len(said[j]) PROVE said[j][i] = Ready(S[i])
  BY <1>3, <1>4
<1>6. Heard(j, Ready("delete"))
  <2>1. Len(S) \in 1 .. Len(said[j])
    BY <1>2, <1>4
  <2>q. QED BY <1>2, <1>5, <2>1 DEF Heard
<1>7. \A topic : ~Heard(j, Failed(topic))
  <2>1. \A topic, other : Failed(topic) # Ready(other)
    BY DEF Failed, Ready
  <2>q. QED BY <1>5, <2>1 DEF Heard
<1>q. QED BY <1>6, <1>7

\* A client that read only READY has left nothing of its own on the console.
THEOREM SuccessMeansCleanCorrect == Spec => []SuccessMeansClean
<1>1. TypeOK /\ Inv => SuccessMeansClean
  <2> SUFFICES ASSUME TypeOK, Inv, NEW j \in Jobs, Succeeded(j)
               PROVE  /\ \A s \in Saves : creator[s] # j /\ mount[s] # j
                      /\ temp[j].state # "none" => Cmd(j) = "gen"
    BY DEF SuccessMeansClean
  <2>1. /\ Heard(j, Ready("delete"))
        /\ \A topic : ~Heard(j, Failed(topic))
        /\ pc[j] = "done"
    BY ScriptHeard DEF Succeeded, Ended, At
  <2>2. Deleted(j) /\ OwnSaveOnly /\ (temp[j].state # "none" => Zipping(j))
    BY DEF Inv, JobInv
  <2>q. QED BY <2>1, <2>2 DEF Deleted, OwnSaveOnly, Mounted, Zipping
<1>q. QED BY <1>1, Invariance, PTL


=============================================================================
