------------------------- MODULE SaveContentProofs --------------------------
(***************************************************************************)
(* Proofs about SaveJobs: what is in the archive a client is sent, when    *)
(* commands on one save come over one connection.                          *)
(***************************************************************************)
EXTENDS SaveScriptProofs

\* Commands on the same save arrive on the same connection, so that its thread
\* runs them one after the other.  The packets are fixed: it is true of a whole
\* behaviour or of no state of it.
Apart == \A j, k \in Jobs : Save(j) = Save(k) => Conn[j] = Conn[k]

Active(j) == pc[j] \notin {"idle", "done"}

\* A connection's thread is inside one command at most.
Turns ==
    \A j, k \in Jobs : j # k /\ Conn[j] = Conn[k] => ~(Active(j) /\ Active(k))

\* What the generator has patched when it comes to each of its patches.
PatchedBefore(l) ==
    CASE l = "title"  -> {"account"}
      [] l = "params" -> {"account", "title"}
      [] l = "files"  -> {"account", "title", "params"}
      [] OTHER -> {}

\* An image with every patch the generator's packet asks for.
Patched(j, image) == \A p \in Patches : (p = "files" => req[j].zip) => image.by[p] = j

\* A save created for the generator, or one whose bytes are all of those in left.
MadeFrom(left, j, zip, b, image) ==
    \/ b = <<"new", j>> /\ image.base = <<"new", j>> /\ (zip \/ image.by["files"] = NoJob)
    \/ b[2] \in left /\ image.base[2] \in left /\ (zip \/ image.by["files"] \in left)

Made(j, b, image) == MadeFrom(LeftBy(Save(j)), j, req[j].zip, b, image)

GenPatched(j) ==
    /\ pc[j] \in {"idle", "packet", "gMount"} \cup Patches => ~modified[j]
    /\ \A p \in PatchedBefore(pc[j]) : img[Save(j)].by[p] = j
    /\ pc[j] = "files" => req[j].zip
    /\ pc[j] = "gUmount" /\ modified[j] => Patched(j, img[Save(j)])
    /\ pc[j] \in {"zipBin", "zipImg"} => Patched(j, img[Save(j)])
    /\ pc[j] = "send" => Patched(j, temp[j].img)
    /\ pc[j] \in {"del", "done"} /\ ~Told(j) => Patched(j, got[j].img)

GenMade(j) ==
    /\ pc[j] \in Patches \cup {"gUmount", "zipBin", "zipImg"} =>
           Made(j, bin[Save(j)], img[Save(j)])
    /\ pc[j] = "zipImg" => temp[j].bin = bin[Save(j)]
    /\ pc[j] = "send" => Made(j, temp[j].bin, temp[j].img)
    /\ pc[j] \in {"del", "done"} /\ ~Told(j) => Made(j, got[j].bin, got[j].img)

GenContent(j) == GenPatched(j) /\ GenMade(j)

Zipped(j) == <<"zip", j>>

ExtractContent(j) ==
    /\ pc[j] \in {"tUmount", "unzipBin", "unzipImg", "rMount", "dump"} => Save(j) \in known
    /\ pc[j] \in {"rMount", "dump"} => img[Save(j)] = Blank(Zipped(j))
    /\ pc[j] = "send" /\ Mounted(j) => temp[j].img = Blank(Zipped(j))
    /\ \/ pc[j] = "unlink" /\ Mounted(j)
       \/ pc[j] \in {"rUmount", "del"}
       \/ pc[j] = "done" /\ Heard(j, Ready("delete"))
       => Told(j) \/ got[j].img = Blank(Zipped(j))

\* The client's image, and no patch but the job's own.
Own(j, image) ==
    image.base = Zipped(j) /\ \A p \in Patches : image.by[p] \in {j, NoJob}

ResignContent(j) ==
    /\ pc[j] \in {"unzipImg", "rMount", "account", "title", "rUmount", "zipBin", "zipImg"} =>
           bin[Save(j)] = Zipped(j) \/ Told(j)
    /\ pc[j] \in {"rMount", "account", "title", "rUmount", "zipBin", "zipImg"} =>
           Own(j, img[Save(j)]) \/ Told(j)
    /\ pc[j] \in {"zipImg", "send"} => temp[j].bin = Zipped(j) \/ Told(j)
    /\ pc[j] = "send" => Own(j, temp[j].img) \/ Told(j)
    /\ pc[j] \in {"unlink", "del", "done"} =>
           \/ Told(j)
           \/ got[j].bin = Zipped(j) /\ Own(j, got[j].img)

Content(j) ==
    /\ Cmd(j) = "gen"     => GenContent(j)
    /\ Cmd(j) = "extract" => ExtractContent(j)
    /\ Cmd(j) = "resign"  => ResignContent(j)
    /\ pc[j] \in {"zipBin", "zipImg"} => mount[Save(j)] = NoJob

ContentInv == Turns /\ (Apart => \A j \in Jobs : Content(j))

-----------------------------------------------------------------------------
(* Lemmas.                                                                  *)

\* A call about one save leaves the other saves alone.
LEMMA ServiceElsewhere ==
    ASSUME SaveTypeOK, NEW j \in Jobs, NEW s \in Saves, ServiceCall(j, s),
           NEW r \in Saves, r # s
    PROVE  /\ r \in known' <=> r \in known
           /\ bin'[r] = bin[r] /\ img'[r] = img[r] /\ mount'[r] = mount[r]
<1> USE DEF SaveTypeOK
<1>1. CASE \E m \in Modes : MountSave(j, s, m)
  BY <1>1 DEF MountSave, CreateSave, OpenSave
<1>2. CASE UmountSave(j, s)
  BY <1>2 DEF UmountSave
<1>3. CASE DeleteSave(s)
  BY <1>3 DEF DeleteSave
<1>4. CASE \E p \in Patches : PatchImage(j, s, p)
  BY <1>4 DEF PatchImage
<1>5. CASE \E b \in FromZip(j) : WriteBin(s, b) \/ WriteImage(s, b)
  BY <1>5 DEF WriteBin, WriteImage
<1>6. CASE UNCHANGED svars
  BY <1>6 DEF svars
<1>q. QED BY <1>1, <1>2, <1>3, <1>4, <1>5, <1>6 DEF ServiceCall

\* Only the receipt of a command starts a job, and a job that is over is over.
LEMMA StepsActive ==
    ASSUME NEW j \in Jobs, JobStep(j)
    PROVE  /\ Receive(j) \/ Active(j)
           /\ Step(j) \/ Send(j) => Active(j)
<1> USE DEF Active, At, Patches
<1>1. CASE Accept(j) \/ Reject(j) \/ Send(j)
  BY <1>1 DEF Accept, Reject, Send
<1>2. CASE GenMount(j) \/ GenUmount(j) \/ \E p \in Patches : GenPatch(j, p)
  BY <1>2 DEF GenMount, GenUmount, GenPatch
<1>3. CASE TempMount(j) \/ TempUmount(j) \/ UmountBusy(j) \/ Clean(j)
  BY <1>3 DEF TempMount, TempUmount, UmountBusy, Clean
<1>4. CASE UnzipBin(j) \/ UnzipImg(j) \/ RealMount(j) \/ RealUmount(j)
  BY <1>4 DEF UnzipBin, UnzipImg, RealMount, RealUmount
<1>5. CASE Dump(j) \/ \E p \in {"account", "title"} : ResignPatch(j, p)
  BY <1>5 DEF Dump, ResignPatch
<1>6. CASE ZipBin(j) \/ ZipImg(j) \/ Unlink(j) \/ Del(j)
  BY <1>6 DEF ZipBin, ZipImg, Unlink, Del
<1>q. QED BY <1>1, <1>2, <1>3, <1>4, <1>5, <1>6 DEF JobStep, Step

\* What a step leaves to the other jobs.
LEMMA OthersKeep ==
    ASSUME TypeOK, NEW j \in Jobs, JobStep(j), NEW k \in Jobs \ {j}
    PROVE  /\ pc'[k] = pc[k] /\ temp'[k] = temp[k] /\ got'[k] = got[k]
           /\ modified'[k] = modified[k] /\ said'[k] = said[k] /\ req' = req
<1>1. Effect(j)
  BY JobStepEffect
<1>2. said'[k] = said[k]
  BY <1>1, SayAppends DEF Effect, Speaks, TypeOK, Statuses
<1>q. QED BY <1>1, <1>2 DEF Effect, Moves, Goto, Works, TypeOK

LEMMA OwnReq == ASSUME TypeOK, NEW j \in Jobs, JobStep(j) PROVE req' = req
  BY JobStepEffect DEF Effect

\* The thread of a connection takes the next command when it is done with the
\* one before.
LEMMA TurnsStep ==
    ASSUME TypeOK, Turns, NEW j \in Jobs, JobStep(j)
    PROVE  Turns'
<1>1. \A k \in Jobs \ {j} : pc'[k] = pc[k]
  BY OthersKeep
<1>2. CASE Receive(j)
  BY <1>1, <1>2 DEF Receive, ThreadFree, Turns, Active
<1>3. CASE Active(j)
  BY <1>1, <1>3 DEF Turns, Active
<1>q. QED BY <1>2, <1>3, StepsActive

\* While a job runs, no other touches its save.
LEMMA Untouched ==
    ASSUME TypeOK, Turns, Apart, NEW j \in Jobs, JobStep(j),
           NEW k \in Jobs \ {j}, Active(k)
    PROVE  /\ Save(k) \in known' <=> Save(k) \in known
           /\ bin'[Save(k)] = bin[Save(k)] /\ img'[Save(k)] = img[Save(k)]
           /\ mount'[Save(k)] = mount[Save(k)]
<1>1. CASE Receive(j)
  BY <1>1 DEF Receive, svars
<1>2. CASE Active(j)
  <2>1. Save(j) # Save(k)
    BY <1>2 DEF Turns, Apart
  <2>2. Effect(j) /\ Save(j) \in Saves /\ Save(k) \in Saves
    BY JobStepEffect, Unmoved
  <2>q. QED BY <2>1, <2>2, ServiceElsewhere DEF Effect, TypeOK
<1>q. QED BY <1>1, <1>2, StepsActive

\* Who has left a save behind is over, and has nothing more to delete.
LEMMA LeftGrows ==
    ASSUME TypeOK, NEW j \in Jobs, JobStep(j), NEW k \in Jobs
    PROVE  LeftBy(Save(k)) \subseteq LeftBy(Save(k))'
<1>1. \A i \in Jobs : Save(i)' = Save(i)
  BY OwnReq DEF Save
<1>2. ASSUME NEW i \in Jobs, pc[i] = "done", ~Heard(i, Ready("delete"))
      PROVE  pc'[i] = "done" /\ ~Heard(i, Ready("delete"))'
  <2>1. i # j
    BY <1>2, StepsActive DEF Receive, At, Active
  <2>2. pc'[i] = pc[i] /\ said'[i] = said[i]
    BY <2>1, OthersKeep
  <2>q. QED BY <1>2, <2>2 DEF Heard
<1>3. \A i \in Jobs : i \in LeftBy(Save(k)) => i \in LeftBy(Save(k))'
  BY <1>1, <1>2, JobsAssumption DEF LeftBy, Ended, At
<1>4. NoJob \in LeftBy(Save(k))' /\ LeftBy(Save(k)) \subseteq {NoJob} \cup Jobs
  BY DEF LeftBy
<1>q. QED BY <1>3, <1>4

LEMMA MadeWider ==
    ASSUME NEW left, NEW wider, left \subseteq wider, NEW j, NEW zip, NEW b, NEW image,
           MadeFrom(left, j, zip, b, image)
    PROVE  MadeFrom(wider, j, zip, b, image)
  BY DEF MadeFrom

\* What the generator's CREATE2 opens was left by nobody but the user and jobs that
\* are over: every job that has written in it has come over its connection.
LEMMA FoundLeft ==
    ASSUME TypeOK, Inv, Turns, Apart, NEW j \in Jobs, pc[j] = "gMount",
           NEW k \in Jobs, Wrote(k, Save(j))
    PROVE  k \in LeftBy(Save(j))
<1>1. Save(j) \in Saves /\ JobInv(j) /\ JobInv(k)
  BY Unmoved DEF Inv
<1>2. Save(k) = Save(j)
  BY <1>1 DEF Inv, OwnSaveOnly
<1>3. k # j
  BY <1>1 DEF JobInv, Early
<1>4. ~Active(k)
  BY <1>2, <1>3 DEF Apart, Turns, Active
<1>5. pc[k] = "done"
  BY <1>1, <1>2, <1>4 DEF JobInv, Early, Active
<1>6. ~Heard(k, Ready("delete"))
  BY <1>1, <1>2 DEF JobInv, Deleted
<1>q. QED BY <1>2, <1>5, <1>6 DEF LeftBy, Ended, At

LEMMA GenMounted ==
    ASSUME TypeOK, Inv, Turns, Apart, NEW j \in Jobs, pc[j] = "gMount",
           MountSave(j, Save(j), "create2")
    PROVE  MadeFrom(LeftBy(Save(j)), j, req[j].zip, bin'[Save(j)], img'[Save(j)])
<1>1. Save(j) \in Saves
  BY Unmoved
<1>2. CASE CreateSave(j, Save(j))
  BY <1>1, <1>2 DEF CreateSave, MadeFrom, Blank, TypeOK, SaveTypeOK, Patches
<1>3. CASE OpenSave(j, Save(j))
  <2> DEFINE b == bin[Save(j)]
             i == img[Save(j)]
  <2>1. b[2] \in Owner /\ i.base[2] \in Owner /\ i.by["files"] \in Owner
    BY <1>1 DEF TypeOK, SaveTypeOK, Sources, Images, Patches
  <2>2. \A k \in Jobs : b[2] = k \/ i.base[2] = k \/ i.by["files"] = k => Wrote(k, Save(j))
    BY DEF Wrote, Patches
  <2>3. NoJob \in LeftBy(Save(j)) /\ \A k \in Jobs : Wrote(k, Save(j)) => k \in LeftBy(Save(j))
    BY FoundLeft DEF LeftBy
  <2>4. b[2] \in LeftBy(Save(j)) /\ i.base[2] \in LeftBy(Save(j))
        /\ i.by["files"] \in LeftBy(Save(j))
    BY <2>1, <2>2, <2>3 DEF Owner
  <2>5. bin'[Save(j)] = b /\ img'[Save(j)] = i
    BY <1>3 DEF OpenSave
  <2>q. QED BY <2>4, <2>5 DEF MadeFrom
<1>q. QED BY <1>2, <1>3 DEF MountSave

\* A zip's bytes are named the same in every state.
LEMMA Zippeds == \A j \in Jobs : /\ Zipped(j)' = Zipped(j)
                                 /\ Blank(Zipped(j))' = Blank(Zipped(j))
  BY DEF Zipped, Blank

LEMMA ContentOther ==
    ASSUME TypeOK, Turns, Apart, NEW j \in Jobs, JobStep(j),
           NEW k \in Jobs \ {j}, Content(k)
    PROVE  Content(k)'
<1>1. /\ pc'[k] = pc[k] /\ temp'[k] = temp[k] /\ got'[k] = got[k]
      /\ modified'[k] = modified[k] /\ said'[k] = said[k] /\ req' = req
  BY OthersKeep
<1>2. Cmd(k)' = Cmd(k) /\ Save(k)' = Save(k) /\ req'[k] = req[k]
  BY <1>1 DEF Cmd, Save
<1>3. (Told(k)' <=> Told(k)) /\ \A x : Heard(k, x)' <=> Heard(k, x)
  BY <1>1 DEF Told, Heard
<1>4. CASE Active(k)
  <2>1. /\ Save(k) \in known' <=> Save(k) \in known
        /\ bin'[Save(k)] = bin[Save(k)] /\ img'[Save(k)] = img[Save(k)]
        /\ mount'[Save(k)] = mount[Save(k)]
    BY <1>4, Untouched
  <2>2. Mounted(k)' <=> Mounted(k)
    BY <1>2, <2>1 DEF Mounted
  <2>m. /\ Made(k, bin[Save(k)], img[Save(k)]) => Made(k, bin[Save(k)], img[Save(k)])'
        /\ Made(k, temp[k].bin, temp[k].img) => Made(k, temp[k].bin, temp[k].img)'
        /\ Made(k, got[k].bin, got[k].img) => Made(k, got[k].bin, got[k].img)'
    BY <1>1, <1>2, <2>1, LeftGrows, MadeWider DEF Made
  <2>p. GenPatched(k) => GenPatched(k)'
    BY <1>1, <1>2, <1>3, <2>1 DEF GenPatched, Patched, PatchedBefore
  <2>3. GenContent(k) => GenContent(k)'
    BY <1>1, <1>2, <1>3, <2>1, <2>m, <2>p DEF GenContent, GenMade
  <2>4. ExtractContent(k) => ExtractContent(k)'
    BY <1>1, <1>2, <1>3, <2>1, <2>2, Zippeds DEF ExtractContent
  <2>5. ResignContent(k) => ResignContent(k)'
    BY <1>1, <1>2, <1>3, <2>1, Zippeds DEF ResignContent, Own
  <2>q. QED BY <1>1, <1>2, <2>1, <2>3, <2>4, <2>5 DEF Content
<1>5. CASE ~Active(k)
  <2>1. pc[k] \in {"idle", "done"}
    BY <1>5 DEF Active
  <2>2. Made(k, got[k].bin, got[k].img) => Made(k, got[k].bin, got[k].img)'
    BY <1>1, <1>2, LeftGrows, MadeWider DEF Made
  <2>3. GenContent(k) => GenContent(k)'
    BY <1>1, <1>2, <1>3, <2>1, <2>2
       DEF GenContent, GenPatched, GenMade, Patched, PatchedBefore, Patches
  <2>4. ExtractContent(k) => ExtractContent(k)'
    BY <1>1, <1>2, <1>3, <2>1, Zippeds DEF ExtractContent
  <2>5. ResignContent(k) => ResignContent(k)'
    BY <1>1, <1>2, <1>3, <2>1, Zippeds DEF ResignContent, Own
  <2>q. QED BY <1>1, <1>2, <2>1, <2>3, <2>4, <2>5 DEF Content
<1>q. QED BY <1>4, <1>5

-----------------------------------------------------------------------------
(* The job's own step, one case for each action of each command.            *)

\* What the cases of the three commands have in common.
LEMMA OwnStep ==
    ASSUME TypeOK, NEW j \in Jobs, JobStep(j)
    PROVE  /\ Cmd(j)' = Cmd(j) /\ Save(j)' = Save(j) /\ req' = req
           /\ Save(j) \in Saves
           /\ \A l : Goto(j, l) => pc'[j] = l
           /\ Told(j) => Told(j)'
           /\ Silent => (Told(j)' <=> Told(j))
           /\ \A topic \in Topics : Say(j, << <<topic, FALSE>> >>) => Told(j)'
<1>1. Effect(j) /\ Save(j) \in Saves
  BY JobStepEffect, Unmoved
<1>2. Told(j) => Told(j)'
  BY <1>1, ToldStays DEF Effect, Speaks
<1>3. ASSUME NEW topic \in Topics, Say(j, << <<topic, FALSE>> >>) PROVE Told(j)'
  <2> DEFINE x == <<topic, FALSE>>
  <2>1. x \in Topics \X BOOLEAN /\ ~x[2] /\ Say(j, <<x>>)
    BY <1>3
  <2> HIDE DEF x
  <2>2. <<x>> \in Statuses /\ 1 \in 1 .. Len(<<x>>) /\ ~<<x>>[1][2]
    BY <2>1, StatusOne
  <2>q. QED BY <2>1, <2>2, ToldStays
<1>4. \A l : Goto(j, l) => pc'[j] = l
  BY DEF Goto, TypeOK
<1>5. Silent => (Told(j)' <=> Told(j))
  BY DEF Silent, Told
<1>q. QED BY <1>1, <1>2, <1>3, <1>4, <1>5 DEF Effect, Cmd, Save

\* A transfer hands over the zip, or tells that it does not.
LEMMA SendGives ==
    ASSUME TypeOK, NEW j \in Jobs, Send(j)
    PROVE  /\ pc[j] = "send" /\ UNCHANGED svars
           /\ \/ pc'[j] = AfterSend(j, TRUE) /\ got'[j] = temp[j]
              \/ pc'[j] = AfterSend(j, FALSE) /\ Told(j)'
<1>1. \A n \in 1 .. 3 :
          Say(j, [i \in 1 .. n |-> <<TransferTopics[i], i < n>>]) => Told(j)'
  BY TransferTold
<1>q. QED BY <1>1 DEF Send, Goto, At, TypeOK

\* The order of the generator's patches.
LEMMA NextPatches ==
    ASSUME NEW j \in Jobs, NEW p \in Patches
    PROVE  \/ p = "account" /\ NextPatch(j, p) = "title"
           \/ p = "title" /\ NextPatch(j, p) = "params"
           \/ p = "params" /\ req[j].zip /\ NextPatch(j, p) = "files"
           \/ p = "params" /\ ~req[j].zip /\ NextPatch(j, p) = "gUmount"
           \/ p = "files" /\ NextPatch(j, p) = "gUmount"
<1>1. p \in {"account", "title", "params", "files"}
  BY DEF Patches
<1>q. QED BY <1>1 DEF NextPatch

\* The generator goes on from its unmount, or has told why it does not.
LEMMA GenUmounted ==
    ASSUME TypeOK, NEW j \in Jobs, GenUmount(j)
    PROVE  /\ pc[j] = "gUmount"
           /\ \/ pc'[j] = "zipBin" /\ modified[j] /\ UmountSave(j, Save(j))
              \/ pc'[j] \in {"del", "done"} /\ Told(j)'
<1>1. /\ \A l : Goto(j, l) => pc'[j] = l
      /\ \A topic \in Topics : Say(j, << <<topic, FALSE>> >>) => Told(j)'
  BY OwnStep DEF JobStep, Step
<1>2. pc[j] = "gUmount" /\ modified[j] \in BOOLEAN
  BY DEF GenUmount, At, TypeOK
<1>3. CASE /\ UmountSave(j, Save(j))
           /\ Say(j, << <<"umount", TRUE>>, <<"modify", modified[j]>> >>)
           /\ pc'[j] = IF modified[j] THEN "zipBin" ELSE "del"
  <2>1. CASE modified[j]
    BY <1>2, <1>3, <2>1
  <2>2. CASE ~modified[j]
    <3> DEFINE st == << <<"umount", TRUE>>, <<"modify", modified[j]>> >>
    <3>1. st \in Statuses /\ Len(st) = 2 /\ ~st[2][2] /\ Say(j, st)
      BY <1>2, <1>3, <2>2, StatusPairs DEF Topics
    <3> HIDE DEF st
    <3>2. 2 \in 1 .. Len(st)
      BY <3>1
    <3>3. Told(j)'
      BY <3>1, <3>2, ToldStays
    <3>q. QED BY <1>2, <1>3, <2>2, <3>3
  <2>q. QED BY <2>1, <2>2
<1>4. CASE pc'[j] = "done" /\ Say(j, << <<"umount", FALSE>> >>)
  BY <1>1, <1>2, <1>4 DEF Topics
<1>q. QED BY <1>1, <1>3, <1>4 DEF GenUmount, Ready, Failed

LEMMA GenPatchedOwn ==
    ASSUME TypeOK, ScriptInv, NEW j \in Jobs, JobStep(j), Cmd(j) = "gen", GenPatched(j)
    PROVE  GenPatched(j)'
<1>1. /\ Save(j)' = Save(j) /\ req' = req /\ Save(j) \in Saves
      /\ \A l : Goto(j, l) => pc'[j] = l
      /\ Told(j) => Told(j)'
      /\ \A topic \in Topics : Say(j, << <<topic, FALSE>> >>) => Told(j)'
  BY OwnStep
<1>2. pc[j] \in LabelsOf("gen")
  BY DEF ScriptInv, OwnLabels
<1>3. UNCHANGED svars => img'[Save(j)] = img[Save(j)]
  BY DEF svars
<1>4. temp \in [Jobs -> Archives] /\ modified \in [Jobs -> BOOLEAN]
  BY DEF TypeOK
<1>5. \A i : Patched(j, i)' <=> \A p \in Patches : (p = "files" => req[j].zip) => i'.by[p] = j
  BY <1>1 DEF Patched
<1> USE <1>1 DEF GenPatched, At, Topics, Failed, Patches, PatchedBefore
<1>a. CASE Receive(j) \/ Accept(j) \/ Reject(j)
  BY <1>a DEF Receive, Accept, Reject
<1>b. CASE GenMount(j)
  BY <1>b DEF GenMount
<1>c. ASSUME NEW p \in Patches, GenPatch(j, p) PROVE GenPatched(j)'
  <2>1. pc[j] = p /\ ~modified[j] /\ \A q \in PatchedBefore(p) : img[Save(j)].by[q] = j
    BY <1>c DEF GenPatch
  <2>2. CASE /\ PatchImage(j, Save(j), p) /\ pc'[j] = NextPatch(j, p)
             /\ modified'[j] = (NextPatch(j, p) = "gUmount")
    <3>1. \A q \in PatchedBefore(p) \cup {p} : img'[Save(j)].by[q] = j
      BY <2>1, <2>2 DEF PatchImage, TypeOK, SaveTypeOK, Images
    <3>2. p = "files" => req[j].zip
      BY <2>1
    <3>n. pc'[j] = NextPatch(j, p)
      BY <2>2
    <3>3. CASE pc'[j] # "gUmount"
      <4>1. \/ p = "account" /\ pc'[j] = "title"
            \/ p = "title" /\ pc'[j] = "params"
            \/ p = "params" /\ pc'[j] = "files" /\ req[j].zip
        BY <3>n, <3>3, NextPatches
      <4>m. ~modified'[j]
        BY <2>2, <3>3, Zenon
      <4>2. PatchedBefore(pc'[j]) \subseteq PatchedBefore(p) \cup {p}
        BY <4>1
      <4>3. \A q \in PatchedBefore(pc'[j]) : img'[Save(j)].by[q] = j
        BY <3>1, <4>2
      <4>q. QED BY <4>1, <4>3, <4>m
    <3>4. CASE pc'[j] = "gUmount"
      <4>1. (p = "params" /\ ~req[j].zip) \/ p = "files"
        BY <3>n, <3>4, NextPatches
      <4>2. Patched(j, img[Save(j)])'
        BY <3>1, <4>1 DEF Patched
      <4>q. QED BY <3>4, <4>2
    <3>q. QED BY <3>3, <3>4
  <2>3. CASE pc'[j] = "gUmount" /\ modified' = modified
    BY <2>1, <2>3
  <2>q. QED BY <1>c, <1>4, <2>2, <2>3 DEF GenPatch, AfterPatch
<1>d. CASE GenUmount(j)
  BY <1>d, GenUmounted DEF UmountSave, Patched
<1>e. CASE ZipBin(j)
  BY <1>e, <1>3 DEF ZipBin, ZipFails, Patched
<1>f. CASE ZipImg(j)
  <2>1. pc[j] = "zipImg" /\ img'[Save(j)] = img[Save(j)]
    BY <1>f, <1>3 DEF ZipImg
  <2>2. CASE temp'[j].img = img[Save(j)] /\ pc'[j] = "send"
    BY <2>1, <2>2 DEF Patched
  <2>3. CASE pc'[j] = "done" /\ Say(j, << <<"zip", FALSE>> >>)
    BY <2>3
  <2>q. QED BY <1>f, <1>4, <2>2, <2>3 DEF ZipImg, ZipFails, Archive
<1>g. CASE Send(j)
  <2>1. CASE pc'[j] = AfterSend(j, TRUE) /\ got'[j] = temp[j] /\ pc[j] = "send"
    BY <2>1 DEF AfterSend, Patched
  <2>2. CASE pc'[j] = AfterSend(j, FALSE) /\ Told(j)'
    BY <2>2 DEF AfterSend
  <2>q. QED BY <1>g, <2>1, <2>2, SendGives
<1>h. CASE Del(j)
  <2>1. pc[j] = "del" /\ pc'[j] = "done" /\ got' = got
    BY <1>h DEF Del
  <2>q. QED BY <2>1 DEF Patched
<1>q. QED
  <2>1. pc[j] \notin {"tMount", "tClean", "tUmount", "unzipBin", "unzipImg", "xClean",
                      "rMount", "rClean", "dump", "unlink", "rUmount"}
    BY <1>2 DEF LabelsOf
  <2>2. ~(TempMount(j) \/ TempUmount(j) \/ UmountBusy(j) \/ Clean(j) \/ UnzipBin(j)
          \/ UnzipImg(j) \/ RealMount(j) \/ Dump(j) \/ RealUmount(j) \/ Unlink(j))
    BY <2>1 DEF TempMount, TempUmount, UmountBusy, Clean, UnzipBin, UnzipImg, RealMount,
                Dump, RealUmount, Unlink
  <2>3. \A p \in {"account", "title"} : ~ResignPatch(j, p)
    BY DEF ResignPatch
  <2>q. QED
    BY <1>a, <1>b, <1>c, <1>d, <1>e, <1>f, <1>g, <1>h, <2>2, <2>3 DEF JobStep, Step

LEMMA GenMadeOwn ==
    ASSUME TypeOK, Inv, Turns, Apart, ScriptInv, NEW j \in Jobs, JobStep(j),
           Cmd(j) = "gen", GenContent(j)
    PROVE  GenMade(j)'
<1>1. /\ Save(j)' = Save(j) /\ req' = req /\ Save(j) \in Saves
      /\ \A l : Goto(j, l) => pc'[j] = l
      /\ Told(j) => Told(j)'
      /\ \A topic \in Topics : Say(j, << <<topic, FALSE>> >>) => Told(j)'
  BY OwnStep
<1>2. pc[j] \in LabelsOf("gen")
  BY DEF ScriptInv, OwnLabels
<1>3. UNCHANGED svars => img' = img /\ bin' = bin
  BY DEF svars
<1>4. temp \in [Jobs -> Archives] /\ img \in [Saves -> Images]
  BY DEF TypeOK, SaveTypeOK
<1> DEFINE L == LeftBy(Save(j))
           zip == req[j].zip
<1>5. /\ Made(j, bin[Save(j)], img[Save(j)])'
             <=> MadeFrom(L', j, zip, bin'[Save(j)], img'[Save(j)])
      /\ Made(j, temp[j].bin, temp[j].img)'
             <=> MadeFrom(L', j, zip, temp'[j].bin, temp'[j].img)
      /\ Made(j, got[j].bin, got[j].img)'
             <=> MadeFrom(L', j, zip, got'[j].bin, got'[j].img)
  BY <1>1 DEF Made
<1>6. /\ Made(j, bin[Save(j)], img[Save(j)]) => MadeFrom(L', j, zip, bin[Save(j)], img[Save(j)])
      /\ Made(j, temp[j].bin, temp[j].img) => MadeFrom(L', j, zip, temp[j].bin, temp[j].img)
      /\ Made(j, got[j].bin, got[j].img) => MadeFrom(L', j, zip, got[j].bin, got[j].img)
  BY LeftGrows, MadeWider DEF Made
<1>7. GenMade(j) /\ (pc[j] = "files" => zip)
  BY DEF GenContent, GenPatched
<1>8. MountSave(j, Save(j), "create2") /\ pc[j] = "gMount"
          => MadeFrom(L', j, zip, bin'[Save(j)], img'[Save(j)])
  BY LeftGrows, GenMounted, MadeWider
<1> HIDE DEF L, zip
<1> USE <1>1, <1>5, <1>6, <1>7 DEF GenMade, At, Topics, Failed, Patches
<1>a. CASE Receive(j) \/ Accept(j) \/ Reject(j)
  BY <1>a DEF Receive, Accept, Reject
<1>b. CASE GenMount(j)
  BY <1>b, <1>8 DEF GenMount
<1>c. ASSUME NEW p \in Patches, GenPatch(j, p) PROVE GenMade(j)'
  <2>1. pc[j] = p /\ pc'[j] \in Patches \cup {"gUmount"}
    BY <1>c DEF GenPatch, AfterPatch, NextPatch
  <2>2. /\ bin' = bin /\ img'[Save(j)].base = img[Save(j)].base
        /\ p # "files" => img'[Save(j)].by["files"] = img[Save(j)].by["files"]
    <3>1. UNCHANGED svars \/ PatchImage(j, Save(j), p)
      BY <1>c DEF GenPatch
    <3>2. PatchImage(j, Save(j), p) => img'[Save(j)] = [img[Save(j)] EXCEPT !.by[p] = j]
                                       /\ bin' = bin
      BY <1>4 DEF PatchImage
    <3>3. img[Save(j)] \in Images
      BY <1>4
    <3>q. QED BY <1>3, <3>1, <3>2, <3>3 DEF Images
  <2>3. MadeFrom(L', j, zip, bin'[Save(j)], img'[Save(j)])
    BY <2>1, <2>2 DEF MadeFrom
  <2>q. QED BY <2>1, <2>3
<1>d. CASE GenUmount(j)
  BY <1>d, GenUmounted DEF UmountSave
<1>e. CASE ZipBin(j)
  <2>1. pc[j] = "zipBin" /\ img' = img /\ bin' = bin
    BY <1>e, <1>3 DEF ZipBin
  <2>2. \/ pc'[j] = "zipImg" /\ temp'[j].bin = bin[Save(j)]
        \/ pc'[j] = "done" /\ Say(j, << <<"zip", FALSE>> >>)
    BY <1>e, <1>4 DEF ZipBin, ZipFails, Archive
  <2>q. QED BY <2>1, <2>2
<1>f. CASE ZipImg(j)
  <2>1. pc[j] = "zipImg" /\ img' = img /\ bin' = bin
    BY <1>f, <1>3 DEF ZipImg
  <2>2. \/ pc'[j] = "send" /\ temp'[j].bin = temp[j].bin /\ temp'[j].img = img[Save(j)]
        \/ pc'[j] = "done" /\ Say(j, << <<"zip", FALSE>> >>)
    BY <1>f, <1>4 DEF ZipImg, ZipFails, Archive
  <2>q. QED BY <2>1, <2>2
<1>g. CASE Send(j)
  <2>1. CASE pc'[j] = AfterSend(j, TRUE) /\ got'[j] = temp[j] /\ pc[j] = "send"
    BY <2>1 DEF AfterSend
  <2>2. CASE pc'[j] = AfterSend(j, FALSE) /\ Told(j)'
    BY <2>2 DEF AfterSend
  <2>q. QED BY <1>g, <2>1, <2>2, SendGives
<1>h. CASE Del(j)
  <2>1. pc[j] = "del" /\ pc'[j] = "done" /\ got' = got
    BY <1>h DEF Del
  <2>q. QED BY <2>1
<1>q. QED
  <2>1. pc[j] \notin {"tMount", "tClean", "tUmount", "unzipBin", "unzipImg", "xClean",
                      "rMount", "rClean", "dump", "unlink", "rUmount"}
    BY <1>2 DEF LabelsOf
  <2>2. ~(TempMount(j) \/ TempUmount(j) \/ UmountBusy(j) \/ Clean(j) \/ UnzipBin(j)
          \/ UnzipImg(j) \/ RealMount(j) \/ Dump(j) \/ RealUmount(j) \/ Unlink(j))
    BY <2>1 DEF TempMount, TempUmount, UmountBusy, Clean, UnzipBin, UnzipImg, RealMount,
                Dump, RealUmount, Unlink
  <2>3. \A p \in {"account", "title"} : ~ResignPatch(j, p)
    BY DEF ResignPatch
  <2>q. QED
    BY <1>a, <1>b, <1>c, <1>d, <1>e, <1>f, <1>g, <1>h, <2>2, <2>3 DEF JobStep, Step

LEMMA ExtractOwn ==
    ASSUME TypeOK, Inv, ScriptInv, NEW j \in Jobs, JobStep(j), Cmd(j) = "extract",
           ExtractContent(j)
    PROVE  ExtractContent(j)'
<1>1. /\ Cmd(j)' = Cmd(j) /\ Save(j)' = Save(j) /\ Save(j) \in Saves
      /\ \A l : Goto(j, l) => pc'[j] = l
      /\ Told(j) => Told(j)'
      /\ Silent => (Told(j)' <=> Told(j))
      /\ \A topic \in Topics : Say(j, << <<topic, FALSE>> >>) => Told(j)'
  BY OwnStep
<1>2. pc[j] \in LabelsOf("extract")
  BY DEF ScriptInv, OwnLabels
<1>3. UNCHANGED svars =>
          /\ known' = known /\ img' = img
          /\ Mounted(j)' <=> Mounted(j)
  BY <1>1 DEF svars, Mounted
<1>4. pc[j] # "done" => ~Heard(j, Ready("delete"))
  BY DEF Inv, JobInv, Deleted
<1>5. Silent => (Heard(j, Ready("delete"))' <=> Heard(j, Ready("delete")))
  BY DEF Silent, Heard, Ready
<1>6. temp \in [Jobs -> Archives] /\ img \in [Saves -> Images]
  BY DEF TypeOK, SaveTypeOK
<1>7. Zipped(j)' = Zipped(j) /\ Blank(Zipped(j))' = Blank(Zipped(j))
  BY Zippeds
<1> USE <1>1, <1>3, <1>7 DEF ExtractContent, At, Topics, Failed
<1>a. CASE Receive(j) \/ Accept(j) \/ Reject(j)
  BY <1>a DEF Receive, Accept, Reject
<1>b. CASE TempMount(j)
  <2>1. MountSave(j, Save(j), "create2") => Save(j) \in known'
    BY DEF MountSave, CreateSave, OpenSave
  <2>q. QED BY <1>b, <2>1 DEF TempMount
<1>c. CASE Clean(j)
  <2>1. CASE pc'[j] = "done" /\ Silent /\ pc[j] # "done"
    BY <1>4, <1>5, <2>1
  <2>2. CASE pc'[j] = "done" /\ Say(j, << <<"unzip", FALSE>> >>)
    BY <2>2
  <2>q. QED BY <1>c, <2>1, <2>2 DEF Clean
<1>d. CASE TempUmount(j)
  <2>1. /\ pc[j] = "tUmount" /\ Save(j) \in known
        /\ UmountSave(j, Save(j)) => known' = known
    BY <1>d DEF TempUmount, UmountSave
  <2>2. \/ pc'[j] = "unzipBin" /\ UmountSave(j, Save(j))
        \/ pc'[j] = "done" /\ Say(j, << <<"umount", FALSE>> >>)
    BY <1>d DEF TempUmount, Umount
  <2>q. QED BY <2>1, <2>2
<1>e. CASE UmountBusy(j)
  BY <1>e DEF UmountBusy
<1>f. CASE UnzipBin(j)
  <2>1. /\ pc[j] = "unzipBin" /\ pc'[j] \in {"unzipImg", "xClean"}
        /\ known' = known
    BY <1>f DEF UnzipBin, UnzipFails, WriteBin
  <2>q. QED BY <2>1
<1>g. CASE UnzipImg(j)
  <2>1. pc[j] = "unzipImg" /\ known' = known
    BY <1>g DEF UnzipImg, WriteImage
  <2>2. \/ pc'[j] = "rMount" /\ WriteImage(Save(j), <<"zip", j>>)
        \/ pc'[j] = "xClean"
    BY <1>g DEF UnzipImg, UnzipFails
  <2>3. WriteImage(Save(j), <<"zip", j>>) => img'[Save(j)] = Blank(Zipped(j))
    BY <1>6 DEF WriteImage, Zipped
  <2>q. QED BY <2>1, <2>2, <2>3
<1>h. CASE RealMount(j)
  <2>1. pc[j] = "rMount" /\ pc'[j] = "dump"
    BY <1>h DEF RealMount
  <2>2. known' = known /\ img' = img
    BY <1>h, <2>1 DEF RealMount, MountSave, CreateSave, OpenSave
  <2>q. QED BY <2>1, <2>2
<1>i. CASE Dump(j)
  <2>1. pc[j] = "dump" /\ UNCHANGED svars
    BY <1>i DEF Dump
  <2>2. \/ /\ pc'[j] = "send"
           /\ temp'[j].img = IF Mounted(j) THEN img[Save(j)] ELSE Blank(Sandbox)
        \/ pc'[j] = "unlink" /\ Say(j, << <<"zip", FALSE>> >>)
    BY <1>i, <1>6 DEF Dump, Archive
  <2>q. QED BY <2>1, <2>2
<1>k. CASE RealUmount(j)
  <2>1. pc[j] = "rUmount" /\ got' = got
    BY <1>k DEF RealUmount, Umount
  <2>2. \/ pc'[j] = "del"
        \/ pc'[j] = "done" /\ Say(j, << <<"umount", FALSE>> >>)
    BY <1>k DEF RealUmount, Umount
  <2>q. QED BY <2>1, <2>2
<1>l. CASE Send(j)
  <2>1. pc[j] = "send" /\ UNCHANGED svars
    BY <1>l, SendGives
  <2>2. CASE pc'[j] = AfterSend(j, TRUE) /\ got'[j] = temp[j]
    BY <2>1, <2>2 DEF AfterSend
  <2>3. CASE pc'[j] = AfterSend(j, FALSE) /\ Told(j)'
    BY <2>3 DEF AfterSend
  <2>q. QED BY <1>l, <2>2, <2>3, SendGives
<1>m. CASE Unlink(j)
  <2>1. /\ pc[j] = "unlink" /\ UNCHANGED svars /\ got' = got /\ Silent
        /\ pc'[j] = IF Mounted(j) THEN "rUmount" ELSE "rClean"
    BY <1>m DEF Unlink, AfterUnlink, AfterDump
  <2>q. QED BY <2>1
<1>n. CASE Del(j)
  <2>1. pc[j] = "del" /\ pc'[j] = "done" /\ got' = got
    BY <1>n DEF Del
  <2>q. QED BY <2>1
<1>q. QED
  <2>1. pc[j] \notin {"gMount", "account", "title", "params", "files", "gUmount",
                      "zipBin", "zipImg"}
    BY <1>2 DEF LabelsOf
  <2>2. ~(GenMount(j) \/ GenUmount(j) \/ ZipBin(j) \/ ZipImg(j))
    BY <2>1 DEF GenMount, GenUmount, ZipBin, ZipImg
  <2>3. /\ \A p \in Patches : ~GenPatch(j, p)
        /\ \A p \in {"account", "title"} : ~ResignPatch(j, p)
    BY DEF ResignPatch, GenPatch
  <2>q. QED
    BY <1>a, <1>b, <1>c, <1>d, <1>e, <1>f, <1>g, <1>h, <1>i, <1>k, <1>l, <1>m, <1>n,
       <2>2, <2>3 DEF JobStep, Step

LEMMA ResignOwn ==
    ASSUME TypeOK, ScriptInv, NEW j \in Jobs, JobStep(j), Cmd(j) = "resign",
           ResignContent(j)
    PROVE  ResignContent(j)'
<1>1. /\ Cmd(j)' = Cmd(j) /\ Save(j)' = Save(j) /\ Save(j) \in Saves
      /\ \A l : Goto(j, l) => pc'[j] = l
      /\ Told(j) => Told(j)'
      /\ \A topic \in Topics : Say(j, << <<topic, FALSE>> >>) => Told(j)'
  BY OwnStep
<1>2. pc[j] \in LabelsOf("resign")
  BY DEF ScriptInv, OwnLabels
<1>3. UNCHANGED svars => bin' = bin /\ img' = img
  BY DEF svars
<1>4. pc[j] \in {"tClean", "rClean"} => Told(j)
  BY DEF ScriptInv, OnScript, SentSandbox
<1>6. /\ temp \in [Jobs -> Archives] /\ img \in [Saves -> Images]
      /\ bin \in [Saves -> Sources]
  BY DEF TypeOK, SaveTypeOK
<1>7. Zipped(j)' = Zipped(j)
  BY Zippeds
<1>8. /\ img'[Save(j)] = img[Save(j)] => (Own(j, img[Save(j)])' <=> Own(j, img[Save(j)]))
      /\ temp'[j].img = img[Save(j)] => (Own(j, temp[j].img)' <=> Own(j, img[Save(j)]))
      /\ got'[j] = temp[j] => (Own(j, got[j].img)' <=> Own(j, temp[j].img))
      /\ got' = got => (Own(j, got[j].img)' <=> Own(j, got[j].img))
  BY <1>1, <1>7 DEF Own
<1> USE <1>1, <1>3, <1>7, <1>8 DEF ResignContent, At, Topics, Failed
<1>a. CASE Receive(j) \/ Accept(j) \/ Reject(j)
  BY <1>a DEF Receive, Accept, Reject
<1>b. CASE TempMount(j)
  BY <1>b DEF TempMount
<1>c. CASE Clean(j)
  <2>1. pc[j] \in {"tClean", "rClean"} => Told(j)'
    BY <1>4
  <2>2. pc[j] # "xClean"
    BY <1>2 DEF LabelsOf
  <2>q. QED BY <1>c, <2>1, <2>2 DEF Clean
<1>d. CASE TempUmount(j)
  BY <1>d DEF TempUmount, Umount
<1>e. CASE UmountBusy(j)
  BY <1>e DEF UmountBusy
<1>f. CASE UnzipBin(j)
  <2>1. \/ pc'[j] = "unzipImg" /\ WriteBin(Save(j), <<"zip", j>>)
        \/ pc'[j] = "del" /\ Say(j, << <<"unzip", FALSE>> >>)
    BY <1>f DEF UnzipBin, UnzipFails
  <2>2. WriteBin(Save(j), <<"zip", j>>) => bin'[Save(j)] = Zipped(j)
    BY <1>6 DEF WriteBin, Zipped
  <2>q. QED BY <2>1, <2>2
<1>g. CASE UnzipImg(j)
  <2>1. \/ pc'[j] = "rMount" /\ WriteImage(Save(j), <<"zip", j>>)
        \/ pc'[j] = "del" /\ Say(j, << <<"unzip", FALSE>> >>)
    BY <1>g DEF UnzipImg, UnzipFails
  <2>2. WriteImage(Save(j), <<"zip", j>>) => Own(j, img[Save(j)])' /\ bin' = bin
    BY <1>6 DEF WriteImage, Zipped, Blank, Own
  <2>3. pc[j] = "unzipImg"
    BY <1>g DEF UnzipImg
  <2>q. QED BY <2>1, <2>2, <2>3
<1>h. CASE RealMount(j)
  <2>1. pc[j] = "rMount"
    BY <1>h DEF RealMount
  <2>2. \/ pc'[j] = "account" /\ MountSave(j, Save(j), "open")
        \/ pc'[j] = "rClean"
    BY <1>h DEF RealMount
  <2>3. MountSave(j, Save(j), "open") => bin' = bin /\ img' = img
    BY DEF MountSave, OpenSave
  <2>q. QED BY <2>1, <2>2, <2>3
<1>i. ASSUME NEW p \in {"account", "title"}, ResignPatch(j, p) PROVE ResignContent(j)'
  <2>1. pc[j] = p /\ pc'[j] \in {"title", "rUmount"}
    BY <1>i DEF ResignPatch
  <2>2. CASE UNCHANGED svars
    BY <2>1, <2>2
  <2>3. CASE PatchImage(j, Save(j), p)
    <3>1. bin' = bin /\ (Own(j, img[Save(j)]) => Own(j, img[Save(j)])')
      BY <2>3, <1>6 DEF PatchImage, Images, Own
    <3>q. QED BY <2>1, <3>1
  <2>q. QED BY <1>i, <2>2, <2>3 DEF ResignPatch
<1>k. CASE RealUmount(j)
  <2>1. pc[j] = "rUmount" /\ (UmountSave(j, Save(j)) => bin' = bin /\ img' = img)
    BY <1>k DEF RealUmount, UmountSave
  <2>2. \/ pc'[j] = "zipBin" /\ UmountSave(j, Save(j))
        \/ pc'[j] = "del" /\ Say(j, << <<"umount", FALSE>> >>)
    BY <1>k DEF RealUmount, Umount
  <2>q. QED BY <2>1, <2>2
<1>l. CASE ZipBin(j)
  <2>1. pc[j] = "zipBin" /\ UNCHANGED svars
    BY <1>l DEF ZipBin
  <2>2. \/ pc'[j] = "zipImg" /\ temp'[j].bin = bin[Save(j)]
        \/ pc'[j] = "del" /\ Say(j, << <<"zip", FALSE>> >>)
    BY <1>l, <1>6 DEF ZipBin, ZipFails, Archive
  <2>q. QED BY <2>1, <2>2
<1>m. CASE ZipImg(j)
  <2>1. pc[j] = "zipImg" /\ UNCHANGED svars
    BY <1>m DEF ZipImg
  <2>2. \/ /\ pc'[j] = "send"
           /\ temp'[j].bin = temp[j].bin /\ temp'[j].img = img[Save(j)]
        \/ pc'[j] = "del" /\ Say(j, << <<"zip", FALSE>> >>)
    BY <1>m, <1>6 DEF ZipImg, ZipFails, Archive
  <2>q. QED BY <2>1, <2>2
<1>n. CASE Send(j)
  <2>1. pc[j] = "send"
    BY <1>n, SendGives
  <2>2. CASE pc'[j] = AfterSend(j, TRUE) /\ got'[j] = temp[j]
    BY <2>1, <2>2 DEF AfterSend
  <2>3. CASE pc'[j] = AfterSend(j, FALSE) /\ Told(j)'
    BY <2>3 DEF AfterSend
  <2>q. QED BY <1>n, <2>2, <2>3, SendGives
<1>o. CASE Unlink(j)
  <2>1. pc[j] = "unlink" /\ got' = got /\ pc'[j] = "del"
    BY <1>o DEF Unlink, AfterUnlink
  <2>q. QED BY <2>1
<1>p. CASE Del(j)
  <2>1. pc[j] = "del" /\ pc'[j] = "done" /\ got' = got
    BY <1>p DEF Del
  <2>q. QED BY <2>1
<1>q. QED
  <2>1. pc[j] \notin {"gMount", "params", "files", "gUmount", "dump"}
    BY <1>2 DEF LabelsOf
  <2>2. ~(GenMount(j) \/ GenUmount(j) \/ Dump(j))
    BY <2>1 DEF GenMount, GenUmount, Dump
  <2>3. \A p \in Patches : ~GenPatch(j, p)
    BY DEF GenPatch
  <2>q. QED
    BY <1>a, <1>b, <1>c, <1>d, <1>e, <1>f, <1>g, <1>h, <1>i, <1>k, <1>l, <1>m, <1>n,
       <1>o, <1>p, <2>2, <2>3 DEF JobStep, Step

\* The backing files are zipped after an unmount that succeeded.
LEMMA UnmountedOwn ==
    ASSUME TypeOK, NEW j \in Jobs, JobStep(j),
           pc[j] \in {"zipBin", "zipImg"} => mount[Save(j)] = NoJob
    PROVE  pc'[j] \in {"zipBin", "zipImg"} => mount'[Save(j)] = NoJob
<1>1. /\ Save(j) \in Saves /\ mount \in [Saves -> Owner]
      /\ \A l : Goto(j, l) => pc'[j] = l
  BY OwnStep DEF TypeOK, SaveTypeOK
<1>2. UmountSave(j, Save(j)) => mount'[Save(j)] = NoJob
  BY <1>1 DEF UmountSave
<1> USE <1>1
<1>a. CASE Receive(j) \/ Accept(j) \/ Reject(j)
  BY <1>a DEF Receive, Accept, Reject
<1>b. CASE GenMount(j) \/ \E p \in Patches : GenPatch(j, p)
  BY <1>b DEF GenMount, GenPatch, AfterPatch, NextPatch
<1>c. CASE GenUmount(j)
  BY <1>c, <1>2 DEF GenUmount
<1>d. CASE TempMount(j) \/ TempUmount(j) \/ Clean(j)
  BY <1>d DEF TempMount, TempUmount, Umount, Clean
<1>e. CASE UmountBusy(j)
  BY <1>e DEF UmountBusy
<1>f. CASE UnzipBin(j) \/ UnzipImg(j)
  BY <1>f DEF UnzipBin, UnzipImg, UnzipFails
<1>g. CASE RealMount(j) \/ \E p \in {"account", "title"} : ResignPatch(j, p)
  BY <1>g DEF RealMount, ResignPatch
<1>h. CASE RealUmount(j)
  BY <1>h, <1>2 DEF RealUmount, Umount
<1>i. CASE Dump(j) \/ Unlink(j) \/ Del(j)
  BY <1>i DEF Dump, Unlink, AfterUnlink, AfterDump, Del
<1>k. CASE ZipBin(j) \/ ZipImg(j)
  BY <1>k DEF ZipBin, ZipImg, ZipFails, At, svars
<1>l. CASE Send(j)
  BY <1>l, SendGives DEF AfterSend
<1>q. QED
  BY <1>a, <1>b, <1>c, <1>d, <1>e, <1>f, <1>g, <1>h, <1>i, <1>k, <1>l DEF JobStep, Step

-----------------------------------------------------------------------------
(* The invariant.                                                           *)

LEMMA ContentInit == Init => ContentInv
<1> SUFFICES ASSUME Init PROVE ContentInv
  OBVIOUS
<1>1. \A j \in Jobs : pc[j] = "idle" /\ ~modified[j]
  BY DEF Init
<1>2. Turns
  BY <1>1 DEF Turns, Active
<1>3. \A j \in Jobs : Content(j)
  BY <1>1 DEF Content, GenContent, GenPatched, GenMade, ExtractContent, ResignContent,
              PatchedBefore, Patches
<1>q. QED BY <1>2, <1>3 DEF ContentInv

LEMMA ContentStep ==
    ASSUME TypeOK, Inv, ScriptInv, ContentInv, [Next]_vars
    PROVE  ContentInv'
<1>1. CASE UNCHANGED vars
  <2>1. Apart' <=> Apart
    BY <1>1 DEF vars, jvars, Apart, Save
  <2>2. Turns'
    BY <1>1 DEF vars, jvars, Turns, Active, ContentInv
  <2>3. \A j \in Jobs : Zipped(j)' = Zipped(j) /\ Blank(Zipped(j))' = Blank(Zipped(j))
    BY Zippeds
  <2>4. ASSUME NEW j \in Jobs, Content(j) PROVE Content(j)'
    <3>1. Cmd(j)' = Cmd(j) /\ Save(j)' = Save(j) /\ (Mounted(j)' <=> Mounted(j))
      BY <1>1 DEF vars, svars, jvars, Cmd, Save, Mounted
    <3>2. (Told(j)' <=> Told(j)) /\ \A x : Heard(j, x)' <=> Heard(j, x)
      BY <1>1 DEF vars, jvars, Told, Heard
    <3>g. GenPatched(j) => GenPatched(j)'
      BY <1>1, <3>1, <3>2 DEF vars, svars, jvars, GenPatched, Patched, PatchedBefore
    <3>m. GenMade(j) => GenMade(j)'
      <4>1. LeftBy(Save(j))' = LeftBy(Save(j))
        BY <1>1 DEF vars, jvars, LeftBy, Save, Ended, At, Heard
      <4>q. QED BY <1>1, <3>1, <3>2, <4>1 DEF vars, svars, jvars, GenMade, Made
    <3>3. GenContent(j) => GenContent(j)'
      BY <3>g, <3>m DEF GenContent
    <3>4. ExtractContent(j) => ExtractContent(j)'
      BY <1>1, <2>3, <3>1, <3>2 DEF vars, svars, jvars, ExtractContent
    <3>5. ResignContent(j) => ResignContent(j)'
      BY <1>1, <2>3, <3>1, <3>2 DEF vars, svars, jvars, ResignContent, Own
    <3>q. QED BY <1>1, <2>4, <3>1, <3>3, <3>4, <3>5 DEF vars, svars, jvars, Content
  <2>q. QED BY <2>1, <2>2, <2>4 DEF ContentInv
<1>2. ASSUME NEW j \in Jobs, JobStep(j) PROVE ContentInv'
  <2>1. req' = req /\ Cmd(j)' = Cmd(j) /\ Save(j)' = Save(j)
    BY <1>2, OwnStep
  <2>2. Apart' <=> Apart
    BY <2>1 DEF Apart, Save
  <2>3. Turns'
    BY <1>2, TurnsStep DEF ContentInv
  <2>4. ASSUME Apart PROVE Content(j)'
    <3>1. Content(j)
      BY <2>4 DEF ContentInv
    <3>2. Cmd(j) = "gen" => GenContent(j)'
      BY <1>2, <2>4, <3>1, GenPatchedOwn, GenMadeOwn DEF Content, ContentInv, GenContent
    <3>3. Cmd(j) = "extract" => ExtractContent(j)'
      BY <1>2, <3>1, ExtractOwn DEF Content
    <3>4. Cmd(j) = "resign" => ResignContent(j)'
      BY <1>2, <3>1, ResignOwn DEF Content
    <3>5. pc'[j] \in {"zipBin", "zipImg"} => mount'[Save(j)] = NoJob
      BY <1>2, <3>1, UnmountedOwn DEF Content
    <3>q. QED BY <2>1, <3>2, <3>3, <3>4, <3>5 DEF Content
  <2>5. ASSUME Apart, NEW k \in Jobs \ {j} PROVE Content(k)'
    BY <1>2, <2>5, ContentOther DEF ContentInv
  <2>q. QED BY <2>2, <2>3, <2>4, <2>5 DEF ContentInv
<1>q. QED BY <1>1, <1>2 DEF Next, JobStep

\* The thread of a connection is inside one command at most; when commands on a
\* save come over one connection, each finds in the save what it put there.
THEOREM ContentInvariance == Spec => [](TypeOK /\ Inv /\ ScriptInv /\ ContentInv)
<1>1. Init => TypeOK /\ Inv /\ ScriptInv /\ ContentInv
  BY TypeInit, InvInit, ScriptInit, ContentInit
<1>2. TypeOK /\ Inv /\ ScriptInv /\ ContentInv /\ [Next]_vars
          => TypeOK' /\ Inv' /\ ScriptInv' /\ ContentInv'
  BY TypeStep, InvStep, ScriptStep, ContentStep
<1>q. QED BY <1>1, <1>2, PTL DEF Spec

\* When commands on a save come over one connection, what is delivered with all
\* READY is the client's own: to a generator a save of its own with its patches and
\* no others, or the patched save of the user or of a job that was over without
\* having deleted it; to the others their own zip with their own patches.
THEOREM OwnContentCorrect == Spec => [](Apart => OwnContent)
<1>1. TypeOK /\ Inv /\ ScriptInv /\ ContentInv => (Apart => OwnContent)
  <2> SUFFICES ASSUME TypeOK, ContentInv, Apart, NEW j \in Jobs, Succeeded(j)
               PROVE  CASE Cmd(j) = "gen" -> Generated(j) \/ TakenOver(j)
                        [] Cmd(j) = "extract" -> got[j].img = Blank(Zipped(j))
                        [] Cmd(j) = "resign" ->
                             got[j].bin = Zipped(j) /\ Own(j, got[j].img)
    BY DEF OwnContent, Zipped, Own
  <2>1. Heard(j, Ready("delete")) /\ pc[j] = "done" /\ Content(j)
    BY ScriptHeard DEF Succeeded, Ended, At, ContentInv
  <2>2. ~Told(j)
    <3>1. \A i \in DOMAIN Script(Cmd(j)) : Ready(Script(Cmd(j))[i])[2] = TRUE
      BY DEF Ready
    <3>2. said[j] \in Seq(Topics \X BOOLEAN)
      BY DEF TypeOK
    <3>3. \A i \in 1 .. Len(said[j]) : i \in DOMAIN said[j]
      BY <3>2
    <3>q. QED BY <3>1, <3>3 DEF Told, Succeeded
  <2>3. Cmd(j) \in Commands
    BY DEF TypeOK, Cmd
  <2>4. Cmd(j) = "gen" => Generated(j) \/ TakenOver(j)
    <3> SUFFICES ASSUME Cmd(j) = "gen" PROVE Generated(j) \/ TakenOver(j)
      OBVIOUS
    <3>1. Patched(j, got[j].img) /\ Made(j, got[j].bin, got[j].img)
      BY <2>1, <2>2 DEF Content, GenContent, GenPatched, GenMade
    <3>2. got[j].img \in Images
      BY ArchiveTypes DEF TypeOK
    <3>3. \A p \in Patches : Asked(j, p) \/ (p = "files" /\ ~req[j].zip)
      BY DEF Asked
    <3>4. \A p \in Patches : Asked(j, p) => got[j].img.by[p] = j
      BY <3>1 DEF Patched, Asked
    <3>5. CASE /\ got[j].bin = <<"new", j>> /\ got[j].img.base = <<"new", j>>
               /\ req[j].zip \/ got[j].img.by["files"] = NoJob
      <4>1. \A p \in Patches :
                got[j].img.by[p] = IF Asked(j, p) THEN j ELSE NoJob
        BY <3>3, <3>4, <3>5
      <4>2. got[j].img.by = [p \in Patches |-> IF Asked(j, p) THEN j ELSE NoJob]
        BY <3>2, <4>1 DEF Images
      <4>q. QED BY <3>2, <3>5, <4>2 DEF Generated, Images
    <3>6. CASE /\ got[j].bin[2] \in LeftBy(Save(j)) /\ got[j].img.base[2] \in LeftBy(Save(j))
               /\ req[j].zip \/ got[j].img.by["files"] \in LeftBy(Save(j))
      BY <3>3, <3>4, <3>6 DEF TakenOver
    <3>q. QED BY <3>1, <3>5, <3>6 DEF Made, MadeFrom
  <2>q. QED
    BY <2>1, <2>2, <2>3, <2>4 DEF Content, ExtractContent, ResignContent, Commands
<1>q. QED BY <1>1, ContentInvariance, PTL

\* The backing files of a save are not zipped while anybody has it mounted.
THEOREM ZipsUnmountedCorrect == Spec => [](Apart => ZipsUnmounted)
<1>1. ContentInv => (Apart => ZipsUnmounted)
  BY DEF ContentInv, Content, ZipsUnmounted
<1>q. QED BY <1>1, ContentInvariance, PTL

=============================================================================
