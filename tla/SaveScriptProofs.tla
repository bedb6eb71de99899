-------------------------- MODULE SaveScriptProofs --------------------------
(***************************************************************************)
(* Proofs about SaveJobs: what a client has been told, as a function of    *)
(* where the thread of its command is.                                     *)
(***************************************************************************)
EXTENDS SaveJobsProofs

\* The program points of each of the three handlers.
LabelsOf(cmd) ==
    CASE cmd = "gen" ->
           {"idle", "packet", "gMount", "account", "title", "params", "files",
            "gUmount", "zipBin", "zipImg", "send", "del", "done"}
      [] cmd = "extract" ->
           {"idle", "packet", "tMount", "tClean", "tUmount", "unzipBin", "unzipImg",
            "xClean", "rMount", "rClean", "dump", "send", "unlink", "rUmount",
            "del", "done"}
      [] cmd = "resign" ->
           {"idle", "packet", "tMount", "tClean", "tUmount", "unzipBin", "unzipImg",
            "rMount", "rClean", "account", "title", "rUmount", "zipBin", "zipImg",
            "send", "unlink", "del", "done"}

\* How much of the script a client has read as READY when the thread is at a
\* label, if nothing has failed.
Place(cmd, l) ==
    CASE l = "idle" -> 0
      [] l = "packet" -> 1
      [] l \in {"gMount", "tMount"} -> 2
      [] l = "tUmount" \/ (cmd = "gen" /\ l \in Patches \cup {"gUmount"}) -> 3
      [] l \in {"unzipBin", "unzipImg", "xClean"} -> 4
      [] l \in {"rMount", "dump"} \/ (cmd = "gen" /\ l \in {"zipBin", "zipImg"}) -> 5
      [] \/ cmd # "resign" /\ l = "send"
         \/ cmd = "resign" /\ l \in {"account", "title", "rUmount"} -> 6
      [] cmd = "resign" /\ l \in {"zipBin", "zipImg"} -> 7
      [] cmd = "resign" /\ l = "send" -> 8
      [] \/ cmd = "extract" /\ l \in {"unlink", "rUmount", "rClean"}
         \/ cmd = "gen" /\ l = "del" -> 9
      [] cmd = "extract" /\ l = "del" -> 10
      [] cmd = "resign" /\ l \in {"unlink", "del"} -> 11
      [] OTHER -> Len(Script(cmd))

\* The client of job j has read exactly the first n statuses, all READY.
ReadTo(j, n) ==
    /\ Len(said[j]) = n
    /\ \A i \in 1 .. n : said[j][i] = Ready(Script(Cmd(j))[i])

\* The dump that was zipped and sent is the sandbox's.
SentSandbox(j) == Cmd(j) = "extract" /\ got[j].img = Blank(Sandbox)

\* A job of which nothing has failed is at the place of its script that its
\* program point says; only an extraction that dumped the sandbox leaves it.
OnScript(j) ==
    /\ pc[j] # "tClean"
    /\ pc[j] = "rClean" => SentSandbox(j)
    /\ pc[j] = "done" => ReadTo(j, Len(Script(Cmd(j)))) \/ SentSandbox(j)
    /\ pc[j] \notin {"tClean", "rClean", "done"} => ReadTo(j, Place(Cmd(j), pc[j]))
    /\ Cmd(j) = "extract" /\ ~Mounted(j) =>
          /\ pc[j] = "send"   => temp[j].img = Blank(Sandbox)
          /\ pc[j] = "unlink" => SentSandbox(j)

OwnLabels == \A j \in Jobs : pc[j] \in LabelsOf(Cmd(j))

ScriptInv == OwnLabels /\ \A j \in Jobs : Told(j) \/ OnScript(j)

-----------------------------------------------------------------------------
(* Lemmas about the service, the statuses and the scripts.                  *)

\* Nobody takes a mount away from another job.
LEMMA ServiceKeeps ==
    ASSUME SaveTypeOK, NEW j \in Jobs, NEW s \in Saves, ServiceCall(j, s),
           NEW k \in Jobs \ {j}, NEW r \in Saves, mount[r] = k
    PROVE  mount'[r] = k
<1> USE JobsAssumption DEF SaveTypeOK, Owner
<1>1. CASE \E m \in Modes : MountSave(j, s, m)
  BY <1>1 DEF MountSave, CreateSave, OpenSave
<1>2. CASE UmountSave(j, s)
  BY <1>2 DEF UmountSave
<1>3. CASE DeleteSave(s)
  BY <1>3 DEF DeleteSave
<1>4. CASE \E p \in Patches : PatchImage(j, s, p)
  BY <1>4 DEF PatchImage
<1>5. CASE \E b \in FromZip(j) : WriteBin(s, b) \/ WriteImage(s, b)
  BY <1>5 DEF WriteBin, WriteImage
<1>6. CASE UNCHANGED svars
  BY <1>6 DEF svars
<1>q. QED BY <1>1, <1>2, <1>3, <1>4, <1>5, <1>6 DEF ServiceCall

\* What a client has heard stays where it is, and what is said comes after it.
LEMMA SayIndexes ==
    ASSUME TypeOK, NEW j \in Jobs, NEW st \in Statuses, Say(j, st)
    PROVE  /\ Len(said[j]) \in Nat /\ Len(st) \in Nat
           /\ Len(said'[j]) = Len(said[j]) + Len(st)
           /\ \A i \in 1 .. Len(said[j]) : said'[j][i] = said[j][i]
           /\ \A i \in 1 .. Len(st) : said'[j][Len(said[j]) + i] = st[i]
<1>1. said'[j] = said[j] \o st /\ said[j] \in Statuses
  BY DEF Say, TypeOK, Statuses
<1>2. Len(said[j]) \in Nat /\ Len(st) \in Nat
  BY <1>1 DEF Statuses
<1>3. \A i \in 1 .. Len(said[j]) : said'[j][i] = said[j][i]
  BY <1>1, <1>2 DEF Statuses
<1>4. \A i \in 1 .. Len(st) : said'[j][Len(said[j]) + i] = st[i]
  BY <1>1, <1>2 DEF Statuses
<1>5. Len(said'[j]) = Len(said[j]) + Len(st)
  BY <1>1, <1>2 DEF Statuses
<1>q. QED BY <1>2, <1>3, <1>4, <1>5

\* An error that was sent is never taken back, and sending one is telling it.
LEMMA ToldStays ==
    ASSUME TypeOK, NEW j \in Jobs, NEW st \in Statuses, Say(j, st)
    PROVE  /\ Told(j) => Told(j)'
           /\ \A i \in 1 .. Len(st) : ~st[i][2] => Told(j)'
<1>1. /\ Len(said[j]) \in Nat /\ Len(st) \in Nat
      /\ Len(said'[j]) = Len(said[j]) + Len(st)
      /\ \A i \in 1 .. Len(said[j]) : said'[j][i] = said[j][i]
      /\ \A i \in 1 .. Len(st) : said'[j][Len(said[j]) + i] = st[i]
  BY SayIndexes
<1>2. ASSUME Told(j) PROVE Told(j)'
  <2>1. PICK i \in 1 .. Len(said[j]) : ~said[j][i][2]
    BY <1>2 DEF Told
  <2>2. i \in 1 .. Len(said'[j]) /\ ~said'[j][i][2]
    BY <1>1, <2>1
  <2>q. QED BY <2>2 DEF Told
<1>3. ASSUME NEW i \in 1 .. Len(st), ~st[i][2] PROVE Told(j)'
  <2>1. Len(said[j]) + i \in 1 .. Len(said'[j]) /\ ~said'[j][Len(said[j]) + i][2]
    BY <1>1, <1>3
  <2>q. QED BY <2>1 DEF Told
<1>q. QED BY <1>2, <1>3

\* The next statuses of the script, all READY, move the client along it.
LEMMA ReadOn ==
    ASSUME TypeOK, NEW j \in Jobs, NEW n \in Nat, ReadTo(j, n),
           NEW st \in Statuses, Say(j, st), Cmd(j)' = Cmd(j),
           \A i \in 1 .. Len(st) : st[i] = Ready(Script(Cmd(j))[n + i])
    PROVE  ReadTo(j, n + Len(st))'
<1>1. /\ Len(said[j]) = n /\ Len(st) \in Nat
      /\ Len(said'[j]) = n + Len(st)
      /\ \A i \in 1 .. n : said'[j][i] = Ready(Script(Cmd(j))[i])
      /\ \A i \in 1 .. Len(st) : said'[j][n + i] = Ready(Script(Cmd(j))[n + i])
  BY SayIndexes DEF ReadTo
<1>2. ASSUME NEW i \in 1 .. n + Len(st)
      PROVE  said'[j][i] = Ready(Script(Cmd(j))[i])
  <2>1. CASE i <= n
    BY <1>1, <2>1
  <2>2. CASE i > n
    <3>1. i - n \in 1 .. Len(st) /\ n + (i - n) = i
      BY <1>1, <2>2
    <3>q. QED BY <1>1, <3>1
  <2>q. QED BY <1>1, <2>1, <2>2
<1>q. QED BY <1>1, <1>2 DEF ReadTo, Ready

\* The scripts, status by status.
LEMMA Scripts ==
    /\ Len(Script("gen")) = 10 /\ Len(Script("extract")) = 11 /\ Len(Script("resign")) = 12
    /\ \A cmd \in Commands :
          /\ Script(cmd)[1] = "command" /\ Script(cmd)[2] = "packet"
          /\ Script(cmd)[3] = "mount"   /\ Script(cmd)[4] = "umount"
    /\ Script("gen")[5] = "modify" /\ Script("gen")[6] = "zip"
    /\ Script("gen")[7] = "open" /\ Script("gen")[8] = "seekEnd"
    /\ Script("gen")[9] = "seekSet" /\ Script("gen")[10] = "delete"
    /\ Script("extract")[5] = "unzip" /\ Script("extract")[6] = "zip"
    /\ Script("extract")[7] = "open" /\ Script("extract")[8] = "seekEnd"
    /\ Script("extract")[9] = "seekSet" /\ Script("extract")[10] = "umount"
    /\ Script("extract")[11] = "delete"
    /\ Script("resign")[5] = "unzip" /\ Script("resign")[6] = "mount"
    /\ Script("resign")[7] = "umount" /\ Script("resign")[8] = "zip"
    /\ Script("resign")[9] = "open" /\ Script("resign")[10] = "seekEnd"
    /\ Script("resign")[11] = "seekSet" /\ Script("resign")[12] = "delete"
  BY DEF Script, Commands

\* The places of the program points in the scripts.
LEMMA Places ==
    /\ \A cmd \in Commands :
          /\ Place(cmd, "idle") = 0 /\ Place(cmd, "packet") = 1
          /\ Place(cmd, "gMount") = 2 /\ Place(cmd, "tMount") = 2
          /\ Place(cmd, "tUmount") = 3
          /\ Place(cmd, "unzipBin") = 4 /\ Place(cmd, "unzipImg") = 4
          /\ Place(cmd, "xClean") = 4
          /\ Place(cmd, "rMount") = 5 /\ Place(cmd, "dump") = 5
    /\ \A l \in Patches \cup {"gUmount"} : Place("gen", l) = 3
    /\ Place("gen", "zipBin") = 5 /\ Place("gen", "zipImg") = 5
    /\ Place("gen", "send") = 6 /\ Place("gen", "del") = 9 /\ Place("gen", "done") = 10
    /\ Place("extract", "send") = 6 /\ Place("extract", "unlink") = 9
    /\ Place("extract", "rUmount") = 9 /\ Place("extract", "del") = 10
    /\ Place("extract", "done") = 11
    /\ Place("resign", "account") = 6 /\ Place("resign", "title") = 6
    /\ Place("resign", "rUmount") = 6
    /\ Place("resign", "zipBin") = 7 /\ Place("resign", "zipImg") = 7
    /\ Place("resign", "send") = 8 /\ Place("resign", "unlink") = 11
    /\ Place("resign", "del") = 11 /\ Place("resign", "done") = 12
  BY Scripts DEF Place, Commands, Patches

\* A run of one status.
LEMMA StatusOne ==
    ASSUME NEW x \in Topics \X BOOLEAN
    PROVE  <<x>> \in Statuses /\ Len(<<x>>) = 1 /\ <<x>>[1] = x
  BY DEF Statuses

\* The two statuses of the generator's unmount.
LEMMA BothRead ==
    ASSUME TypeOK, NEW j \in Jobs, Cmd(j) = "gen", Cmd(j)' = Cmd(j), ReadTo(j, 3),
           Say(j, <<Ready("umount"), Ready("modify")>>)
    PROVE  ReadTo(j, 5)'
<1> DEFINE st == <<Ready("umount"), Ready("modify")>>
<1>1. st \in Statuses /\ Len(st) = 2
  BY StatusPairs DEF Topics, Ready
<1>2. st[1] = Ready(Script(Cmd(j))[3 + 1]) /\ st[2] = Ready(Script(Cmd(j))[3 + 2])
  BY Scripts DEF Commands
<1>3. Say(j, st)
  OBVIOUS
<1> HIDE DEF st
<1>4. \A i \in 1 .. 2 : i = 1 \/ i = 2
  OBVIOUS
<1>5. \A i \in 1 .. Len(st) : st[i] = Ready(Script(Cmd(j))[3 + i])
  BY <1>1, <1>2, <1>4
<1>6. ReadTo(j, 3 + Len(st))'
  BY <1>1, <1>3, <1>5, ReadOn
<1>q. QED BY <1>1, <1>6

LEMMA TransferTypes ==
    /\ TransferTopics[1] = "open" /\ TransferTopics[2] = "seekEnd"
    /\ TransferTopics[3] = "seekSet"
    /\ \A i \in 1 .. 3 : TransferTopics[i] \in Topics
    /\ \A n \in 1 .. 3 : \A f \in [1 .. n -> Topics \X BOOLEAN] :
           f \in Statuses /\ Len(f) = n
<1>1. /\ TransferTopics[1] = "open" /\ TransferTopics[2] = "seekEnd"
      /\ TransferTopics[3] = "seekSet"
  BY DEF TransferTopics
<1>2. \A i \in 1 .. 3 : i = 1 \/ i = 2 \/ i = 3
  OBVIOUS
<1>3. \A i \in 1 .. 3 : TransferTopics[i] \in Topics
  BY <1>1, <1>2 DEF Topics
<1>4. \A n \in 1 .. 3 : n \in Nat
  OBVIOUS
<1>q. QED BY <1>1, <1>3, <1>4, StatusRuns

\* A transfer that went well.
LEMMA TransferRead ==
    ASSUME TypeOK, NEW j \in Jobs, Cmd(j)' = Cmd(j), NEW n \in Nat, ReadTo(j, n),
           Script(Cmd(j))[n + 1] = "open", Script(Cmd(j))[n + 2] = "seekEnd",
           Script(Cmd(j))[n + 3] = "seekSet",
           Say(j, [i \in 1 .. 3 |-> Ready(TransferTopics[i])])
    PROVE  ReadTo(j, n + 3)'
<1> DEFINE st == [i \in 1 .. 3 |-> Ready(TransferTopics[i])]
<1>1. st \in [1 .. 3 -> Topics \X BOOLEAN]
  BY TransferTypes DEF Ready
<1>2. st \in Statuses /\ Len(st) = 3
  <2> HIDE DEF st
  <2>q. QED BY <1>1, TransferTypes
<1>3. \A i \in 1 .. 3 : i = 1 \/ i = 2 \/ i = 3
  OBVIOUS
<1>4. \A i \in 1 .. 3 : st[i] = Ready(Script(Cmd(j))[n + i])
  BY <1>3, TransferTypes
<1>5. Say(j, st)
  OBVIOUS
<1> HIDE DEF st
<1>6. ReadTo(j, n + Len(st))'
  BY <1>2, <1>4, <1>5, ReadOn
<1>q. QED BY <1>2, <1>6

\* A transfer that broke off told so with its last status.
LEMMA TransferTold ==
    ASSUME TypeOK, NEW j \in Jobs, NEW n \in 1 .. 3,
           Say(j, [i \in 1 .. n |-> <<TransferTopics[i], i < n>>])
    PROVE  Told(j)'
<1> DEFINE st == [i \in 1 .. n |-> <<TransferTopics[i], i < n>>]
<1>1. \A i \in 1 .. n : i \in 1 .. 3 /\ (i < n) \in BOOLEAN
  OBVIOUS
<1>2. st \in [1 .. n -> Topics \X BOOLEAN]
  BY <1>1, TransferTypes
<1>3. n \in 1 .. n /\ ~st[n][2]
  <2>1. n \in 1 .. n /\ ~(n < n)
    OBVIOUS
  <2>2. st[n] = <<TransferTopics[n], n < n>>
    BY <2>1
  <2>q. QED BY <2>1, <2>2
<1>4. Say(j, st)
  OBVIOUS
<1> HIDE DEF st
<1>5. st \in Statuses /\ Len(st) = n
  BY <1>2, TransferTypes
<1>q. QED BY <1>3, <1>4, <1>5, ToldStays

-----------------------------------------------------------------------------
(* The invariant.                                                           *)

LEMMA ScriptInit == Init => ScriptInv
<1> SUFFICES ASSUME Init, NEW j \in Jobs
             PROVE  pc[j] \in LabelsOf(Cmd(j)) /\ OnScript(j)
  BY DEF ScriptInv, OwnLabels
<1>1. pc[j] = "idle" /\ Cmd(j) \in Commands /\ said[j] = << >>
  BY DEF Init, Cmd
<1>2. ReadTo(j, 0)
  BY <1>1 DEF ReadTo
<1>q. QED BY <1>1, <1>2, Places DEF LabelsOf, OnScript, Commands

\* A step of another job.
LEMMA ScriptOther ==
    ASSUME TypeOK, ScriptInv, NEW j \in Jobs, JobStep(j), NEW k \in Jobs \ {j}
    PROVE  Told(k)' \/ OnScript(k)'
<1>1. Effect(j) /\ Save(j) \in Saves /\ Save(k) \in Saves
  BY JobStepEffect, Unmoved
<1>2. /\ pc'[k] = pc[k] /\ temp'[k] = temp[k] /\ got'[k] = got[k]
      /\ Cmd(k)' = Cmd(k) /\ Save(k)' = Save(k)
  BY <1>1 DEF Effect, Moves, Goto, Works, TypeOK, Cmd, Save
<1>3. said'[k] = said[k]
  BY <1>1, SayAppends DEF Effect, Speaks, TypeOK, Statuses
<1>4. Mounted(k) => Mounted(k)'
  BY <1>1, <1>2, ServiceKeeps DEF Effect, Mounted, TypeOK
<1>5. \A n : ReadTo(k, n)' <=> ReadTo(k, n)
  BY <1>2, <1>3 DEF ReadTo, Ready
<1>6. (Told(k)' <=> Told(k)) /\ (SentSandbox(k)' <=> SentSandbox(k))
  BY <1>2, <1>3 DEF Told, SentSandbox, Blank
<1>q. QED BY <1>2, <1>4, <1>5, <1>6 DEF ScriptInv, OnScript

\* A thread stays among the program points of its handler.
LEMMA LabelsStep ==
    ASSUME TypeOK, OwnLabels, NEW j \in Jobs, JobStep(j)
    PROVE  OwnLabels'
<1>1. Effect(j)
  BY JobStepEffect
<1>2. \A k \in Jobs : Cmd(k)' = Cmd(k) /\ (k # j => pc'[k] = pc[k])
  BY <1>1 DEF Effect, Moves, Goto, Cmd, TypeOK
<1>3. \A l : Goto(j, l) => pc'[j] = l
  BY DEF Goto, TypeOK
<1>4. Cmd(j) \in Commands /\ pc[j] \in LabelsOf(Cmd(j))
  BY DEF Cmd, TypeOK, OwnLabels
<1>5. pc'[j] \in LabelsOf(Cmd(j))
  <2> USE <1>3, <1>4 DEF LabelsOf, Commands, At
  <2>1. CASE Receive(j) \/ Accept(j) \/ Reject(j)
    BY <2>1 DEF Receive, Accept, Reject
  <2>2. CASE GenMount(j) \/ GenUmount(j)
    BY <2>2 DEF GenMount, GenUmount
  <2>3. ASSUME NEW p \in Patches, GenPatch(j, p) PROVE pc'[j] \in LabelsOf(Cmd(j))
    BY <2>3 DEF GenPatch, AfterPatch, NextPatch
  <2>4. CASE TempMount(j) \/ TempUmount(j) \/ UmountBusy(j) \/ Clean(j)
    BY <2>4 DEF TempMount, TempUmount, Umount, UmountBusy, Clean
  <2>5. CASE UnzipBin(j) \/ UnzipImg(j)
    BY <2>5 DEF UnzipBin, UnzipImg, UnzipFails
  <2>6. CASE RealMount(j) \/ RealUmount(j)
    BY <2>6 DEF RealMount, RealUmount, Umount
  <2>7. ASSUME NEW p \in {"account", "title"}, ResignPatch(j, p)
        PROVE  pc'[j] \in LabelsOf(Cmd(j))
    BY <2>7 DEF ResignPatch
  <2>8. CASE Dump(j) \/ Unlink(j) \/ Del(j)
    BY <2>8 DEF Dump, Unlink, AfterUnlink, AfterDump, Del
  <2>9. CASE ZipBin(j) \/ ZipImg(j)
    BY <2>9 DEF ZipBin, ZipImg, ZipFails
  <2>10. CASE Send(j)
    BY <2>10 DEF Send, AfterSend
  <2>q. QED
    BY <2>1, <2>2, <2>3, <2>4, <2>5, <2>6, <2>7, <2>8, <2>9, <2>10 DEF JobStep, Step
<1>q. QED BY <1>2, <1>5 DEF OwnLabels

\* The job's own step, one case for each action.
LEMMA ScriptOwn ==
    ASSUME TypeOK, ScriptInv, NEW j \in Jobs, JobStep(j)
    PROVE  Told(j)' \/ OnScript(j)'
<1>1. Effect(j) /\ Save(j) \in Saves
  BY JobStepEffect, Unmoved
<1>2. Cmd(j)' = Cmd(j) /\ Save(j)' = Save(j) /\ Cmd(j) \in Commands
  BY <1>1 DEF Effect, Cmd, Save, TypeOK
<1>3. \A l : Goto(j, l) => pc'[j] = l
  BY DEF Goto, TypeOK
<1>4. Told(j) => Told(j)'
  BY <1>1, ToldStays DEF Effect, Speaks
<1>5. \A topic \in Topics : Say(j, << <<topic, FALSE>> >>) => Told(j)'
  <2>1. ASSUME NEW topic \in Topics, Say(j, << <<topic, FALSE>> >>) PROVE Told(j)'
    <3> DEFINE x == <<topic, FALSE>>
    <3>1. x \in Topics \X BOOLEAN /\ ~x[2] /\ Say(j, <<x>>)
      BY <2>1
    <3> HIDE DEF x
    <3>2. <<x>> \in Statuses /\ 1 \in 1 .. Len(<<x>>) /\ ~<<x>>[1][2]
      BY <3>1, StatusOne
    <3>q. QED BY <3>1, <3>2, ToldStays
  <2>q. QED BY <2>1
<1>6. \A n \in Nat, topic \in Topics :
          ReadTo(j, n) /\ Script(Cmd(j))[n + 1] = topic /\ Say(j, << <<topic, TRUE>> >>)
              => ReadTo(j, n + 1)'
  <2>1. ASSUME NEW n \in Nat, NEW topic \in Topics, ReadTo(j, n),
               Script(Cmd(j))[n + 1] = topic, Say(j, << <<topic, TRUE>> >>)
        PROVE  ReadTo(j, n + 1)'
    <3> DEFINE x == <<topic, TRUE>>
    <3>1. x \in Topics \X BOOLEAN /\ Say(j, <<x>>) /\ x = Ready(Script(Cmd(j))[n + 1])
      BY <2>1 DEF Ready
    <3> HIDE DEF x
    <3>2. <<x>> \in Statuses /\ Len(<<x>>) = 1 /\ <<x>>[1] = x
      BY <3>1, StatusOne
    <3>3. \A i \in 1 .. Len(<<x>>) : <<x>>[i] = Ready(Script(Cmd(j))[n + i])
      BY <3>1, <3>2
    <3>4. ReadTo(j, n + Len(<<x>>))'
      BY <1>2, <2>1, <3>1, <3>2, <3>3, ReadOn
    <3>q. QED BY <3>2, <3>4
  <2>q. QED BY <2>1
<1>7. \A n : Silent /\ ReadTo(j, n) => ReadTo(j, n)'
  BY <1>2 DEF Silent, ReadTo, Ready
<1>8. Told(j) \/ OnScript(j)
  BY DEF ScriptInv
<1>9. /\ UNCHANGED svars => (Mounted(j)' <=> Mounted(j))
      /\ got' = got => (SentSandbox(j)' <=> SentSandbox(j))
  BY <1>2 DEF svars, Mounted, SentSandbox, Blank
<1>10. Say(j, [i \in 1 .. 3 |-> Ready(TransferTopics[i])]) =>
          \A n \in Nat : ReadTo(j, n) /\ Script(Cmd(j))[n + 1] = "open"
              /\ Script(Cmd(j))[n + 2] = "seekEnd" /\ Script(Cmd(j))[n + 3] = "seekSet"
                  => ReadTo(j, n + 3)'
  BY <1>2, TransferRead
<1>11. /\ pc'[j] = "done"
       /\ \/ Cmd(j) = "gen" /\ ReadTo(j, 10)'
          \/ Cmd(j) = "extract" /\ ReadTo(j, 11)'
          \/ Cmd(j) = "resign" /\ ReadTo(j, 12)'
       => OnScript(j)'
  BY <1>2, Scripts, ZenonT(30) DEF OnScript
<1> USE <1>2, <1>3, <1>4, <1>5, <1>6, <1>7, <1>8, Scripts, Places
    DEF OnScript, At, Topics, Ready, Failed, Patches, Commands
<1>a. CASE Receive(j)
  BY <1>a DEF Receive
<1>b. CASE Accept(j)
  BY <1>b DEF Accept
<1>c. CASE Reject(j)
  BY <1>c DEF Reject
<1>d. CASE GenMount(j)
  <2>1. Cmd(j) = "gen"
    BY <1>d, ZenonT(30) DEF GenMount, ScriptInv, OwnLabels, LabelsOf
  <2>2. /\ At(j, "gMount")
        /\ \/ Say(j, << <<"mount", TRUE>> >>) /\ Goto(j, "account")
           \/ Say(j, << <<"mount", FALSE>> >>)
    BY <1>d DEF GenMount
  <2>q. QED BY <2>1, <2>2
<1>e. CASE TempMount(j)
  <2>1. /\ At(j, "tMount")
        /\ \/ Say(j, << <<"mount", TRUE>> >>) /\ Goto(j, "tUmount")
           \/ Say(j, << <<"mount", FALSE>> >>)
    BY <1>e DEF TempMount
  <2>q. QED BY <2>1
<1>f. CASE Clean(j)
  BY <1>f, <1>9 DEF Clean, SentSandbox
<1>g. CASE UmountBusy(j)
  <2>1. /\ pc[j] \in {"tUmount", "rUmount"} /\ pc' = pc /\ Silent
    BY <1>g DEF UmountBusy
  <2>q. QED BY <2>1
<1>h. CASE UnzipBin(j)
  <2>1. /\ At(j, "unzipBin")
        /\ \/ Goto(j, "unzipImg") /\ Silent
           \/ Goto(j, "xClean") /\ Cmd(j) = "extract" /\ Silent
           \/ Say(j, << <<"unzip", FALSE>> >>)
    BY <1>h DEF UnzipBin, UnzipFails
  <2>q. QED BY <2>1
<1>i. CASE UnzipImg(j)
  <2>1. /\ At(j, "unzipImg")
        /\ \/ Say(j, << <<"unzip", TRUE>> >>) /\ Goto(j, "rMount")
           \/ Goto(j, "xClean") /\ Cmd(j) = "extract" /\ Silent
           \/ Say(j, << <<"unzip", FALSE>> >>)
    BY <1>i DEF UnzipImg, UnzipFails
  <2>2. Cmd(j) # "gen"
    BY <2>1 DEF ScriptInv, OwnLabels, LabelsOf
  <2>q. QED BY <2>1, <2>2
<1>j. CASE RealMount(j)
  <2>1. /\ At(j, "rMount")
        /\ \/ Cmd(j) = "extract" /\ Silent /\ Goto(j, "dump")
           \/ Cmd(j) = "resign" /\ Say(j, << <<"mount", TRUE>> >>) /\ Goto(j, "account")
           \/ Say(j, << <<"mount", FALSE>> >>)
    BY <1>j DEF RealMount
  <2>q. QED BY <2>1
<1>k. ASSUME NEW p \in Patches, GenPatch(j, p) PROVE Told(j)' \/ OnScript(j)'
  <2>1. /\ Cmd(j) = "gen" /\ At(j, p) /\ Silent
        /\ pc'[j] \in Patches \cup {"gUmount"}
    BY <1>k DEF GenPatch, AfterPatch, NextPatch
  <2>q. QED BY <2>1
<1>l. CASE GenUmount(j)
  <2>1. /\ At(j, "gUmount") /\ Cmd(j) = "gen" /\ modified[j] \in BOOLEAN
    BY <1>l, ZenonT(30) DEF GenUmount, ScriptInv, OwnLabels, LabelsOf, TypeOK
  <2>2. CASE Say(j, << <<"umount", FALSE>> >>)
    BY <2>2
  <2> DEFINE st == << <<"umount", TRUE>>, <<"modify", modified[j]>> >>
  <2>3. CASE Say(j, st) /\ Goto(j, IF modified[j] THEN "zipBin" ELSE "del")
    <3>1. st \in Statuses /\ Len(st) = 2
      BY <2>1, StatusPairs
    <3>2. st[1] = <<"umount", TRUE>> /\ st[2] = <<"modify", modified[j]>>
      OBVIOUS
    <3>3. CASE modified[j]
      <4>1. Say(j, <<Ready("umount"), Ready("modify")>>)
        BY <2>3, <3>2, <3>3, <2>1
      <4>2. ReadTo(j, 3) => ReadTo(j, 5)'
        BY <2>1, <4>1, BothRead
      <4>q. QED BY <2>1, <2>3, <3>3, <4>2
    <3>4. CASE ~modified[j]
      <4>1. 2 \in 1 .. Len(st) /\ ~st[2][2]
        BY <3>1, <3>2, <3>4
      <4> HIDE DEF st
      <4>q. QED BY <2>3, <3>1, <4>1, ToldStays, SMTT(30)
    <3>q. QED BY <3>3, <3>4
  <2>q. QED BY <1>l, <2>2, <2>3 DEF GenUmount
<1>m. CASE TempUmount(j)
  <2>1. /\ At(j, "tUmount")
        /\ \/ Say(j, << <<"umount", TRUE>> >>) /\ Goto(j, "unzipBin")
           \/ Say(j, << <<"umount", FALSE>> >>)
    BY <1>m DEF TempUmount, Umount
  <2>2. Cmd(j) # "gen"
    BY <2>1 DEF ScriptInv, OwnLabels, LabelsOf
  <2>q. QED BY <2>1, <2>2
<1>n. ASSUME NEW p \in {"account", "title"}, ResignPatch(j, p) PROVE Told(j)' \/ OnScript(j)'
  <2>1. /\ Cmd(j) = "resign" /\ At(j, p) /\ Silent
        /\ pc'[j] \in {"title", "rUmount"}
    BY <1>n DEF ResignPatch
  <2>q. QED BY <2>1
<1>o. CASE Dump(j)
  <2>1. Cmd(j) = "extract" /\ At(j, "dump")
    BY <1>o, ZenonT(30) DEF Dump, ScriptInv, OwnLabels, LabelsOf
  <2>2. CASE Say(j, << <<"zip", FALSE>> >>)
    BY <2>2
  <2>3. CASE /\ \E state \in Built :
                    temp' = [temp EXCEPT ![j] = Archive(state, Absent,
                        IF Mounted(j) THEN img[Save(j)] ELSE Blank(Sandbox))]
             /\ Say(j, << <<"zip", TRUE>> >>)
             /\ Goto(j, "send")
    <3>1. ReadTo(j, 5) => ReadTo(j, 6)'
      BY <2>1, <2>3
    <3>2. ~Mounted(j)' => temp'[j].img = Blank(Sandbox)
      BY <1>o, <1>9, <2>3 DEF Dump, TypeOK, Archive
    <3>q. QED BY <2>1, <2>3, <3>1, <3>2 DEF Blank
  <2>q. QED BY <1>o, <2>2, <2>3 DEF Dump
<1>p. CASE RealUmount(j)
  <2>1. /\ At(j, "rUmount") /\ Cmd(j) # "gen"
        /\ \/ Say(j, << <<"umount", TRUE>> >>)
              /\ Goto(j, IF Cmd(j) = "extract" THEN "del" ELSE "zipBin")
           \/ Say(j, << <<"umount", FALSE>> >>)
    BY <1>p, ZenonT(30) DEF RealUmount, Umount, ScriptInv, OwnLabels, LabelsOf
  <2>q. QED BY <2>1
<1>r. CASE ZipBin(j)
  <2>1. /\ At(j, "zipBin") /\ Cmd(j) # "extract"
        /\ \/ Silent /\ Goto(j, "zipImg")
           \/ Say(j, << <<"zip", FALSE>> >>)
    BY <1>r, ZenonT(30) DEF ZipBin, ZipFails, ScriptInv, OwnLabels, LabelsOf
  <2>q. QED BY <2>1
<1>s. CASE ZipImg(j)
  <2>1. /\ At(j, "zipImg") /\ Cmd(j) # "extract"
        /\ \/ Say(j, << <<"zip", TRUE>> >>) /\ Goto(j, "send")
           \/ Say(j, << <<"zip", FALSE>> >>)
    BY <1>s, ZenonT(30) DEF ZipImg, ZipFails, ScriptInv, OwnLabels, LabelsOf
  <2>q. QED BY <2>1
<1>t. CASE Unlink(j)
  <2>1. /\ At(j, "unlink") /\ Cmd(j) # "gen" /\ Silent
        /\ UNCHANGED svars /\ UNCHANGED got
        /\ Goto(j, IF Cmd(j) = "resign" THEN "del"
                   ELSE IF Mounted(j) THEN "rUmount" ELSE "rClean")
    BY <1>t DEF Unlink, AfterUnlink, AfterDump, ScriptInv, OwnLabels, LabelsOf
  <2>q. QED BY <2>1, <1>9
<1>u. CASE Del(j)
  <2>1. /\ At(j, "del") /\ Goto(j, "done")
        /\ Say(j, << <<"delete", TRUE>> >>) \/ Say(j, << <<"delete", FALSE>> >>)
    BY <1>u DEF Del
  <2>2. CASE Cmd(j) = "gen"
    <3>1. Told(j)' \/ ReadTo(j, 10)'
      BY <2>1, <2>2
    <3>q. QED BY <1>11, <2>1, <2>2, <3>1
  <2>3. CASE Cmd(j) = "extract"
    <3>1. Told(j)' \/ ReadTo(j, 11)'
      BY <2>1, <2>3
    <3>q. QED BY <1>11, <2>1, <2>3, <3>1
  <2>4. CASE Cmd(j) = "resign"
    <3>1. Told(j)' \/ ReadTo(j, 12)'
      BY <2>1, <2>4
    <3>q. QED BY <1>11, <2>1, <2>4, <3>1
  <2>q. QED BY <2>2, <2>3, <2>4
<1>v. CASE Send(j)
  <2>1. At(j, "send")
    BY <1>v DEF Send
  <2>2. CASE /\ Say(j, [i \in 1 .. 3 |-> Ready(TransferTopics[i])])
             /\ got' = [got EXCEPT ![j] = temp[j]]
             /\ Goto(j, AfterSend(j, TRUE))
    <3>1. \A n \in {6, 8} : ReadTo(j, n) /\ Script(Cmd(j))[n + 1] = "open"
              /\ Script(Cmd(j))[n + 2] = "seekEnd" /\ Script(Cmd(j))[n + 3] = "seekSet"
                  => ReadTo(j, n + 3)'
      BY <1>10, <2>2
    <3>2. got'[j] = temp[j]
      BY <2>2 DEF TypeOK
    <3>3. UNCHANGED svars
      BY <1>v DEF Send
    <3>4. CASE Cmd(j) = "gen"
      <4>1. ReadTo(j, 6) => ReadTo(j, 9)'
        BY <3>1, <3>4
      <4>q. QED BY <2>1, <2>2, <3>4, <4>1 DEF AfterSend
    <3>5. CASE Cmd(j) = "extract"
      <4>1. ReadTo(j, 6) => ReadTo(j, 9)'
        BY <3>1, <3>5
      <4>2. temp[j].img = Blank(Sandbox) => SentSandbox(j)'
        BY <3>2, <3>5 DEF SentSandbox, Blank
      <4>q. QED BY <1>9, <2>1, <2>2, <3>3, <3>5, <4>1, <4>2 DEF AfterSend
    <3>6. CASE Cmd(j) = "resign"
      <4>1. ReadTo(j, 8) => ReadTo(j, 11)'
        BY <3>1, <3>6
      <4>q. QED BY <2>1, <2>2, <3>6, <4>1 DEF AfterSend
    <3>q. QED BY <3>4, <3>5, <3>6
  <2>3. ASSUME NEW n \in 1 .. 3, Say(j, [i \in 1 .. n |-> <<TransferTopics[i], i < n>>])
        PROVE  Told(j)'
    BY <2>3, TransferTold
  <2>q. QED BY <1>v, <2>2, <2>3 DEF Send
<1>q. QED
  BY <1>a, <1>b, <1>c, <1>d, <1>e, <1>f, <1>g, <1>h, <1>i, <1>j, <1>k, <1>l, <1>m, <1>n,
     <1>o, <1>p, <1>r, <1>s, <1>t, <1>u, <1>v DEF JobStep, Step

LEMMA ScriptStep ==
    ASSUME TypeOK, ScriptInv, [Next]_vars
    PROVE  ScriptInv'
<1>1. CASE UNCHANGED vars
  BY <1>1 DEF vars, svars, jvars, ScriptInv, OwnLabels, OnScript, ReadTo, SentSandbox,
              Told, Mounted, Cmd, Save
<1>2. ASSUME NEW j \in Jobs, JobStep(j) PROVE ScriptInv'
  BY <1>2, LabelsStep, ScriptOwn, ScriptOther DEF ScriptInv
<1>q. QED BY <1>1, <1>2 DEF Next, JobStep

\* As long as a client was told of no failure, what it has read is the part of
\* the script that its job's program point says.
THEOREM ScriptInvariance == Spec => [](TypeOK /\ ScriptInv)
<1>1. Init => TypeOK /\ ScriptInv
  BY TypeInit, ScriptInit
<1>2. TypeOK /\ ScriptInv /\ [Next]_vars => TypeOK' /\ ScriptInv'
  BY TypeStep, ScriptStep
<1>q. QED BY <1>1, <1>2, PTL DEF Spec

LEMMA SequenceIsFunction ==
    ASSUME NEW S, NEW s \in Seq(S)
    PROVE  s = [i \in 1 .. Len(s) |-> s[i]]
  OBVIOUS

LEMMA AllReadIsSuccess ==
    ASSUME TypeOK, NEW j \in Jobs, Ended(j), ReadTo(j, Len(Script(Cmd(j))))
    PROVE  Succeeded(j)
<1> DEFINE S == Script(Cmd(j))
<1>1. DOMAIN S = 1 .. Len(S)
  <2>1. Cmd(j) \in Commands
    BY DEF TypeOK, Cmd
  <2>2. CASE Cmd(j) = "gen"
    BY <2>2 DEF Script
  <2>3. CASE Cmd(j) = "extract"
    BY <2>3 DEF Script
  <2>4. CASE Cmd(j) = "resign"
    BY <2>4 DEF Script
  <2>q. QED BY <2>1, <2>2, <2>3, <2>4 DEF Commands
<1>2. said[j] \in Seq(Topics \X BOOLEAN)
  BY DEF TypeOK
<1>3. Len(said[j]) = Len(S) /\ \A i \in 1 .. Len(S) : said[j][i] = Ready(S[i])
  BY DEF ReadTo
<1> HIDE DEF S
<1>4. said[j] = [i \in 1 .. Len(said[j]) |-> said[j][i]]
  BY <1>2, SequenceIsFunction
<1>5. said[j] = [i \in DOMAIN S |-> Ready(S[i])]
  BY <1>1, <1>3, <1>4
<1>q. QED BY <1>5 DEF Succeeded, S

\* No path through the three handlers ends in silence about a failure, but the
\* extraction whose second mount failed: its client was sent the sandbox.
THEOREM EndsToldCorrect == Spec => []EndsTold
<1>1. TypeOK /\ ScriptInv => EndsTold
  <2> SUFFICES ASSUME TypeOK, ScriptInv, NEW j \in Jobs, Ended(j), ~Told(j),
                      ReadTo(j, Len(Script(Cmd(j))))
               PROVE  Succeeded(j)
    BY DEF EndsTold, ScriptInv, OnScript, Ended, At, SentSandbox
  <2>q. QED BY AllReadIsSuccess
<1>q. QED BY <1>1, ScriptInvariance, PTL

=============================================================================
