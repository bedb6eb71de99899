--------------------------- MODULE DialogueProofs ---------------------------
(***************************************************************************)
(* Proofs about Dialogue, for any number of calls on any number of         *)
(* connections: what is left on the wire, and what a client may make of    *)
(* it.                                                                     *)
(***************************************************************************)
EXTENDS DialogueWayProofs

Line(j) == wire[Conn[j]]

\* All the statuses of job j but the first n lie on the wire, behind m of other
\* jobs; and before what other jobs say once it is over.
Lies(j, n, m) ==
    /\ m + (Len(said[j]) - n) <= Len(Line(j))
    /\ n > 0 => m = 0
    /\ pc[j] # "done" => m + (Len(said[j]) - n) = Len(Line(j))
    /\ \A i \in 1 .. Len(said[j]) - n : Line(j)[m + i] = <<j, said[j][n + i]>>
    /\ \A i \in 1 .. Len(Line(j)) :
          Line(j)[i][1] = j => i \in m + 1 .. m + (Len(said[j]) - n)

\* The client of job j has read n statuses, each for what it was.
Reading(j, F, n) ==
    /\ pos[j] = F[n] /\ pos[j] # Return
    /\ clean[j] => \A i \in 1 .. n : said[j][i][2]
    /\ asked[j] = IF n = 0 THEN "header" ELSE "packet"
    /\ \E m \in 0 .. Len(Line(j)) : Lies(j, n, m)

InStep(j) ==
    \E L \in Nat : \E F :
        /\ OnCourse(j, L, F)
        /\ call[j] = "talk" /\ ~misread[j] => \E n \in 0 .. L : Reading(j, F, n)

\* No status of job j is on the wire.
AllRead(j) == \A i \in 1 .. Len(Line(j)) : Line(j)[i][1] # j

NotCalled(j) ==
    call[j] = "todo" =>
        /\ pc[j] = "idle" /\ said[j] = << >> /\ asked[j] = "nothing"
        /\ pos[j] = 1 /\ clean[j] /\ ~misread[j] /\ AllRead(j)

\* A call that returned without having misread anything.
Returned(j) ==
    call[j] = "back" /\ ~misread[j] =>
        /\ LeftAtZip(j) \/ (pc[j] \in {"tClean", "done"} /\ AllRead(j))
        /\ clean[j] => Succeeded(j)

\* A call on the connection has left its statuses there.
LeftBefore(j) == \E k \in On(Conn[j]) \ {j} : call[k] = "back" /\ LeftAtZip(k)

\* A client that misread still reads, the last status of a resign, or comes after
\* a call that left its statuses.
Misled(j) ==
    misread[j] =>
        \/ LeftBefore(j)
        \/ /\ call[j] = "talk" /\ pc[j] = "done" /\ Line(j) = << >>
           /\ Cmd(j) = "resign" /\ Heard(j, Failed("mount")) /\ LastWord(j)[1] = "delete"

\* As long as no call has left its statuses on a connection, all that is there
\* is for the client that reads.
Tidy(c) == \A k \in On(c) : ~(call[k] = "back" /\ LeftAtZip(k))

OwnOnly(c) ==
    Tidy(c) => \A i \in 1 .. Len(wire[c]) :
        wire[c][i][1] \in On(c) /\ call[wire[c][i][1]] = "talk"

\* What call j has sent and its job has still to read, as long as the line is tidy.
Due(j) ==
    IF pc[j] = "idle" THEN << <<j, "header">> >>
    ELSE IF pc[j] = "packet" /\ asked[j] = "packet" THEN << <<j, "packet">> >>
    ELSE << >>

\* Nothing is sent for a call that is not made.
Sent(c) ==
    \A i \in 1 .. Len(stream[c]) : \A k \in Jobs : stream[c][i][1] = k => call[k] # "todo"

Attended(c) ==
    Tidy(c) =>
        /\ open[c]
        /\ \A j \in On(c) : call[j] = "talk" =>
               stream[c] = Due(j) /\ (pc[j] \notin {"idle", "packet"} => asked[j] = "packet")
        /\ (\A j \in On(c) : call[j] # "talk") => stream[c] = << >>

\* One call at a time.
OneCall ==
    \A j, k \in Jobs : j # k /\ Conn[j] = Conn[k] =>
        ~(call[j] \in {"talk", "lost"} /\ call[k] \in {"talk", "lost"})

IdleSilent == \A j \in Jobs : pc[j] = "idle" => said[j] = << >>

PlaceTypes ==
    /\ pos \in [Jobs -> Nat]
    /\ \A j \in Jobs : call[j] \in {"todo", "talk"} => pos[j] # Return

CallInv(j) ==
    /\ InStep(j) /\ NotCalled(j) /\ Returned(j) /\ Misled(j)
    /\ call[j] = "lost" => LeftBefore(j)

\* The jobs' half of the invariant, which the clients do not enter.
ServerInv == TypeOK /\ OwnLabels /\ Turns /\ IdleSilent

ClientTypes == DialogueTypeOK /\ PlaceTypes

DialogueInv ==
    /\ OneCall
    /\ \A j \in Jobs : CallInv(j)
    /\ \A c \in Lines : OwnOnly(c) /\ Sent(c) /\ Attended(c)

-----------------------------------------------------------------------------
(* Types.                                                                   *)

LEMMA JobsPart ==
    /\ DialogueInit => Init
    /\ [DialogueNext]_dvars => [Next]_vars
<1>1. DialogueInit => Init
  BY DEF DialogueInit
<1>2. [DialogueNext]_dvars => [Next]_vars
  BY DEF DialogueNext, dvars, Ask, ReadStatus, CutOff, HangUp, ReadHeader, ReadPacket,
         LosePacket, Work, Transfer, Next
<1>q. QED BY <1>1, <1>2

\* The steps of the server: the wire takes what the job says, and the stream is
\* read before it.
Reads(j) ==
    LET c == Conn[j]
    IN  \/ /\ stream' = stream
           /\ pc[j] \notin {"idle", "packet"} /\ pc'[j] \notin {"idle", "packet"}
        \/ /\ pc[j] = "idle" /\ pc'[j] = "packet"
           /\ stream[c] # << >> /\ Head(stream[c]) = <<j, "header">>
           /\ stream' = [stream EXCEPT ![c] = Tail(@)]
        \/ /\ pc[j] = "packet" /\ pc'[j] \notin {"idle", "packet"}
           /\ \E n \in 1 .. Len(stream[c]) :
                  stream[c][n][2] = "packet"
                  /\ stream' = [stream EXCEPT ![c] = Remainder(@, n)]
        \/ /\ pc[j] = "packet" /\ pc'[j] = "done" /\ \A k \in On(c) : call[k] = "back"
           /\ stream' = [stream EXCEPT ![c] = << >>]

Serves(j) == JobStep(j) /\ Deliver(j) /\ Reads(j) /\ open' = open

\* The labels of the steps that read nothing.
LEMMA Beyond ==
    ASSUME TypeOK, NEW j \in Jobs, Step(j) \/ Send(j)
    PROVE  pc[j] \notin {"idle", "packet"} /\ pc'[j] \notin {"idle", "packet"}
<1>0. \A l : Goto(j, l) => pc'[j] = l
  BY DEF Goto, TypeOK
<1> USE <1>0 DEF At, Patches
<1>1. CASE Send(j)
  BY <1>1 DEF Send, AfterSend
<1>2. CASE GenMount(j) \/ GenUmount(j) \/ \E p \in Patches : GenPatch(j, p)
  BY <1>2 DEF GenMount, GenUmount, GenPatch, AfterPatch, NextPatch
<1>3. CASE TempMount(j) \/ TempUmount(j) \/ UmountBusy(j) \/ Clean(j)
  BY <1>3 DEF TempMount, TempUmount, UmountBusy, Clean, Umount
<1>4. CASE UnzipBin(j) \/ UnzipImg(j) \/ RealMount(j) \/ RealUmount(j)
  BY <1>4 DEF UnzipBin, UnzipImg, UnzipFails, RealMount, RealUmount, Umount
<1>5. CASE \E p \in {"account", "title"} : ResignPatch(j, p)
  BY <1>5 DEF ResignPatch
<1>6. CASE Dump(j) \/ ZipBin(j) \/ ZipImg(j) \/ Unlink(j) \/ Del(j)
  BY <1>6 DEF Dump, ZipBin, ZipImg, ZipFails, Unlink, AfterUnlink, AfterDump, Del
<1>q. QED BY <1>1, <1>2, <1>3, <1>4, <1>5, <1>6 DEF Step

LEMMA DialogueSteps ==
    ASSUME TypeOK, [DialogueNext]_dvars
    PROVE  \/ UNCHANGED dvars
           \/ \E j \in Jobs : Ask(j) \/ ReadStatus(j) \/ CutOff(j) \/ Serves(j)
           \/ \E c \in Lines : HangUp(c)
<1>1. ASSUME NEW j \in Jobs, ReadHeader(j) PROVE Serves(j)
  <2>1. pc[j] = "idle" /\ pc'[j] = "packet"
    BY <1>1 DEF ReadHeader, Receive, At, Goto, TypeOK
  <2>q. QED BY <1>1, <2>1 DEF ReadHeader, Serves, JobStep, Reads
<1>2. ASSUME NEW j \in Jobs, ReadPacket(j) PROVE Serves(j)
  <2>1. pc[j] = "packet" /\ pc'[j] \notin {"idle", "packet"}
    BY <1>2 DEF ReadPacket, Accept, At, Goto, TypeOK
  <2>q. QED BY <1>2, <2>1 DEF ReadPacket, Serves, JobStep, Reads
<1>3. ASSUME NEW j \in Jobs, LosePacket(j) PROVE Serves(j)
  <2>1. pc[j] = "packet" /\ pc'[j] = "done"
    BY <1>3 DEF LosePacket, Reject, At, Goto, TypeOK
  <2>q. QED BY <1>3, <2>1 DEF LosePacket, Serves, JobStep, Reads
<1>4. ASSUME NEW j \in Jobs, Work(j) \/ Transfer(j) PROVE Serves(j)
  BY <1>4, Beyond DEF Work, Transfer, Serves, JobStep, Reads
<1>q. QED BY <1>1, <1>2, <1>3, <1>4 DEF DialogueNext

\* What a step of the server puts on the wire.
Sends(j, t) ==
    /\ Say(j, t)
    /\ Len(said'[j]) = Len(said[j]) + Len(t)
    /\ \A i \in 1 .. Len(said[j]) : said'[j][i] = said[j][i]
    /\ \A i \in 1 .. Len(t) : said'[j][Len(said[j]) + i] = t[i]
    /\ Len(wire'[Conn[j]]) = Len(Line(j)) + Len(t)
    /\ \A i \in 1 .. Len(Line(j)) : wire'[Conn[j]][i] = Line(j)[i]
    /\ \A i \in 1 .. Len(t) : wire'[Conn[j]][Len(Line(j)) + i] = <<j, t[i]>>
    /\ \A c \in Lines \ {Conn[j]} : wire'[c] = wire[c]

Letters == Seq(Jobs \X (Topics \X BOOLEAN))

LEMMA Appended ==
    ASSUME NEW w \in Letters, NEW v \in Letters
    PROVE  /\ w \o v \in Letters /\ Len(w \o v) = Len(w) + Len(v)
           /\ Len(w) \in Nat /\ Len(v) \in Nat
           /\ \A i \in 1 .. Len(w) : (w \o v)[i] = w[i]
           /\ \A i \in 1 .. Len(v) : (w \o v)[Len(w) + i] = v[i]
  BY DEF Letters

LEMMA Addressed ==
    ASSUME NEW n \in Nat, NEW f \in [1 .. n -> Jobs \X (Topics \X BOOLEAN)]
    PROVE  f \in Letters /\ Len(f) = n
  BY DEF Letters

LEMMA Delivered ==
    ASSUME TypeOK, wire \in [Lines -> Letters], NEW j \in Jobs, JobStep(j), Deliver(j)
    PROVE  /\ wire' \in [Lines -> Letters]
           /\ \E t \in Statuses : Sends(j, t) /\ (Silent => Len(t) = 0)
<1>1. Speaks(j) /\ Conn[j] \in Lines
  BY JobStepEffect DEF Effect, Lines
<1>2. PICK t \in Statuses : Say(j, t) /\ (Silent => Len(t) = 0)
  <2>1. CASE Silent
    <3>1. Say(j, << >>) /\ << >> \in Statuses /\ Len(<< >>) = 0
      BY <2>1, SilenceIsEmpty DEF TypeOK, Statuses
    <3>q. QED BY <3>1
  <2>2. CASE ~Silent
    BY <1>1, <2>2 DEF Speaks
  <2>q. QED BY <2>1, <2>2
<1>3. /\ Len(said[j]) \in Nat /\ Len(t) \in Nat
      /\ Len(said'[j]) = Len(said[j]) + Len(t)
      /\ \A i \in 1 .. Len(said[j]) : said'[j][i] = said[j][i]
      /\ \A i \in 1 .. Len(t) : said'[j][Len(said[j]) + i] = t[i]
  BY <1>2, SayIndexes
<1> DEFINE n == Len(said'[j]) - Len(said[j])
           v == [i \in 1 .. n |-> <<j, said'[j][Len(said[j]) + i]>>]
           w == Line(j)
<1>4. n = Len(t)
  BY <1>3
<1>5. wire' = [wire EXCEPT ![Conn[j]] = w \o v]
  BY DEF Deliver, Line
<1>6. v \in Letters /\ Len(v) = Len(t) /\ \A i \in 1 .. Len(t) : v[i] = <<j, t[i]>>
  <2>1. \A i \in 1 .. n : said'[j][Len(said[j]) + i] \in Topics \X BOOLEAN
    <3>1. \A i \in 1 .. Len(t) : t[i] \in Topics \X BOOLEAN
      BY DEF Statuses
    <3> HIDE DEF n
    <3>q. QED BY <1>3, <1>4, <3>1
  <2> HIDE DEF n
  <2>2. v \in [1 .. n -> Jobs \X (Topics \X BOOLEAN)]
    BY <2>1
  <2>3. \A i \in 1 .. Len(t) : v[i] = <<j, t[i]>>
    BY <1>3, <1>4
  <2> HIDE DEF v
  <2>q. QED BY <1>3, <1>4, <2>2, <2>3, Addressed
<1>7. w \in Letters
  BY <1>1 DEF Line
<1> HIDE DEF n, v, w
<1>8. /\ w \o v \in Letters /\ Len(w \o v) = Len(w) + Len(t)
      /\ \A i \in 1 .. Len(w) : (w \o v)[i] = w[i]
      /\ \A i \in 1 .. Len(t) : (w \o v)[Len(w) + i] = <<j, t[i]>>
  <2>1. /\ w \o v \in Letters /\ Len(w \o v) = Len(w) + Len(v)
        /\ \A i \in 1 .. Len(w) : (w \o v)[i] = w[i]
        /\ \A i \in 1 .. Len(v) : (w \o v)[Len(w) + i] = v[i]
    BY <1>6, <1>7, Appended
  <2>q. QED BY <1>6, <2>1
<1>9. wire' \in [Lines -> Letters]
  BY <1>5, <1>8
<1>10. /\ wire'[Conn[j]] = w \o v
       /\ \A c \in Lines \ {Conn[j]} : wire'[c] = wire[c]
  BY <1>1, <1>5
<1>11. Sends(j, t)
  BY <1>2, <1>3, <1>8, <1>10 DEF Sends, w
<1>q. QED BY <1>2, <1>9, <1>11

\* What a client reads.
LEMMA Read ==
    ASSUME NEW w \in Letters, w # << >>
    PROVE  /\ Tail(w) \in Letters /\ Len(w) \in Nat \ {0}
           /\ Len(Tail(w)) = Len(w) - 1
           /\ \A i \in 1 .. Len(w) - 1 : Tail(w)[i] = w[i + 1]
           /\ Head(w) = w[1] /\ w[1] \in Jobs \X (Topics \X BOOLEAN)
  BY DEF Letters

\* Client j, which expects status p of its script, reads job k's status.
Takes(j, w, k, topic, b, p) ==
    /\ call[j] = "talk" /\ w = Line(j) /\ w # << >> /\ p = pos[j]
    /\ w[1] = <<k, <<topic, b>> >>
    /\ wire' = [wire EXCEPT ![Conn[j]] = Tail(w)]
    /\ misread' = [misread EXCEPT ![j] = @ \/ k # j \/ topic # Script(Cmd(j))[p]]
    /\ \/ /\ Framed(Script(Cmd(j))[p], topic)
          /\ pos' = [pos EXCEPT ![j] = Follow(Cmd(j), p, b)]
          /\ call' = [call EXCEPT ![j] =
                 IF Follow(Cmd(j), p, b) = Return THEN "back" ELSE @]
          /\ clean' = [clean EXCEPT ![j] = @ /\ b]
          /\ asked' = [asked EXCEPT ![j] =
                 IF Script(Cmd(j))[p] = "command" /\ b THEN "packet" ELSE @]
       \/ /\ ~Framed(Script(Cmd(j))[p], topic)
          /\ call' = [call EXCEPT ![j] = "lost"]
          /\ UNCHANGED <<pos, clean, asked>>

LEMMA ReadTakes ==
    ASSUME TypeOK, ClientTypes, NEW j \in Jobs, ReadStatus(j)
    PROVE  \E w \in Letters, k \in Jobs, topic \in Topics, b \in BOOLEAN, p \in 1 .. 12 :
              p <= Len(Script(Cmd(j))) /\ Takes(j, w, k, topic, b, p)
<1>0. wire \in [Lines -> Letters] /\ Cmd(j) \in Commands /\ Conn[j] \in Lines
  BY DEF ClientTypes, DialogueTypeOK, Letters, Lines, TypeOK, Cmd
<1>1. PICK w \in Letters : w = wire[Conn[j]] /\ w # << >>
  BY <1>0 DEF ReadStatus
<1>2. PICK x \in Jobs \X (Topics \X BOOLEAN) : x = w[1] /\ x = Head(w)
  BY <1>1, Read
<1>3. PICK k \in Jobs, topic \in Topics, b \in BOOLEAN : x = <<k, <<topic, b>> >>
  OBVIOUS
<1>4. PICK p \in 1 .. 12 : p = pos[j] /\ p <= Len(Script(Cmd(j)))
  <2>1. PICK n \in 10 .. 12 : n = Len(Script(Cmd(j)))
    BY <1>0, FollowedTypes
  <2>2. pos[j] \in 0 .. n /\ pos[j] # 0
    BY <2>1 DEF ReadStatus, Return, ClientTypes, DialogueTypeOK, PlaceTypes
  <2>q. QED BY <2>1, <2>2, SMTT(30)
<1>5. /\ k = Head(wire[Conn[j]])[1]
      /\ <<topic, b>> = Head(wire[Conn[j]])[2]
  BY <1>1, <1>2, <1>3
<1>6. topic = Head(wire[Conn[j]])[2][1] /\ b = Head(wire[Conn[j]])[2][2]
  BY <1>5
<1>7. /\ call[j] = "talk" /\ wire' = [wire EXCEPT ![Conn[j]] = Tail(w)]
      /\ misread' = [misread EXCEPT ![j] = @ \/ k # j \/ topic # Script(Cmd(j))[p]]
  BY <1>1, <1>4, <1>5, <1>6 DEF ReadStatus
<1>8. CASE Framed(Script(Cmd(j))[p], topic)
  <2>1. Framed(Script(Cmd(j))[pos[j]], Head(wire[Conn[j]])[2][1])
    BY <1>4, <1>6, <1>8
  <2>2. /\ pos' = [pos EXCEPT ![j] = Follow(Cmd(j), pos[j], Head(wire[Conn[j]])[2][2])]
        /\ call' = [call EXCEPT ![j] = IF Follow(Cmd(j), pos[j], Head(wire[Conn[j]])[2][2])
                                          = Return THEN "back" ELSE @]
        /\ clean' = [clean EXCEPT ![j] = @ /\ Head(wire[Conn[j]])[2][2]]
        /\ asked' = [asked EXCEPT ![j] =
               IF Script(Cmd(j))[pos[j]] = "command" /\ Head(wire[Conn[j]])[2][2]
               THEN "packet" ELSE @]
    BY <2>1 DEF ReadStatus
  <2>3. /\ pos' = [pos EXCEPT ![j] = Follow(Cmd(j), p, b)]
        /\ call' = [call EXCEPT ![j] =
               IF Follow(Cmd(j), p, b) = Return THEN "back" ELSE @]
        /\ clean' = [clean EXCEPT ![j] = @ /\ b]
        /\ asked' = [asked EXCEPT ![j] =
               IF Script(Cmd(j))[p] = "command" /\ b THEN "packet" ELSE @]
    BY <1>4, <1>6, <2>2
  <2>4. Takes(j, w, k, topic, b, p)
    BY <1>1, <1>2, <1>3, <1>4, <1>7, <1>8, <2>3 DEF Takes, Line
  <2>q. QED BY <1>4, <2>4
<1>9. CASE ~Framed(Script(Cmd(j))[p], topic)
  <2>1. ~Framed(Script(Cmd(j))[pos[j]], Head(wire[Conn[j]])[2][1])
    BY <1>4, <1>6, <1>9
  <2>2. call' = [call EXCEPT ![j] = "lost"] /\ UNCHANGED <<pos, clean, asked>>
    BY <2>1 DEF ReadStatus
  <2>3. Takes(j, w, k, topic, b, p)
    BY <1>1, <1>2, <1>3, <1>4, <1>7, <1>9, <2>2 DEF Takes, Line
  <2>q. QED BY <1>4, <2>3
<1>q. QED BY <1>8, <1>9

Pieces == (Jobs \union {NoJob}) \X {"header", "packet", "rest"}

\* What the read of a packet leaves.
LEMMA Remains ==
    ASSUME NEW s \in Seq(Pieces), NEW n \in 1 .. Len(s)
    PROVE  /\ Remainder(s, n) \in Seq(Pieces)
           /\ \A i \in 1 .. Len(Remainder(s, n)) :
                 \/ Remainder(s, n)[i] = Rest
                 \/ \E h \in 1 .. Len(s) : Remainder(s, n)[i] = s[h]
           /\ n = 1 /\ Len(s) = 1 => Remainder(s, n) = << >>
<1> DEFINE r == SubSeq(s, n + 1, Len(s))
<1>0. Rest \in Pieces
  BY DEF Rest, Pieces
<1>1. /\ r \in Seq(Pieces) /\ Len(r) = Len(s) - n /\ Len(s) \in Nat
      /\ \A i \in 1 .. Len(r) : r[i] = s[n + i]
  OBVIOUS
<1>2. \A i \in 1 .. Len(r) : n + i \in 1 .. Len(s)
  BY <1>1
<1> HIDE DEF r
<1>3. CASE n = 1
  <2>1. Remainder(s, n) = r
    BY <1>1, <1>3 DEF Remainder, r
  <2>2. Len(s) = 1 => r = << >>
    BY <1>1, <1>3
  <2>q. QED BY <1>1, <1>2, <2>1, <2>2
<1>4. CASE n # 1
  <2>1. Remainder(s, n) = <<Rest>> \o r
    BY <1>4 DEF Remainder, r
  <2>2. <<Rest>> \in Seq(Pieces) /\ Len(<<Rest>>) = 1 /\ <<Rest>>[1] = Rest
    BY <1>0
  <2>3. PICK q \in Seq(Pieces) : q = <<Rest>>
    BY <2>2
  <2>4. /\ q \o r \in Seq(Pieces) /\ Len(q \o r) = 1 + Len(r)
        /\ (q \o r)[1] = q[1]
        /\ \A i \in 1 .. Len(r) : (q \o r)[1 + i] = r[i]
    BY <1>1, <2>2, <2>3
  <2>5. ASSUME NEW i \in 1 .. 1 + Len(r)
        PROVE  (q \o r)[i] = Rest \/ \E h \in 1 .. Len(s) : (q \o r)[i] = s[h]
    <3>1. CASE i = 1
      BY <2>2, <2>3, <2>4, <3>1
    <3>2. CASE i # 1
      <4>1. i - 1 \in 1 .. Len(r) /\ 1 + (i - 1) = i
        BY <1>1, <3>2
      <4>2. (q \o r)[i] = r[i - 1]
        BY <2>4, <4>1
      <4>3. r[i - 1] = s[n + (i - 1)] /\ n + (i - 1) \in 1 .. Len(s)
        BY <1>1, <1>2, <4>1
      <4>q. QED BY <4>2, <4>3
    <3>q. QED BY <3>1, <3>2
  <2>6. Remainder(s, n) = q \o r
    BY <2>1, <2>3
  <2>q. QED BY <1>4, <2>4, <2>5, <2>6
<1>q. QED BY <1>3, <1>4

LEMMA TypesStep ==
    ASSUME TypeOK, ClientTypes, [DialogueNext]_dvars
    PROVE  ClientTypes'
<1> USE DEF ClientTypes, DialogueTypeOK, PlaceTypes
<1>0. /\ wire \in [Lines -> Letters] /\ stream \in [Lines -> Seq(Pieces)]
      /\ \A j \in Jobs : Cmd(j) \in Commands /\ Conn[j] \in Lines
  BY DEF Letters, Pieces, Lines, TypeOK, Cmd
<1>1. TypeOK' /\ \A j \in Jobs : Cmd(j)' = Cmd(j)
  <2>1. [Next]_vars
    BY JobsPart
  <2>2. req' = req
    BY <2>1, JobStepEffect DEF Next, vars, jvars, Effect, JobStep
  <2>q. QED BY <2>1, <2>2, TypeStep DEF Cmd
<1>2. CASE UNCHANGED dvars
  BY <1>1, <1>2 DEF dvars, cvars
<1>3. ASSUME NEW j \in Jobs, Ask(j) PROVE ClientTypes'
  <2>1. stream' \in [Lines -> Seq(Pieces)]
    <3>1. <<j, "header">> \in Pieces
      BY DEF Pieces
    <3>q. QED BY <1>0, <1>3, <3>1 DEF Ask
  <2>q. QED BY <1>1, <1>3, <2>1 DEF Ask, Pieces
<1>4. ASSUME NEW j \in Jobs, Serves(j) PROVE ClientTypes'
  <2>1. wire' \in [Lines -> Letters] /\ UNCHANGED <<call, pos, asked, clean, misread>>
    BY <1>0, <1>4, Delivered DEF Serves, Deliver
  <2>2. stream' \in [Lines -> Seq(Pieces)] /\ open' = open
    <3>1. \A r \in Seq(Pieces) : [stream EXCEPT ![Conn[j]] = r] \in [Lines -> Seq(Pieces)]
      BY <1>0
    <3>2. stream[Conn[j]] \in Seq(Pieces) /\ << >> \in Seq(Pieces)
      BY <1>0
    <3>3. \A n \in 1 .. Len(stream[Conn[j]]) : Remainder(stream[Conn[j]], n) \in Seq(Pieces)
      BY <3>2, Remains
    <3>4. stream[Conn[j]] # << >> => Tail(stream[Conn[j]]) \in Seq(Pieces)
      BY <3>2
    <3>5. \E r \in Seq(Pieces) : stream' = stream \/ stream' = [stream EXCEPT ![Conn[j]] = r]
      BY <1>4, <3>2, <3>3, <3>4 DEF Serves, Reads
    <3>6. open' = open
      BY <1>4 DEF Serves
    <3>q. QED BY <1>0, <3>1, <3>5, <3>6
  <2>q. QED BY <1>1, <2>1, <2>2 DEF Letters, Pieces
<1>6. ASSUME NEW j \in Jobs, CutOff(j) PROVE ClientTypes'
  BY <1>1, <1>6 DEF CutOff
<1>7. ASSUME NEW c \in Lines, HangUp(c) PROVE ClientTypes'
  BY <1>1, <1>7 DEF HangUp
<1>5. ASSUME NEW j \in Jobs, ReadStatus(j) PROVE ClientTypes'
  <2>1. PICK w \in Letters, k \in Jobs, topic \in Topics, b \in BOOLEAN, p \in 1 .. 12 :
            p <= Len(Script(Cmd(j))) /\ Takes(j, w, k, topic, b, p)
    BY <1>5, ReadTakes
  <2>2. PICK next \in Nat :
            next \in 0 .. Len(Script(Cmd(j))) /\ next = Follow(Cmd(j), p, b)
    BY <1>0, <2>1, FollowedTypes, SMTT(30)
  <2>3. wire' \in [Lines -> Letters]
    BY <1>0, <2>1, Read DEF Takes
  <2>4. /\ misread' \in [Jobs -> BOOLEAN]
        /\ asked' \in [Jobs -> {"nothing", "header", "packet"}]
        /\ \/ /\ pos' = [pos EXCEPT ![j] = next]
              /\ call' = [call EXCEPT ![j] = IF next = Return THEN "back" ELSE @]
           \/ /\ call' = [call EXCEPT ![j] = "lost"]
              /\ UNCHANGED pos
    BY <2>1, <2>2 DEF Takes
  <2>5. /\ call' \in [Jobs -> {"todo", "talk", "back", "lost"}]
        /\ asked' \in [Jobs -> {"nothing", "header", "packet"}]
        /\ pos' \in [Jobs -> Nat]
    <3>1. call' \in [Jobs -> {"todo", "talk", "back", "lost"}]
      BY <1>0, <2>4
    <3>2. pos' \in [Jobs -> Nat]
      BY <1>0, <2>2, <2>4
    <3>q. QED BY <2>4, <3>1, <3>2
  <2>6. clean' \in [Jobs -> BOOLEAN]
    BY <2>1 DEF Takes
  <2>7. \A i \in Jobs : pos'[i] \in 0 .. Len(Script(Cmd(i)'))
    <3>1. pos'[j] = next \/ pos'[j] = pos[j]
      BY <2>4
    <3>2. \A i \in Jobs \ {j} : pos'[i] = pos[i]
      BY <2>4
    <3>3. \A i \in Jobs : Script(Cmd(i)') = Script(Cmd(i))
      BY <1>1
    <3>4. \A i \in Jobs : pos'[i] \in 0 .. Len(Script(Cmd(i)))
      BY <2>2, <3>1, <3>2
    <3>q. QED BY <3>3, <3>4
  <2>8. \A i \in Jobs : call'[i] \in {"todo", "talk"} => pos'[i] # Return
    BY <2>4
  <2>9. stream' \in [Lines -> Seq(Pieces)] /\ open' = open
    <3>1. <<j, "packet">> \in Pieces
      BY DEF Pieces
    <3>q. QED BY <1>0, <1>5, <3>1 DEF ReadStatus
  <2>q. QED BY <2>3, <2>4, <2>5, <2>6, <2>7, <2>8, <2>9 DEF Letters, Pieces
<1>q. QED BY <1>2, <1>3, <1>4, <1>5, <1>6, <1>7, DialogueSteps

-----------------------------------------------------------------------------
(* The server's steps.                                                      *)

Good == ServerInv /\ ClientTypes /\ DialogueInv

\* What a step of job j leaves alone and what it keeps.
Served(j, t) ==
    /\ Sends(j, t)
    /\ UNCHANGED <<call, pos, asked, clean, misread>>
    /\ \A k \in Jobs : Cmd(k)' = Cmd(k)
    /\ \A k \in Jobs \ {j} : pc'[k] = pc[k] /\ said'[k] = said[k]
    /\ pc[j] # "done" /\ call[j] # "todo"
    /\ pc[j] = "tClean" => pc'[j] = "done" /\ Len(t) = 0
    /\ \A k \in Jobs : \A e : Heard(k, e) => Heard(k, e)'

LEMMA ServeEffect ==
    ASSUME Good, NEW j \in Jobs, Serves(j)
    PROVE  \E t \in Statuses : Served(j, t)
<1>0. TypeOK /\ wire \in [Lines -> Letters] /\ JobStep(j) /\ Deliver(j)
  BY DEF Good, ServerInv, ClientTypes, DialogueTypeOK, Serves, Letters
<1>1. PICK t \in Statuses : Sends(j, t) /\ (Silent => Len(t) = 0)
  BY <1>0, Delivered
<1>2. UNCHANGED <<call, pos, asked, clean, misread>>
  BY <1>0 DEF Deliver
<1>3. /\ \A k \in Jobs : Cmd(k)' = Cmd(k)
      /\ \A k \in Jobs \ {j} : pc'[k] = pc[k] /\ said'[k] = said[k]
  <2>1. Cmd(j)' = Cmd(j)
    BY <1>0, OwnStep
  <2>2. \A k \in Jobs \ {j} : pc'[k] = pc[k] /\ said'[k] = said[k] /\ req' = req
    BY <1>0, OthersKeep
  <2>q. QED BY <2>1, <2>2 DEF Cmd
<1>4. pc[j] # "done"
  BY <1>0, StepsActive DEF Active, Receive, At
<1>5. call[j] # "todo"
  <2>1. SUFFICES ASSUME call[j] = "todo" PROVE FALSE
    OBVIOUS
  <2>2. pc[j] = "idle"
    BY <2>1 DEF Good, DialogueInv, CallInv, NotCalled
  <2>3. stream[Conn[j]] # << >> /\ Head(stream[Conn[j]]) = <<j, "header">> /\ Conn[j] \in Lines
    BY <2>2 DEF Serves, Reads, Lines
  <2>4. stream[Conn[j]] \in Seq(Pieces)
    BY <2>3 DEF Good, ClientTypes, DialogueTypeOK, Pieces
  <2>5. 1 \in 1 .. Len(stream[Conn[j]]) /\ stream[Conn[j]][1] = <<j, "header">>
    BY <2>3, <2>4
  <2>q. QED BY <2>1, <2>3, <2>5 DEF Good, DialogueInv, Sent
<1>6. pc[j] = "tClean" => pc'[j] = "done" /\ Len(t) = 0
  <2>1. SUFFICES ASSUME pc[j] = "tClean" PROVE pc'[j] = "done" /\ Len(t) = 0
    OBVIOUS
  <2>2. Clean(j)
    BY <1>0, <2>1 DEF JobStep, Step, Receive, Accept, Reject, Send, GenMount, GenPatch,
       GenUmount, TempMount, TempUmount, UmountBusy, UnzipBin, UnzipImg, RealMount,
       ResignPatch, Dump, RealUmount, ZipBin, ZipImg, Unlink, Del, At, Patches
  <2>3. Goto(j, "done") /\ Silent
    BY <2>1, <2>2 DEF Clean, At
  <2>q. QED BY <1>0, <1>1, <2>3 DEF Goto, TypeOK
<1>7. \A k \in Jobs : \A e : Heard(k, e) => Heard(k, e)'
  <2>1. ASSUME NEW k \in Jobs, NEW e, Heard(k, e) PROVE Heard(k, e)'
    <3>1. CASE k # j
      BY <1>3, <2>1, <3>1 DEF Heard
    <3>2. CASE k = j
      <4>1. /\ Len(said[j]) \in Nat /\ Len(t) \in Nat
            /\ Len(said'[j]) = Len(said[j]) + Len(t)
            /\ \A i \in 1 .. Len(said[j]) : said'[j][i] = said[j][i]
        BY <1>0, <1>1, SayIndexes DEF Sends
      <4>2. PICK i \in 1 .. Len(said[j]) : said[j][i] = e
        BY <2>1, <3>2 DEF Heard
      <4>3. i \in 1 .. Len(said'[j]) /\ said'[j][i] = e
        BY <4>1, <4>2
      <4>q. QED BY <3>2, <4>3 DEF Heard
    <3>q. QED BY <3>1, <3>2
  <2>q. QED BY <2>1
<1>q. QED BY <1>1, <1>2, <1>3, <1>4, <1>5, <1>6, <1>7 DEF Served

\* The indexes of a line to which t is added.
LEMMA LiesOn ==
    ASSUME NEW a \in Nat, NEW t \in Nat, NEW w \in Nat, NEW n \in 0 .. a, NEW m \in 0 .. w,
           m + (a - n) = w
    PROVE  /\ m + ((a + t) - n) = w + t /\ m \in 0 .. w + t
           /\ \A i \in 1 .. (a + t) - n :
                 \/ i \in 1 .. a - n /\ m + i \in 1 .. w /\ n + i \in 1 .. a
                 \/ \E h \in 1 .. t : m + i = w + h /\ n + i = a + h
           /\ \A i \in 1 .. w + t :
                 i \in 1 .. w \/ i \in m + 1 .. m + ((a + t) - n)
           /\ \A i \in m + 1 .. m + (a - n) : i \in m + 1 .. m + ((a + t) - n)
<1>1. ASSUME NEW i \in 1 .. (a + t) - n
      PROVE  \/ i \in 1 .. a - n /\ m + i \in 1 .. w /\ n + i \in 1 .. a
             \/ \E h \in 1 .. t : m + i = w + h /\ n + i = a + h
  <2>1. CASE i <= a - n
    BY <2>1
  <2>2. CASE i > a - n
    <3>1. i - (a - n) \in 1 .. t /\ m + i = w + (i - (a - n)) /\ n + i = a + (i - (a - n))
      BY <2>2
    <3>q. QED BY <3>1
  <2>q. QED BY <2>1, <2>2
<1>q. QED BY <1>1

LEMMA ServeReading ==
    ASSUME Good, NEW j \in Jobs, NEW t \in Statuses, Served(j, t),
           NEW F, NEW G, NEW L \in Nat, NEW n \in 0 .. L, L <= Len(said[j]),
           Prolongs(G, F, L), Reading(j, F, n)
    PROVE  Reading(j, G, n)'
<1>0. TypeOK /\ wire \in [Lines -> Letters] /\ Conn[j] \in Lines
  BY DEF Good, ServerInv, ClientTypes, DialogueTypeOK, Letters, Lines
<1>1. PICK a \in Nat, b \in Nat, d \in Nat :
          a = Len(said[j]) /\ b = Len(t) /\ d = Len(Line(j))
  BY <1>0 DEF TypeOK, Statuses, Letters, Line
<1>2. PICK m \in 0 .. d : Lies(j, n, m)
  BY <1>1 DEF Reading
<1>3. n \in 0 .. a
  BY <1>1
<1>4. m + (a - n) = d
  BY <1>1, <1>2 DEF Lies, Served
<1>5. /\ m + ((a + b) - n) = d + b /\ m \in 0 .. d + b
      /\ \A i \in 1 .. (a + b) - n :
            \/ i \in 1 .. a - n /\ m + i \in 1 .. d /\ n + i \in 1 .. a
            \/ \E h \in 1 .. b : m + i = d + h /\ n + i = a + h
      /\ \A i \in 1 .. d + b : i \in 1 .. d \/ i \in m + 1 .. m + ((a + b) - n)
      /\ \A i \in m + 1 .. m + (a - n) : i \in m + 1 .. m + ((a + b) - n)
  BY <1>3, <1>4, LiesOn
<1>6. /\ Len(said'[j]) = a + b /\ Len(Line(j)') = d + b
      /\ \A i \in 1 .. a : said'[j][i] = said[j][i]
      /\ \A i \in 1 .. b : said'[j][a + i] = t[i]
      /\ \A i \in 1 .. d : Line(j)'[i] = Line(j)[i]
      /\ \A i \in 1 .. b : Line(j)'[d + i] = <<j, t[i]>>
  BY <1>1 DEF Served, Sends, Line
<1>7. ASSUME NEW i \in 1 .. (a + b) - n
      PROVE  Line(j)'[m + i] = <<j, said'[j][n + i]>>
  <2>1. CASE i \in 1 .. a - n /\ m + i \in 1 .. d /\ n + i \in 1 .. a
    BY <1>1, <1>2, <1>6, <2>1 DEF Lies
  <2>2. ASSUME NEW h \in 1 .. b, m + i = d + h, n + i = a + h
        PROVE  Line(j)'[m + i] = <<j, said'[j][n + i]>>
    <3>1. Line(j)'[d + h] = <<j, t[h]>> /\ said'[j][a + h] = t[h]
      BY <1>6
    <3>q. QED BY <2>2, <3>1
  <2>q. QED BY <1>5, <2>1, <2>2
<1>8. ASSUME NEW i \in 1 .. d + b, Line(j)'[i][1] = j
      PROVE  i \in m + 1 .. m + ((a + b) - n)
  <2>1. CASE i \in 1 .. d
    <3>1. Line(j)[i][1] = j
      BY <1>6, <1>8, <2>1
    <3>2. i \in m + 1 .. m + (a - n)
      BY <1>1, <1>2, <2>1, <3>1 DEF Lies
    <3>q. QED BY <1>5, <3>2
  <2>q. QED BY <1>5, <2>1
<1>9. Lies(j, n, m)'
  <2>1. n > 0 => m = 0
    BY <1>2 DEF Lies
  <2>2. m + (Len(said'[j]) - n) = Len(Line(j)')
    BY <1>5, <1>6
  <2>3. m + (Len(said'[j]) - n) <= Len(Line(j)')
    BY <1>5, <1>6
  <2>q. QED BY <1>6, <1>7, <1>8, <2>1, <2>2, <2>3 DEF Lies
<1>10. pos'[j] = G[n] /\ pos'[j] # Return
  <2>1. n \in 0 .. L
    OBVIOUS
  <2>q. QED BY <2>1 DEF Reading, Prolongs, Served
<1>11. clean'[j] => \A i \in 1 .. n : said'[j][i][2]
  <2>1. \A i \in 1 .. n : i \in 1 .. a
    BY <1>3
  <2>q. QED BY <1>6, <2>1 DEF Reading, Served
<1>12. asked'[j] = IF n = 0 THEN "header" ELSE "packet"
  BY DEF Reading, Served
<1>13. m \in 0 .. Len(Line(j)')
  BY <1>5, <1>6
<1>q. QED BY <1>9, <1>10, <1>11, <1>12, <1>13 DEF Reading

LEMMA ServeOwn ==
    ASSUME Good, NEW j \in Jobs, Serves(j), NEW t \in Statuses, Served(j, t)
    PROVE  InStep(j)'
<1>1a. PICK L \in Nat : \E F :
          /\ OnCourse(j, L, F)
          /\ call[j] = "talk" /\ ~misread[j] => \E n \in 0 .. L : Reading(j, F, n)
  BY DEF Good, DialogueInv, CallInv, InStep
<1>1. PICK F :
          /\ OnCourse(j, L, F)
          /\ call[j] = "talk" /\ ~misread[j] => \E n \in 0 .. L : Reading(j, F, n)
  BY <1>1a
<1>2. Onward(j, F, L)
  BY <1>1, HereOwn DEF Good, ServerInv, Serves, OnCourse
<1>3a. PICK M \in Nat : \E G : L <= M /\ Prolongs(G, F, L) /\ OnCourse(j, M, G)'
  BY <1>2 DEF Onward, OnCourse
<1>3. PICK G : L <= M /\ Prolongs(G, F, L) /\ OnCourse(j, M, G)'
  BY <1>3a
<1>4. L <= Len(said[j])
  BY <1>1 DEF OnCourse, Way
<1>5. ASSUME call'[j] = "talk", ~misread'[j]
      PROVE  (\E n \in 0 .. M : Reading(j, G, n))'
  <2>1. PICK n \in 0 .. L : Reading(j, F, n)
    BY <1>1, <1>5 DEF Served
  <2>2. Reading(j, G, n)'
    BY <1>3, <1>4, <2>1, ServeReading
  <2>3. n \in 0 .. M
    BY <1>3
  <2>q. QED BY <2>2, <2>3
<1>q. QED BY <1>3, <1>5 DEF InStep

\* Nothing of another job changes on the line, but for what is added behind.
LEMMA ServeLine ==
    ASSUME Good, NEW j \in Jobs, NEW t \in Statuses, Served(j, t), NEW k \in Jobs
    PROVE  /\ Conn[k] # Conn[j] => Line(k)' = Line(k)
           /\ Len(Line(k)) \in Nat /\ Len(Line(k)') \in Nat
           /\ Len(Line(k)) <= Len(Line(k)')
           /\ \A i \in 1 .. Len(Line(k)) : Line(k)'[i] = Line(k)[i]
           /\ \A i \in 1 .. Len(Line(k)') :
                 i \in 1 .. Len(Line(k)) \/ (Conn[k] = Conn[j] /\ Line(k)'[i][1] = j)
           /\ Len(t) = 0 /\ Conn[k] = Conn[j] => Len(Line(k)') = Len(Line(k))
<1>1. wire \in [Lines -> Letters] /\ Conn[k] \in Lines /\ Len(t) \in Nat
  <2>1. wire \in [Lines -> Letters]
    BY DEF Good, ClientTypes, DialogueTypeOK, Letters
  <2>2. Conn[k] \in Lines
    BY DEF Lines
  <2>3. Len(t) \in Nat
    BY DEF Statuses
  <2>q. QED BY <2>1, <2>2, <2>3
<1>2. Len(Line(k)) \in Nat
  BY <1>1 DEF Letters, Line
<1>3. CASE Conn[k] # Conn[j]
  <2>1. Line(k)' = Line(k)
    BY <1>1, <1>3 DEF Served, Sends, Line
  <2>q. QED BY <1>2, <1>3, <2>1
<1>4. CASE Conn[k] = Conn[j]
  <2>1. PICK a \in Nat, b \in Nat : a = Len(Line(k)) /\ b = Len(t)
    BY <1>1, <1>2
  <2>2. /\ Len(Line(k)') = a + b
        /\ \A i \in 1 .. a : Line(k)'[i] = Line(k)[i]
        /\ \A i \in 1 .. b : Line(k)'[a + i] = <<j, t[i]>>
    BY <1>4, <2>1 DEF Served, Sends, Line
  <2>3. ASSUME NEW i \in 1 .. a + b, i \notin 1 .. a PROVE Line(k)'[i][1] = j
    <3>1. i - a \in 1 .. b /\ a + (i - a) = i
      BY <2>3
    <3>2. Line(k)'[a + (i - a)] = <<j, t[i - a]>>
      BY <2>2, <3>1
    <3>q. QED BY <3>1, <3>2
  <2>4. /\ \A i \in 1 .. Len(Line(k)) : Line(k)'[i] = Line(k)[i]
        /\ \A i \in 1 .. Len(Line(k)') :
              i \in 1 .. Len(Line(k)) \/ (Conn[k] = Conn[j] /\ Line(k)'[i][1] = j)
    BY <1>4, <2>1, <2>2, <2>3
  <2>5. /\ Len(Line(k)) \in Nat /\ Len(Line(k)') \in Nat /\ Len(Line(k)) <= Len(Line(k)')
        /\ Len(t) = 0 => Len(Line(k)') = Len(Line(k))
    BY <2>1, <2>2
  <2>q. QED BY <1>4, <2>4, <2>5
<1>q. QED BY <1>3, <1>4

LEMMA ServeOther ==
    ASSUME Good, NEW j \in Jobs, Serves(j), NEW t \in Statuses, Served(j, t),
           NEW k \in Jobs \ {j}
    PROVE  InStep(k)'
<1>0. k \in Jobs /\ k # j /\ said[k] \in Statuses
  BY DEF Good, ServerInv, TypeOK, Statuses
<1>1a. PICK L \in Nat : \E F :
          /\ OnCourse(k, L, F)
          /\ call[k] = "talk" /\ ~misread[k] => \E n \in 0 .. L : Reading(k, F, n)
  BY <1>0 DEF Good, DialogueInv, CallInv, InStep
<1>1. PICK F :
          /\ OnCourse(k, L, F)
          /\ call[k] = "talk" /\ ~misread[k] => \E n \in 0 .. L : Reading(k, F, n)
  BY <1>1a
<1>2. said'[k] = said[k] /\ pc'[k] = pc[k] /\ Cmd(k)' = Cmd(k)
  BY <1>0 DEF Served
<1>3. OnCourse(k, L, F)'
  BY <1>0, <1>1, <1>2, CourseKept
<1>4. ASSUME call'[k] = "talk", ~misread'[k]
      PROVE  (\E n \in 0 .. L : Reading(k, F, n))'
  <2>1. PICK n \in 0 .. L : Reading(k, F, n)
    BY <1>1, <1>4 DEF Served
  <2>2. PICK m \in 0 .. Len(Line(k)) : Lies(k, n, m)
    BY <2>1 DEF Reading
  <2>3. PICK a \in Nat : a = Len(said[k]) /\ n <= a
    BY <1>0, <1>1 DEF OnCourse, Way, Statuses
  <2>4. PICK w \in Nat, v \in Nat :
            w = Len(Line(k)) /\ v = Len(Line(k)') /\ w <= v
    BY <1>0, ServeLine
  <2>5. /\ \A i \in 1 .. w : Line(k)'[i] = Line(k)[i]
        /\ \A i \in 1 .. v : i \in 1 .. w \/ (Conn[k] = Conn[j] /\ Line(k)'[i][1] # k)
    BY <1>0, <2>4, ServeLine
  <2>6. CASE Conn[k] # Conn[j] \/ pc[k] = "done"
    <3>1. Conn[k] # Conn[j] => w = v
      BY <1>0, <2>4, ServeLine
    <3>2. ASSUME NEW i \in 1 .. a - n PROVE Line(k)'[m + i] = <<k, said[k][n + i]>>
      <4>1. m + i \in 1 .. w
        BY <2>2, <2>3, <2>4 DEF Lies
      <4>q. QED BY <2>2, <2>3, <2>5, <4>1 DEF Lies
    <3>3. ASSUME NEW i \in 1 .. v, Line(k)'[i][1] = k
          PROVE  i \in m + 1 .. m + (a - n)
      BY <2>2, <2>3, <2>4, <2>5, <3>3 DEF Lies
    <3>4. m + (a - n) <= v /\ (n > 0 => m = 0) /\ (pc[k] # "done" => m + (a - n) = v)
      BY <2>2, <2>3, <2>4, <2>6, <3>1 DEF Lies
    <3>5. Lies(k, n, m)'
      BY <1>2, <2>3, <2>4, <3>2, <3>3, <3>4 DEF Lies
    <3>6. m \in 0 .. Len(Line(k)')
      BY <2>4
    <3>q. QED BY <1>2, <2>1, <3>5, <3>6 DEF Reading, Served
  <2>7. CASE Conn[k] = Conn[j] /\ pc[k] # "done"
    <3>1. pc[k] = "idle"
      <4>1. ~(Active(j) /\ Active(k))
        BY <1>0, <2>7 DEF Good, ServerInv, Turns
      <4>2. Receive(j) => pc[k] \in {"idle", "done"}
        BY <1>0, <2>7 DEF Receive, ThreadFree
      <4>q. QED BY <2>7, <4>1, <4>2, StepsActive DEF Serves, Active
    <3>2. a = 0 /\ n = 0
      BY <1>0, <2>3, <3>1 DEF Good, ServerInv, IdleSilent
    <3>3. ASSUME NEW i \in 1 .. v PROVE Line(k)'[i][1] # k
      <4>1. ASSUME i \in 1 .. w PROVE Line(k)[i][1] # k
        BY <2>2, <2>3, <2>4, <3>2, <4>1 DEF Lies
      <4>q. QED BY <2>5, <4>1
    <3>4. /\ v + (a - n) <= v /\ v + (a - n) = v /\ ~(n > 0)
          /\ \A i \in 1 .. a - n : FALSE
      BY <3>2
    <3>5. Lies(k, n, v)'
      BY <1>2, <2>3, <2>4, <3>3, <3>4 DEF Lies
    <3>6. v \in 0 .. Len(Line(k)')
      BY <2>4
    <3>q. QED BY <1>2, <2>1, <3>5, <3>6 DEF Reading, Served
  <2>q. QED BY <2>6, <2>7
<1>q. QED BY <1>3, <1>4 DEF InStep

\* A thread that works for a client that no longer reads does so behind a call
\* that left its statuses, or has nothing to say.
LEMMA Unheard ==
    ASSUME Good, NEW j \in Jobs, NEW t \in Statuses, Served(j, t), call[j] # "talk"
    PROVE  Len(t) = 0 \/ LeftBefore(j) \/ (call[j] = "back" /\ LeftAtZip(j))
<1>1. call[j] \in {"back", "lost"}
  BY DEF Good, ClientTypes, DialogueTypeOK, Served
<1>2. CallInv(j)
  BY DEF Good, DialogueInv
<1>3. CASE misread[j]
  BY <1>2, <1>3 DEF CallInv, Misled
<1>4. CASE ~misread[j]
  BY <1>1, <1>2, <1>4 DEF CallInv, Returned, Served
<1>q. QED BY <1>3, <1>4

LEMMA ServeCalls ==
    ASSUME Good, NEW j \in Jobs, Serves(j), NEW t \in Statuses, Served(j, t),
           NEW k \in Jobs
    PROVE  CallInv(k)'
<1>1. CallInv(k)
  BY DEF Good, DialogueInv
<1>2. InStep(k)'
  BY ServeOwn, ServeOther
<1>3. \A i \in Jobs : LeftAtZip(i) => LeftAtZip(i)'
  BY DEF LeftAtZip, Served, Failed
<1>4. \A i \in Jobs : LeftBefore(i) => LeftBefore(i)'
  BY <1>3 DEF LeftBefore, On, Served
<1>5. k # j \/ Len(t) = 0 => (AllRead(k) => AllRead(k)')
  BY ServeLine DEF AllRead
<1>6. NotCalled(k)'
  <2>1. SUFFICES ASSUME call[k] = "todo" PROVE NotCalled(k)'
    BY DEF NotCalled, Served
  <2>2. k # j
    BY <2>1 DEF Served
  <2>q. QED BY <1>1, <1>5, <2>1, <2>2 DEF NotCalled, CallInv, Served
<1>7. Returned(k)'
  <2>1. SUFFICES ASSUME call[k] = "back", ~misread[k] PROVE Returned(k)'
    BY DEF Returned, Served
  <2>2. /\ LeftAtZip(k) \/ (pc[k] \in {"tClean", "done"} /\ AllRead(k))
        /\ clean[k] => Succeeded(k)
    BY <1>1, <2>1 DEF CallInv, Returned
  <2>3. LeftAtZip(k)' \/ (pc'[k] \in {"tClean", "done"} /\ AllRead(k)')
    <3>1. CASE k # j
      BY <1>3, <1>5, <2>2, <3>1 DEF Served
    <3>2. CASE k = j
      BY <1>3, <1>5, <2>2, <3>2 DEF Served
    <3>q. QED BY <3>1, <3>2
  <2>4. clean'[k] => Succeeded(k)'
    <3>1. CASE k # j
      BY <2>2, <3>1 DEF Served, Succeeded, Ended, At, Ready
    <3>2. CASE k = j
      BY <2>2, <3>2 DEF Served, Succeeded, Ended, At
    <3>q. QED BY <3>1, <3>2
  <2>q. QED BY <2>3, <2>4 DEF Returned
<1>8. Misled(k)'
  <2>1. SUFFICES ASSUME misread[k], ~LeftBefore(k) PROVE Misled(k)'
    BY <1>4 DEF Misled, Served
  <2>2. /\ call[k] = "talk" /\ pc[k] = "done" /\ Line(k) = << >>
        /\ Cmd(k) = "resign" /\ Heard(k, Failed("mount")) /\ LastWord(k)[1] = "delete"
    BY <1>1, <2>1 DEF CallInv, Misled
  <2>3. k # j /\ pc'[k] = "done" /\ LastWord(k)' = LastWord(k)
    BY <2>2 DEF Served, LastWord
  <2>4. Line(k)' = << >>
    <3>1. CASE Conn[k] # Conn[j]
      BY <2>2, <3>1, ServeLine
    <3>2. CASE Conn[k] = Conn[j]
      <4>1. call[j] # "talk"
        BY <2>2, <2>3, <3>2 DEF Good, DialogueInv, OneCall
      <4>2. ~LeftBefore(j) /\ ~(call[j] = "back" /\ LeftAtZip(j))
        <5>1. ASSUME NEW i \in On(Conn[j]) \ {j}, call[i] = "back", LeftAtZip(i)
              PROVE  FALSE
          BY <2>1, <2>2, <3>2, <5>1 DEF LeftBefore, On
        <5>2. ASSUME call[j] = "back", LeftAtZip(j) PROVE FALSE
          BY <2>1, <2>3, <3>2, <5>2 DEF LeftBefore, On
        <5>q. QED BY <5>1, <5>2 DEF LeftBefore
      <4>3. Len(t) = 0
        BY <4>1, <4>2, Unheard
      <4>4. Len(Line(k)') = 0
        BY <2>2, <3>2, <4>3, ServeLine
      <4>5. Line(k)' \in Letters
        <5>1. wire' \in [Lines -> Letters]
          BY Delivered DEF Good, ServerInv, ClientTypes, DialogueTypeOK, Serves, Letters
        <5>q. QED BY <5>1 DEF Line, Lines
      <4>q. QED BY <4>4, <4>5 DEF Letters
    <3>q. QED BY <3>1, <3>2
  <2>q. QED BY <2>2, <2>3, <2>4 DEF Misled, Served, Failed
<1>9. call'[k] = "lost" => LeftBefore(k)'
  BY <1>1, <1>4 DEF CallInv, Served
<1>q. QED BY <1>2, <1>6, <1>7, <1>8, <1>9 DEF CallInv

LEMMA ServeOnly ==
    ASSUME Good, NEW j \in Jobs, Serves(j), NEW t \in Statuses, Served(j, t),
           NEW c \in Lines
    PROVE  OwnOnly(c)'
<1>1. SUFFICES ASSUME Tidy(c)', NEW i \in 1 .. Len(wire'[c])
               PROVE  wire'[c][i][1] \in On(c) /\ call'[wire'[c][i][1]] = "talk"
  BY DEF OwnOnly, On
<1>2. \A k \in Jobs : LeftAtZip(k) => LeftAtZip(k)'
  BY DEF LeftAtZip, Served, Failed
<1>3. Tidy(c)
  BY <1>1, <1>2 DEF Tidy, On, Served
<1>4. \A h \in 1 .. Len(wire[c]) : wire[c][h][1] \in On(c) /\ call[wire[c][h][1]] = "talk"
  BY <1>3 DEF Good, DialogueInv, OwnOnly
<1>5. PICK k \in Jobs : c = Conn[k]
  BY DEF Lines
<1>6. CASE i \in 1 .. Len(wire[c])
  <2>1. wire'[c][i] = wire[c][i]
    BY <1>5, <1>6, ServeLine DEF Line
  <2>q. QED BY <1>4, <1>6, <2>1 DEF Served
<1>7. CASE i \notin 1 .. Len(wire[c])
  <2>1. Conn[k] = Conn[j] /\ wire'[c][i][1] = j
    BY <1>1, <1>5, <1>7, ServeLine DEF Line
  <2>2. Len(t) # 0
    BY <1>1, <1>5, <1>7, <2>1, ServeLine DEF Line
  <2>3. ~LeftBefore(j) /\ ~(call[j] = "back" /\ LeftAtZip(j))
    BY <1>3, <1>5, <2>1 DEF Tidy, LeftBefore, On
  <2>4. call[j] = "talk"
    BY <2>2, <2>3, Unheard
  <2>q. QED BY <1>5, <2>1, <2>4 DEF On, Served
<1>q. QED BY <1>6, <1>7

\* A client whose job has not begun has sent no more than the header.
LEMMA IdleAsked ==
    ASSUME Good, NEW j \in Jobs, pc[j] = "idle", call[j] = "talk", Tidy(Conn[j])
    PROVE  asked[j] = "header"
<1>1. CallInv(j) /\ ~LeftBefore(j)
  BY DEF Good, DialogueInv, Tidy, LeftBefore
<1>2. ~misread[j]
  BY <1>1 DEF CallInv, Misled
<1>3a. PICK L \in Nat : \E F : OnCourse(j, L, F) /\ \E n \in 0 .. L : Reading(j, F, n)
  BY <1>1, <1>2 DEF CallInv, InStep
<1>3. PICK F : OnCourse(j, L, F) /\ \E n \in 0 .. L : Reading(j, F, n)
  BY <1>3a
<1>4. PICK n \in 0 .. L : Reading(j, F, n)
  BY <1>3
<1>5. said[j] = << >>
  BY DEF Good, ServerInv, IdleSilent
<1>6. L \in 0 .. 0
  BY <1>3, <1>5 DEF OnCourse, Way
<1>7. n = 0
  BY <1>4, <1>6
<1>q. QED BY <1>4, <1>7 DEF Reading

\* The server reads what the client that talks has sent.
LEMMA ServeStream ==
    ASSUME Good, NEW j \in Jobs, Serves(j), NEW t \in Statuses, Served(j, t),
           NEW c \in Lines
    PROVE  Sent(c)' /\ Attended(c)'
<1>0. /\ stream \in [Lines -> Seq(Pieces)] /\ Conn[j] \in Lines /\ j \in On(Conn[j])
      /\ Reads(j) /\ open' = open /\ UNCHANGED <<call, asked>>
      /\ \A k \in Jobs \ {j} : pc'[k] = pc[k]
  BY DEF Good, ClientTypes, DialogueTypeOK, Pieces, Lines, On, Serves, Served
<1>1. Sent(c) /\ Attended(c)
  BY DEF Good, DialogueInv
<1>2. \A k \in Jobs : LeftAtZip(k) => LeftAtZip(k)'
  BY DEF LeftAtZip, Served, Failed
<1>3. Tidy(c)' => Tidy(c)
  BY <1>0, <1>2 DEF Tidy, On
<1>4. CASE c # Conn[j]
  <2>1. stream'[c] = stream[c]
    BY <1>0, <1>4 DEF Reads
  <2>2. \A k \in On(c) : k \in Jobs \ {j}
    BY <1>4 DEF On
  <2>3. \A k \in On(c) : Due(k)' = Due(k) /\ pc'[k] = pc[k]
    BY <1>0, <2>2 DEF Due
  <2>4. Sent(c)'
    BY <1>0, <1>1, <2>1 DEF Sent
  <2>q. QED BY <1>0, <1>1, <1>3, <2>1, <2>3, <2>4 DEF Attended, On
<1>5. CASE c = Conn[j]
  <2> DEFINE s == stream[c]
  <2>0. s \in Seq(Pieces)
    BY <1>0
  <2>1. Sent(c)'
    <3>1. SUFFICES ASSUME NEW i \in 1 .. Len(stream'[c]), NEW k \in Jobs, stream'[c][i][1] = k
                   PROVE  call[k] # "todo"
      BY <1>0 DEF Sent
    <3>2. \/ stream'[c][i] = Rest
          \/ \E h \in 1 .. Len(s) : stream'[c][i] = s[h]
      <4>1. CASE stream' = stream
        BY <4>1
      <4>2. CASE s # << >> /\ stream' = [stream EXCEPT ![c] = Tail(@)]
        <5>1. stream'[c] = Tail(s)
          BY <1>0, <1>5, <4>2
        <5>2. Len(Tail(s)) = Len(s) - 1 /\ \A h \in 1 .. Len(s) - 1 : Tail(s)[h] = s[h + 1]
          BY <2>0, <4>2
        <5>3. i + 1 \in 1 .. Len(s)
          BY <2>0, <5>1, <5>2
        <5>q. QED BY <2>0, <5>1, <5>2, <5>3
      <4>3. ASSUME NEW n \in 1 .. Len(s), stream' = [stream EXCEPT ![c] = Remainder(@, n)]
            PROVE  \/ stream'[c][i] = Rest
                   \/ \E h \in 1 .. Len(s) : stream'[c][i] = s[h]
        <5>1. stream'[c] = Remainder(s, n)
          BY <1>0, <1>5, <4>3
        <5>q. QED BY <2>0, <5>1, Remains
      <4>4. CASE stream' = [stream EXCEPT ![c] = << >>]
        <5>1. stream'[c] = << >>
          BY <1>0, <1>5, <4>4
        <5>q. QED BY <5>1
      <4>q. QED BY <1>0, <1>5, <4>1, <4>2, <4>3, <4>4 DEF Reads
    <3>3. CASE stream'[c][i] = Rest
      BY <3>1, <3>3, JobsAssumption DEF Rest
    <3>4. ASSUME NEW h \in 1 .. Len(s), stream'[c][i] = s[h] PROVE call[k] # "todo"
      BY <1>1, <3>1, <3>4 DEF Sent
    <3>q. QED BY <3>2, <3>3, <3>4
  <2>2. Attended(c)'
    <3>1. SUFFICES ASSUME Tidy(c)' PROVE
              /\ open[c]
              /\ \A k \in On(c) : call[k] = "talk" =>
                     /\ stream'[c] = Due(k)'
                     /\ pc'[k] \notin {"idle", "packet"} => asked[k] = "packet"
              /\ (\A k \in On(c) : call[k] # "talk") => stream'[c] = << >>
      BY <1>0 DEF Attended, On
    <3>2. /\ open[c]
          /\ \A k \in On(c) : call[k] = "talk" =>
                 s = Due(k) /\ (pc[k] \notin {"idle", "packet"} => asked[k] = "packet")
          /\ (\A k \in On(c) : call[k] # "talk") => s = << >>
      BY <1>1, <1>3, <3>1 DEF Attended
    <3>3. ASSUME NEW k \in On(c) \ {j} PROVE k \in Jobs /\ pc'[k] = pc[k] /\ Due(k)' = Due(k)
      BY <1>0 DEF On, Due
    <3>4. CASE stream' = stream /\ pc[j] \notin {"idle", "packet"} /\ pc'[j] \notin {"idle", "packet"}
      <4>1. Due(j)' = Due(j)
        BY <3>4 DEF Due
      <4>q. QED BY <3>2, <3>3, <3>4, <4>1
    <3>5. CASE /\ pc[j] = "idle" /\ pc'[j] = "packet"
               /\ s # << >> /\ Head(s) = <<j, "header">>
               /\ stream' = [stream EXCEPT ![c] = Tail(@)]
      <4>1. stream'[c] = Tail(s)
        BY <1>0, <1>5, <3>5
      <4>2. PICK k \in On(c) : call[k] = "talk" /\ s = Due(k)
        BY <3>2, <3>5
      <4>3. s = << <<k, "header">> >> /\ k = j
        BY <3>5, <4>2 DEF Due
      <4>4. stream'[c] = << >>
        BY <4>1, <4>3
      <4>5. asked[j] # "packet"
        BY <1>3, <1>5, <3>1, <3>5, <4>2, <4>3, IdleAsked
      <4>6. Due(j)' = << >>
        BY <1>0, <3>5, <4>5 DEF Due
      <4>7. \A i \in On(c) : call[i] = "talk" => i = j
        BY <1>5, <4>2, <4>3 DEF On, Good, DialogueInv, OneCall
      <4>q. QED BY <3>2, <3>5, <4>4, <4>6, <4>7
    <3>6. ASSUME pc[j] = "packet", pc'[j] \notin {"idle", "packet"},
                 NEW n \in 1 .. Len(s), s[n][2] = "packet",
                 stream' = [stream EXCEPT ![c] = Remainder(@, n)]
          PROVE  /\ \A k \in On(c) : call[k] = "talk" =>
                        /\ stream'[c] = Due(k)'
                        /\ pc'[k] \notin {"idle", "packet"} => asked[k] = "packet"
                 /\ (\A k \in On(c) : call[k] # "talk") => stream'[c] = << >>
      <4>1. stream'[c] = Remainder(s, n)
        BY <1>0, <1>5, <3>6
      <4>2. s # << >>
        BY <3>6
      <4>3. PICK k \in On(c) : call[k] = "talk" /\ s = Due(k)
        BY <3>2, <4>2
      <4>4. Len(s) = 1 /\ n = 1 /\ pc[k] = "packet" /\ asked[k] = "packet"
        <5>1. CASE pc[k] = "idle"
          <6>1. s = << <<k, "header">> >>
            BY <4>3, <5>1 DEF Due
          <6>2. n = 1
            BY <6>1
          <6>q. QED BY <3>6, <6>1, <6>2
        <5>2. CASE pc[k] = "packet" /\ asked[k] = "packet"
          BY <4>3, <5>2 DEF Due
        <5>q. QED BY <4>2, <4>3, <5>1, <5>2 DEF Due
      <4>5. k = j
        BY <1>5, <3>6, <4>4 DEF On, Good, ServerInv, Turns, Active
      <4>6. stream'[c] = << >>
        BY <2>0, <4>1, <4>4, Remains
      <4>7. Due(j)' = << >>
        BY <3>6 DEF Due
      <4>8. \A i \in On(c) : call[i] = "talk" => i = j
        BY <1>5, <4>3, <4>5 DEF On, Good, DialogueInv, OneCall
      <4>q. QED BY <4>4, <4>5, <4>6, <4>7, <4>8
    <3>7. CASE (\A k \in On(c) : call[k] = "back") /\ stream' = [stream EXCEPT ![c] = << >>]
      <4>1. stream'[c] = << >>
        BY <1>0, <1>5, <3>7
      <4>q. QED BY <3>2, <3>7, <4>1
    <3>q. QED BY <1>0, <1>5, <3>2, <3>4, <3>5, <3>6, <3>7 DEF Reads
  <2>q. QED BY <2>1, <2>2
<1>q. QED BY <1>4, <1>5

LEMMA ServeStep ==
    ASSUME Good, NEW j \in Jobs, Serves(j)
    PROVE  DialogueInv'
<1>1. PICK t \in Statuses : Served(j, t)
  BY ServeEffect
<1>2. OneCall'
  BY <1>1 DEF Good, DialogueInv, OneCall, Served
<1>3. \A k \in Jobs : CallInv(k)'
  BY <1>1, ServeCalls
<1>4. \A c \in Lines : OwnOnly(c)'
  BY <1>1, ServeOnly
<1>5. \A c \in Lines : Sent(c)' /\ Attended(c)'
  BY <1>1, ServeStream
<1>q. QED BY <1>2, <1>3, <1>4, <1>5 DEF DialogueInv, Lines

-----------------------------------------------------------------------------
(* The clients' steps.                                                      *)

\* What a client does leaves the jobs alone.
LEMMA JobsKept ==
    ASSUME UNCHANGED vars
    PROVE  /\ \A i \in Jobs : /\ said'[i] = said[i] /\ pc'[i] = pc[i] /\ Cmd(i)' = Cmd(i)
                              /\ LeftAtZip(i)' <=> LeftAtZip(i)
                              /\ Succeeded(i) => Succeeded(i)'
           /\ \A i \in Jobs : \A L, F : OnCourse(i, L, F) => OnCourse(i, L, F)'
<1>1. \A i \in Jobs : said'[i] = said[i] /\ pc'[i] = pc[i] /\ Cmd(i)' = Cmd(i)
  BY DEF vars, jvars, Cmd
<1>2. \A i \in Jobs : LeftAtZip(i)' <=> LeftAtZip(i)
  BY <1>1 DEF LeftAtZip, Heard, Failed
<1>3. \A i \in Jobs : Succeeded(i) => Succeeded(i)'
  BY <1>1 DEF Succeeded, Ended, At, Ready
<1>4. \A i \in Jobs : \A L, F : OnCourse(i, L, F) => OnCourse(i, L, F)'
  BY <1>1, CourseKept
<1>q. QED BY <1>1, <1>2, <1>3, <1>4

LEMMA AskStep ==
    ASSUME Good, NEW j \in Jobs, Ask(j)
    PROVE  DialogueInv'
<1>1. /\ call[j] = "todo" /\ \A k \in On(Conn[j]) : call[k] \in {"todo", "back"}
      /\ call'[j] = "talk" /\ asked'[j] = "header"
      /\ \A k \in Jobs \ {j} : call'[k] = call[k] /\ asked'[k] = asked[k]
      /\ UNCHANGED <<vars, wire, open, pos, clean, misread>>
      /\ stream' = [stream EXCEPT ![Conn[j]] = Append(@, <<j, "header">>)]
  BY DEF Ask, Good, ClientTypes, DialogueTypeOK
<1>2. /\ \A i \in Jobs : /\ said'[i] = said[i] /\ pc'[i] = pc[i] /\ Cmd(i)' = Cmd(i)
                         /\ LeftAtZip(i)' <=> LeftAtZip(i)
                         /\ Succeeded(i) => Succeeded(i)'
      /\ \A i \in Jobs : \A L, F : OnCourse(i, L, F) => OnCourse(i, L, F)'
  BY <1>1, JobsKept
<1>3. \A k \in Jobs : call'[k] = "back" <=> call[k] = "back"
  BY <1>1
<1>4. \A i \in Jobs : LeftBefore(i)' <=> LeftBefore(i)
  BY <1>2, <1>3 DEF LeftBefore, On
<1>5. OneCall'
  BY <1>1 DEF Good, DialogueInv, OneCall, On
<1>6. ASSUME NEW k \in Jobs \ {j} PROVE CallInv(k)'
  <2>0. CallInv(k) /\ k \in Jobs
    BY DEF Good, DialogueInv
  <2>1. InStep(k)'
    <3>1a. PICK L \in Nat : \E F :
              /\ OnCourse(k, L, F)
              /\ call[k] = "talk" /\ ~misread[k] => \E n \in 0 .. L : Reading(k, F, n)
      BY <2>0 DEF CallInv, InStep
    <3>1. PICK F :
              /\ OnCourse(k, L, F)
              /\ call[k] = "talk" /\ ~misread[k] => \E n \in 0 .. L : Reading(k, F, n)
      BY <3>1a
    <3>2. OnCourse(k, L, F)'
      BY <1>2, <3>1
    <3>3. \A n : Reading(k, F, n)' <=> Reading(k, F, n)
      <4>1. /\ Line(k)' = Line(k) /\ said'[k] = said[k] /\ pc'[k] = pc[k]
            /\ pos'[k] = pos[k] /\ clean'[k] = clean[k] /\ asked'[k] = asked[k]
        BY <1>1, <1>2, <2>0 DEF Line
      <4>2. \A n, m : Lies(k, n, m)' <=> Lies(k, n, m)
        BY <4>1 DEF Lies
      <4>q. QED BY <4>1, <4>2 DEF Reading
    <3>q. QED BY <1>1, <3>1, <3>2, <3>3 DEF InStep
  <2>2. NotCalled(k)'
    BY <1>1, <1>2, <2>0 DEF CallInv, NotCalled, AllRead, Line
  <2>3. Returned(k)'
    BY <1>1, <1>2, <2>0 DEF CallInv, Returned, AllRead, Line
  <2>4. Misled(k)'
    BY <1>1, <1>2, <1>4, <2>0, ZenonT(40) DEF CallInv, Misled, Line, Heard, Failed, LastWord
  <2>q. QED BY <1>1, <1>4, <2>0, <2>1, <2>2, <2>3, <2>4 DEF CallInv
<1>7. CallInv(j)'
  <2>0. /\ pc[j] = "idle" /\ said[j] = << >> /\ pos[j] = 1 /\ ~misread[j] /\ AllRead(j)
        /\ InStep(j)
    BY <1>1 DEF Good, DialogueInv, CallInv, NotCalled
  <2>1a. PICK L \in Nat : \E F : OnCourse(j, L, F)
    BY <2>0 DEF InStep
  <2>1. PICK F : OnCourse(j, L, F)
    BY <2>1a
  <2>2. F[0] = 1 /\ Len(said[j]) = 0
    BY <2>0, <2>1 DEF OnCourse, Way
  <2>3. PICK m \in Nat : m = Len(Line(j))
    <3>1. wire \in [Lines -> Letters] /\ Conn[j] \in Lines
      BY DEF Good, ClientTypes, DialogueTypeOK, Letters, Lines
    <3>q. QED BY <3>1 DEF Line, Letters
  <2>4. Lies(j, 0, m)'
    <3>1. Line(j)' = Line(j) /\ Len(said'[j]) = 0
      BY <1>1, <1>2, <2>2 DEF Line
    <3>2. /\ m + (0 - 0) = m /\ m + (0 - 0) <= m /\ ~(0 > 0)
          /\ \A i \in 1 .. 0 - 0 : FALSE
      OBVIOUS
    <3>q. QED BY <2>0, <2>3, <3>1, <3>2 DEF Lies, AllRead
  <2>5. Reading(j, F, 0)'
    <3>1. m \in 0 .. Len(Line(j)')
      BY <1>1, <2>3 DEF Line
    <3>2. \A i \in 1 .. 0 : FALSE
      OBVIOUS
    <3>3. pos'[j] = 1 /\ asked'[j] = "header"
      BY <1>1, <2>0
    <3>q. QED BY <2>2, <2>4, <3>1, <3>2, <3>3 DEF Reading, Return
  <2>6. InStep(j)'
    <3>1. 0 \in 0 .. L /\ OnCourse(j, L, F)'
      BY <1>2, <2>1
    <3>q. QED BY <2>5, <3>1 DEF InStep
  <2>7. NotCalled(j)' /\ Returned(j)' /\ Misled(j)'
    BY <1>1, <2>0 DEF NotCalled, Returned, Misled
  <2>q. QED BY <1>1, <2>6, <2>7 DEF CallInv
<1>8. ASSUME NEW c \in Lines PROVE OwnOnly(c)'
  <2>1. Tidy(c)' => Tidy(c)
    BY <1>2, <1>3 DEF Tidy, On
  <2>2. \A k \in Jobs : call[k] = "talk" => call'[k] = "talk"
    BY <1>1
  <2>3. OwnOnly(c)
    BY DEF Good, DialogueInv
  <2>q. QED BY <1>1, <2>1, <2>2, <2>3 DEF OwnOnly, On
<1>9. ASSUME NEW c \in Lines PROVE Sent(c)' /\ Attended(c)'
  <2>0. /\ stream \in [Lines -> Seq(Pieces)] /\ Conn[j] \in Lines /\ j \in On(Conn[j])
        /\ Sent(c) /\ Attended(c) /\ stream[c] \in Seq(Pieces)
    BY DEF Good, ClientTypes, DialogueTypeOK, Pieces, Lines, On, DialogueInv
  <2>1. \A k \in Jobs : call[k] # "todo" => call'[k] # "todo"
    BY <1>1
  <2>2. Tidy(c)' => Tidy(c)
    BY <1>2, <1>3 DEF Tidy, On
  <2>3. \A k \in Jobs \ {j} : pc'[k] = pc[k] /\ Due(k)' = Due(k)
    BY <1>1, <1>2 DEF Due
  <2>4. CASE c # Conn[j]
    <3>1. stream'[c] = stream[c] /\ \A k \in On(c) : k \in Jobs \ {j}
      BY <1>1, <2>0, <2>4 DEF On
    <3>2. Sent(c)'
      BY <2>0, <2>1, <3>1 DEF Sent
    <3>3. \A k \in On(c) : call'[k] = call[k] /\ asked'[k] = asked[k]
      BY <1>1, <3>1
    <3>4. Attended(c)'
      BY <1>1, <2>0, <2>2, <2>3, <3>1, <3>3, ZenonT(40) DEF Attended, On
    <3>q. QED BY <3>2, <3>4
  <2>5. CASE c = Conn[j]
    <3>1. stream'[c] = Append(stream[c], <<j, "header">>)
      BY <1>1, <2>0, <2>5
    <3>2. \A i \in 1 .. Len(stream'[c]) :
             stream'[c][i] = <<j, "header">>
             \/ \E h \in 1 .. Len(stream[c]) : stream'[c][i] = stream[c][h]
      BY <2>0, <3>1
    <3>3. Sent(c)'
      <4>1. call'[j] # "todo" /\ <<j, "header">>[1] = j
        BY <1>1
      <4>q. QED BY <2>0, <2>1, <3>2, <4>1 DEF Sent
    <3>4. Attended(c)'
      <4>1. SUFFICES ASSUME Tidy(c)
                     PROVE  /\ open[c] /\ stream'[c] = Due(j)' /\ pc'[j] = "idle"
                            /\ \A k \in On(c) : call'[k] = "talk" => k = j
        BY <1>1, <2>0, <2>2, <2>5 DEF Attended, On
      <4>2. stream[c] = << >> /\ open[c]
        BY <1>1, <2>0, <2>5, <4>1 DEF Attended
      <4>3. pc'[j] = "idle"
        BY <1>1, <1>2 DEF Good, DialogueInv, CallInv, NotCalled
      <4>4. stream'[c] = << <<j, "header">> >>
        BY <3>1, <4>2
      <4>5. Due(j)' = << <<j, "header">> >>
        BY <4>3 DEF Due
      <4>6. \A k \in On(c) : call'[k] = "talk" => k = j
        BY <1>1, <2>5 DEF On
      <4>q. QED BY <4>2, <4>3, <4>4, <4>5, <4>6
    <3>q. QED BY <3>3, <3>4
  <2>q. QED BY <2>4, <2>5
<1>q. QED BY <1>5, <1>6, <1>7, <1>8, <1>9 DEF DialogueInv, Lines

\* What a client's reading leaves alone.
Taken(j, w) ==
    /\ \A i \in Jobs \ {j} :
          /\ call'[i] = call[i] /\ asked'[i] = asked[i] /\ pos'[i] = pos[i]
          /\ clean'[i] = clean[i] /\ misread'[i] = misread[i]
    /\ call[j] = "talk" /\ call'[j] \in {"talk", "back", "lost"}
    /\ \A i \in Jobs : Conn[i] # Conn[j] => Line(i)' = Line(i)
    /\ \A i \in Jobs : Conn[i] = Conn[j] => Line(i) = w /\ Line(i)' = Tail(w)
    /\ \A i \in Jobs : /\ said'[i] = said[i] /\ pc'[i] = pc[i] /\ Cmd(i)' = Cmd(i)
                       /\ LeftAtZip(i)' <=> LeftAtZip(i)
                       /\ Succeeded(i) => Succeeded(i)'
    /\ \A i \in Jobs : \A L, F : OnCourse(i, L, F) => OnCourse(i, L, F)'
    /\ \A i \in Jobs : LeftBefore(i) => LeftBefore(i)'
    /\ \A i \in Jobs : AllRead(i) => AllRead(i)'
    /\ w # << >> /\ Len(w) \in Nat \ {0} /\ Len(Tail(w)) = Len(w) - 1
    /\ \A i \in 1 .. Len(w) - 1 : Tail(w)[i] = w[i + 1]

LEMMA TakeFrame ==
    ASSUME Good, NEW j \in Jobs, UNCHANGED vars, NEW w \in Letters, NEW k \in Jobs,
           NEW topic \in Topics, NEW b \in BOOLEAN, NEW p \in 1 .. 12,
           Takes(j, w, k, topic, b, p)
    PROVE  Taken(j, w)
<1>0. /\ wire \in [Lines -> Letters] /\ \A i \in Jobs : Conn[i] \in Lines
      /\ call \in [Jobs -> {"todo", "talk", "back", "lost"}]
      /\ asked \in [Jobs -> {"nothing", "header", "packet"}] /\ pos \in [Jobs -> Nat]
      /\ clean \in [Jobs -> BOOLEAN] /\ misread \in [Jobs -> BOOLEAN]
  BY DEF Good, ClientTypes, DialogueTypeOK, PlaceTypes, Letters, Lines
<1>1. ASSUME NEW i \in Jobs \ {j}
      PROVE  /\ call'[i] = call[i] /\ asked'[i] = asked[i] /\ pos'[i] = pos[i]
             /\ clean'[i] = clean[i] /\ misread'[i] = misread[i]
  BY <1>0 DEF Takes
<1>2. call[j] = "talk" /\ call'[j] \in {"talk", "back", "lost"}
  BY <1>0 DEF Takes
<1>3. \A i \in Jobs : Conn[i] # Conn[j] => Line(i)' = Line(i)
  BY <1>0 DEF Takes, Line
<1>4. \A i \in Jobs : Conn[i] = Conn[j] => Line(i) = w /\ Line(i)' = Tail(w)
  BY <1>0 DEF Takes, Line
<1>5. /\ \A i \in Jobs : /\ said'[i] = said[i] /\ pc'[i] = pc[i] /\ Cmd(i)' = Cmd(i)
                         /\ LeftAtZip(i)' <=> LeftAtZip(i)
                         /\ Succeeded(i) => Succeeded(i)'
      /\ \A i \in Jobs : \A L, F : OnCourse(i, L, F) => OnCourse(i, L, F)'
  BY JobsKept
<1>6. \A i \in Jobs : LeftBefore(i) => LeftBefore(i)'
  <2>1. \A i \in Jobs : call[i] = "back" => call'[i] = "back"
    BY <1>1, <1>2
  <2>q. QED BY <1>5, <2>1 DEF LeftBefore, On
<1>7. /\ w # << >> /\ Len(w) \in Nat \ {0} /\ Len(Tail(w)) = Len(w) - 1
      /\ \A i \in 1 .. Len(w) - 1 : Tail(w)[i] = w[i + 1]
  BY Read DEF Takes
<1>8. ASSUME NEW i \in Jobs, AllRead(i) PROVE AllRead(i)'
  <2>1. CASE Conn[i] # Conn[j]
    BY <1>3, <1>8, <2>1 DEF AllRead
  <2>2. CASE Conn[i] = Conn[j]
    <3>1. \A h \in 1 .. Len(w) : w[h][1] # i
      BY <1>4, <1>8, <2>2 DEF AllRead
    <3>2. \A h \in 1 .. Len(w) - 1 : h + 1 \in 1 .. Len(w)
      BY <1>7
    <3>3. \A h \in 1 .. Len(Tail(w)) : Tail(w)[h][1] # i
      BY <1>7, <3>1, <3>2
    <3>q. QED BY <1>4, <2>2, <3>3 DEF AllRead
  <2>q. QED BY <2>1, <2>2
<1>q. QED BY <1>1, <1>2, <1>3, <1>4, <1>5, <1>6, <1>7, <1>8 DEF Taken

\* The other calls, which do not read on this connection.
LEMMA TakeOther ==
    ASSUME Good, NEW j \in Jobs, NEW w \in Letters, Taken(j, w), NEW i \in Jobs \ {j}
    PROVE  CallInv(i)'
<1>0. CallInv(i) /\ i \in Jobs /\ i # j
  BY DEF Good, DialogueInv
<1>1. Conn[i] = Conn[j] => call[i] \notin {"talk", "lost"}
  BY <1>0 DEF Good, DialogueInv, OneCall, Taken
<1>2. InStep(i)'
  <2>1a. PICK L \in Nat : \E F :
            /\ OnCourse(i, L, F)
            /\ call[i] = "talk" /\ ~misread[i] => \E n \in 0 .. L : Reading(i, F, n)
    BY <1>0 DEF CallInv, InStep
  <2>1. PICK F :
            /\ OnCourse(i, L, F)
            /\ call[i] = "talk" /\ ~misread[i] => \E n \in 0 .. L : Reading(i, F, n)
    BY <2>1a
  <2>2. OnCourse(i, L, F)'
    BY <1>0, <2>1 DEF Taken
  <2>3. call[i] = "talk" => \A n : Reading(i, F, n)' <=> Reading(i, F, n)
    <3>1. SUFFICES ASSUME call[i] = "talk", NEW n PROVE Reading(i, F, n)' <=> Reading(i, F, n)
      OBVIOUS
    <3>2. Line(i)' = Line(i) /\ said'[i] = said[i] /\ pc'[i] = pc[i]
      BY <1>0, <1>1, <3>1 DEF Taken
    <3>3. pos'[i] = pos[i] /\ clean'[i] = clean[i] /\ asked'[i] = asked[i]
      BY <1>0 DEF Taken
    <3>4. \A m : Lies(i, n, m)' <=> Lies(i, n, m)
      BY <3>2 DEF Lies
    <3>q. QED BY <3>2, <3>3, <3>4 DEF Reading
  <2>4. call'[i] = call[i] /\ misread'[i] = misread[i]
    BY <1>0 DEF Taken
  <2>q. QED BY <2>1, <2>2, <2>3, <2>4 DEF InStep
<1>3. NotCalled(i)'
  BY <1>0 DEF CallInv, NotCalled, Taken
<1>4. Returned(i)'
  BY <1>0 DEF CallInv, Returned, Taken
<1>5. Misled(i)'
  BY <1>0, <1>1 DEF CallInv, Misled, Taken, Heard, Failed, LastWord
<1>q. QED BY <1>0, <1>2, <1>3, <1>4, <1>5 DEF CallInv, Taken

\* Another job's status, or one after the client has misread, is read behind a
\* call that left its own.
LEMMA TakeForeign ==
    ASSUME Good, NEW j \in Jobs, NEW w \in Letters, Taken(j, w), NEW k \in Jobs,
           w[1][1] = k, misread[j] \/ k # j
    PROVE  LeftBefore(j)
<1>1. CASE misread[j]
  <2>1. Line(j) # << >> /\ Misled(j)
    BY DEF Taken, Good, DialogueInv, CallInv
  <2>q. QED BY <1>1, <2>1 DEF Misled
<1>2. CASE k # j
  <2>1. 1 \in 1 .. Len(w) /\ wire[Conn[j]] = w /\ Conn[j] \in Lines
    BY DEF Taken, Line, Lines
  <2>2. Tidy(Conn[j]) => k \in On(Conn[j]) /\ call[k] = "talk"
    BY <2>1 DEF Good, DialogueInv, OwnOnly
  <2>3. ~Tidy(Conn[j])
    BY <1>2, <2>2 DEF Good, DialogueInv, OneCall, On, Taken
  <2>q. QED BY <2>3 DEF Tidy, LeftBefore, Taken
<1>q. QED BY <1>1, <1>2

\* Then nothing more is claimed of the client.
LEMMA TakeLost ==
    ASSUME Good, NEW j \in Jobs, NEW w \in Letters, Taken(j, w), LeftBefore(j),
           misread'[j]
    PROVE  CallInv(j)' /\ OwnOnly(Conn[j])'
<1>1. InStep(j) /\ LeftBefore(j)'
  BY DEF Good, DialogueInv, CallInv, Taken
<1>2. InStep(j)'
  BY <1>1 DEF InStep, Taken
<1>3. NotCalled(j)' /\ Returned(j)' /\ Misled(j)'
  BY <1>1 DEF NotCalled, Returned, Misled, Taken
<1>4. ~Tidy(Conn[j])'
  BY <1>1 DEF Tidy, LeftBefore
<1>q. QED BY <1>1, <1>2, <1>3, <1>4 DEF CallInv, OwnOnly

LEMMA SaidTypes ==
    ASSUME Good, NEW j \in Jobs
    PROVE  said[j] \in Statuses /\ Len(said[j]) \in Nat
<1>1. said[j] \in Statuses
  BY DEF Good, ServerInv, TypeOK, Statuses
<1>q. QED BY <1>1 DEF Statuses

\* What the client reads is its own job's, up to where they part.
LEMMA TakeHead ==
    ASSUME Good, NEW j \in Jobs, NEW w \in Letters, Taken(j, w),
           NEW topic \in Topics, NEW b \in BOOLEAN, w[1] = <<j, <<topic, b>> >>,
           NEW n \in Nat, n <= Len(said[j]), NEW m \in Nat, Lies(j, n, m)
    PROVE  /\ m = 0 /\ n + 1 \in 1 .. Len(said[j])
           /\ said[j][n + 1] = <<topic, b>>
<1>1. Line(j) = w /\ Len(w) \in Nat \ {0}
  BY DEF Taken
<1>2. PICK a \in Nat : a = Len(said[j])
  BY SaidTypes
<1>3. 1 \in 1 .. Len(w) /\ w[1][1] = j
  BY <1>1
<1>4. 1 \in m + 1 .. m + (a - n)
  BY <1>1, <1>2, <1>3 DEF Lies
<1>5. m = 0 /\ n + 1 \in 1 .. a /\ 1 \in 1 .. a - n /\ m + 1 = 1
  BY <1>2, <1>4
<1>6. Line(j)[m + 1] = <<j, said[j][n + 1]>>
  BY <1>2, <1>5 DEF Lies
<1>q. QED BY <1>1, <1>2, <1>5, <1>6

\* The line without its first status.
LEMMA LiesRest ==
    ASSUME Good, NEW j \in Jobs, NEW w \in Letters, Taken(j, w),
           NEW n \in Nat, n + 1 <= Len(said[j]), Lies(j, n, 0)
    PROVE  Lies(j, n + 1, 0)'
<1>1. PICK a \in Nat, d \in Nat : a = Len(said[j]) /\ d = Len(w) /\ d > 0
  <2>1. Len(w) \in Nat /\ Len(w) > 0
    BY DEF Taken
  <2>q. QED BY <2>1, SaidTypes
<1>2. /\ Line(j) = w /\ Line(j)' = Tail(w) /\ Len(Tail(w)) = d - 1
      /\ \A i \in 1 .. d - 1 : Tail(w)[i] = w[i + 1]
      /\ said'[j] = said[j] /\ pc'[j] = pc[j]
  BY <1>1 DEF Taken
<1>3. /\ a - n <= d
      /\ pc[j] # "done" => a - n = d
      /\ \A i \in 1 .. a - n : w[i] = <<j, said[j][n + i]>>
      /\ \A i \in 1 .. d : w[i][1] = j => i \in 1 .. a - n
  <2>1. \A i \in 1 .. a - n : 0 + i = i
    BY <1>1
  <2>2. 0 + (a - n) = a - n /\ 0 + 1 = 1
    BY <1>1
  <2>q. QED BY <1>1, <1>2, <2>1, <2>2 DEF Lies
<1>4. ASSUME NEW i \in 1 .. a - (n + 1)
      PROVE  Tail(w)[0 + i] = <<j, said[j][(n + 1) + i]>>
  <2>0. a - n <= d
    BY <1>3
  <2>1. i \in 1 .. d - 1 /\ i + 1 \in 1 .. a - n /\ n + (i + 1) = (n + 1) + i /\ 0 + i = i
    BY <1>1, <2>0
  <2>q. QED BY <1>2, <1>3, <2>1
<1>5. ASSUME NEW i \in 1 .. d - 1, Tail(w)[i][1] = j
      PROVE  i \in 0 + 1 .. 0 + (a - (n + 1))
  <2>1. i + 1 \in 1 .. d /\ w[i + 1][1] = j
    BY <1>1, <1>2, <1>5
  <2>2. i + 1 \in 1 .. a - n
    BY <1>3, <2>1
  <2>q. QED BY <1>1, <2>2
<1>6. /\ 0 + (a - (n + 1)) <= d - 1
      /\ pc[j] # "done" => 0 + (a - (n + 1)) = d - 1
  BY <1>1, <1>3
<1>q. QED BY <1>1, <1>2, <1>4, <1>5, <1>6 DEF Lies

\* Only over is nothing expected any more.
LEMMA OnWayReturned ==
    ASSUME NEW cmd \in Commands, NEW l \in LabelsOf(cmd), NEW word,
           OnWay(cmd, l, word, Return)
    PROVE  l = "done" \/ (l = "tClean" /\ word = Failed("mount"))
<1>1. SUFFICES ASSUME l \notin {"tClean", "done"} PROVE FALSE
  BY DEF OnWay
<1>2. Place(cmd, l) + 1 = 0
  BY <1>1 DEF OnWay, Return
<1>3. CASE cmd = "gen"
  BY <1>1, <1>2, <1>3, Places DEF LabelsOf, Patches
<1>4. CASE cmd = "extract"
  <2>1. Place("extract", "rClean") = 9
    BY DEF Place, Patches
  <2>q. QED BY <1>1, <1>2, <1>4, <2>1, Places DEF LabelsOf, Commands
<1>5. CASE cmd = "resign"
  <2>1. l # "rClean"
    BY <1>5 DEF OnWay
  <2>q. QED BY <1>1, <1>2, <1>5, <2>1, Places DEF LabelsOf, Commands
<1>q. QED BY <1>3, <1>4, <1>5 DEF Commands

\* A status is READY or not.
LEMMA ReadyOrFailed ==
    /\ \A topic : ~Failed(topic)[2]
    /\ \A x \in Topics \X BOOLEAN : x[2] => x = Ready(x[1])
    /\ \A topic, b \in BOOLEAN : <<topic, b>>[2] <=> b
<1>1. ASSUME NEW topic PROVE ~Failed(topic)[2]
  BY DEF Failed
<1>2. ASSUME NEW x \in Topics \X BOOLEAN, x[2] PROVE x = Ready(x[1])
  <2>1. PICK topic \in Topics, b \in BOOLEAN : x = <<topic, b>>
    OBVIOUS
  <2>2. x[1] = topic /\ x[2] = b
    BY <2>1
  <2>3. b = TRUE
    BY <1>2, <2>2
  <2>q. QED BY <2>1, <2>2, <2>3 DEF Ready
<1>3. ASSUME NEW topic, NEW b \in BOOLEAN PROVE <<topic, b>>[2] <=> b
  OBVIOUS
<1>q. QED BY <1>1, <1>2, <1>3

\* A client that has read only READY up to its return has read its script.
LEMMA ReadyToTheEnd ==
    ASSUME Good, NEW j \in Jobs, NEW F, NEW L \in Nat, OnCourse(j, L, F),
           F[L] = Return, \A i \in 1 .. L : said[j][i][2], L > 0
    PROVE  Succeeded(j)
<1>1. TypeOK /\ Cmd(j) \in Commands /\ pc[j] \in LabelsOf(Cmd(j)) /\ L \in 1 .. L
  BY DEF Good, ServerInv, TypeOK, OwnLabels, Cmd
<1>2. L = Len(said[j]) /\ OnWay(Cmd(j), pc[j], LastWord(j), Return)
  <2>1. ~AfterZip(j, L, F[L])
    <3>1. said[j][L] # Failed("zip")
      BY <1>1, ReadyOrFailed
    <3>q. QED BY <3>1 DEF AfterZip
  <2>2. ~AfterMount(j, L, F[L])
    BY DEF AfterMount, Return
  <2>q. QED BY <2>1, <2>2 DEF OnCourse, Here
<1>3. pc[j] = "done"
  <2>1. LastWord(j) # Failed("mount")
    BY <1>1, <1>2, ReadyOrFailed DEF LastWord
  <2>q. QED BY <1>1, <1>2, <2>1, OnWayReturned
<1>4. PICK n \in 10 .. 12 : n = Len(Script(Cmd(j)))
  BY <1>1, FollowedTypes
<1>5. \A i \in 0 .. L : F[i] = IF i = n THEN Return ELSE i + 1
  <2>1. ASSUME NEW i \in 0 .. L PROVE F[i] = IF i = n THEN Return ELSE i + 1
    <3>1. \A h \in 1 .. i : h \in 1 .. L
      OBVIOUS
    <3>2. F[i] = OnReady(Cmd(j), i)
      BY <3>1 DEF OnCourse, Way
    <3>q. QED BY <1>4, <3>2 DEF OnReady
  <2>q. QED BY <2>1
<1>6. L = n
  <2>1. L \in 0 .. L /\ L + 1 # 0
    OBVIOUS
  <2>q. QED BY <1>5, <2>1 DEF Return
<1>7. ASSUME NEW i \in 1 .. n PROVE said[j][i] = Ready(Script(Cmd(j))[i])
  <2>1. i - 1 \in 0 .. L /\ i - 1 # n /\ (i - 1) + 1 = i /\ i \in 1 .. L /\ i \in 1 .. Len(said[j])
    BY <1>2, <1>6
  <2>2. F[i - 1] = i
    BY <1>5, <2>1
  <2>3. said[j][i][1] = Script(Cmd(j))[i] /\ said[j][i][2]
    BY <2>1, <2>2 DEF OnCourse, Way
  <2>4. said[j][i] \in Topics \X BOOLEAN
    BY <2>1, SaidTypes DEF Statuses
  <2>q. QED BY <2>3, <2>4, ReadyOrFailed
<1>8. ReadTo(j, Len(Script(Cmd(j))))
  BY <1>2, <1>4, <1>6, <1>7 DEF ReadTo
<1>q. QED BY <1>1, <1>3, <1>8, AllReadIsSuccess DEF Ended, At

\* A client takes its job's next status, as long as the two are on their way.
TakesOwn(j, F, L, n, topic, b) ==
    /\ OnCourse(j, L, F) /\ Reading(j, F, n) /\ Lies(j, n, 0)
    /\ n \in 0 .. L /\ n + 1 \in 1 .. Len(said[j])
    /\ said[j][n + 1] = <<topic, b>>
    /\ ~misread[j]

LEMMA TakeOwn ==
    ASSUME Good, NEW j \in Jobs, NEW w \in Letters, Taken(j, w),
           NEW topic \in Topics, NEW b \in BOOLEAN, NEW p \in 1 .. 12,
           Takes(j, w, j, topic, b, p), NEW F, NEW L \in Nat, NEW n \in Nat,
           TakesOwn(j, F, L, n, topic, b), n < L
    PROVE  CallInv(j)' /\ ~misread'[j] /\ call'[j] # "lost"
<1> USE DEF TakesOwn
<1>0. /\ misread \in [Jobs -> BOOLEAN] /\ clean \in [Jobs -> BOOLEAN]
      /\ asked \in [Jobs -> {"nothing", "header", "packet"}]
      /\ call \in [Jobs -> {"todo", "talk", "back", "lost"}] /\ pos \in [Jobs -> Nat]
      /\ Cmd(j) \in Commands
  BY DEF Good, ServerInv, TypeOK, Cmd, ClientTypes, DialogueTypeOK, PlaceTypes
<1>1. PICK h \in 1 .. L : h = n + 1 /\ h - 1 = n
  OBVIOUS
<1>2. /\ p = F[n] /\ topic = Script(Cmd(j))[p] /\ F[h] = Follow(Cmd(j), p, b)
  <2>1. p = F[n]
    BY DEF Reading, Takes
  <2>2. said[j][h][1] = Script(Cmd(j))[F[h - 1]] /\ F[h] = Follow(Cmd(j), F[h - 1], said[j][h][2])
    BY <1>1 DEF OnCourse, Way
  <2>3. said[j][h][1] = topic /\ said[j][h][2] = b
    BY <1>1
  <2>q. QED BY <1>1, <2>1, <2>2, <2>3
<1>3. ~misread'[j]
  BY <1>0, <1>2 DEF Takes
<1>4. PICK q : q = F[h]
  OBVIOUS
<1>5. Framed(Script(Cmd(j))[p], topic)
  BY <1>2 DEF Framed
<1>6. pos'[j] = q /\ call'[j] = (IF q = Return THEN "back" ELSE "talk")
  <2>1. call[j] = "talk"
    BY DEF Takes
  <2>2. /\ pos' = [pos EXCEPT ![j] = q]
        /\ call' = [call EXCEPT ![j] = IF q = Return THEN "back" ELSE @]
    BY <1>2, <1>4, <1>5 DEF Takes
  <2>q. QED BY <1>0, <2>1, <2>2
<1>7. clean'[j] => clean[j] /\ b
  BY <1>0, <1>5 DEF Takes
<1>8. clean'[j] => \A i \in 1 .. h : said'[j][i][2]
  <2>1. SUFFICES ASSUME clean'[j], NEW i \in 1 .. h PROVE said[j][i][2]
    BY DEF Taken
  <2>2. CASE i = h
    <3>1. b /\ said[j][i] = <<topic, b>>
      BY <1>1, <1>7, <2>1, <2>2
    <3>q. QED BY <3>1, ReadyOrFailed
  <2>3. CASE i # h
    <3>1. i \in 1 .. n
      BY <1>1, <2>3
    <3>q. QED BY <1>7, <2>1, <3>1 DEF Reading
  <2>q. QED BY <2>2, <2>3
<1>9. OnCourse(j, L, F)' /\ Lies(j, h, 0)'
  <2>1. Lies(j, n + 1, 0)'
    BY LiesRest
  <2>q. QED BY <1>1, <2>1 DEF Taken
<1>10. CASE q # Return
  <2>1. asked'[j] = "packet"
    <3>1. asked' = [asked EXCEPT ![j] =
              IF Script(Cmd(j))[p] = "command" /\ b THEN "packet" ELSE @]
      BY <1>5 DEF Takes
    <3>2. CASE n # 0
      BY <1>0, <3>1, <3>2 DEF Reading
    <3>3. CASE n = 0
      <4>1. p = 1 /\ Script(Cmd(j))[p] = "command"
        BY <1>0, <1>2, <3>3, Scripts DEF OnCourse, Way
      <4>2. b
        <5>1. OnFailure(Cmd(j), 1) = Return
          BY <1>0 DEF OnFailure, GenerateOnFailure, ExtractOnFailure, ResignOnFailure, Commands
        <5>q. QED BY <1>2, <1>4, <1>10, <4>1, <5>1 DEF Follow
      <4>q. QED BY <1>0, <3>1, <4>1, <4>2
    <3>q. QED BY <3>2, <3>3
  <2>2. Len(Line(j)') \in Nat
    BY DEF Taken
  <2>3. 0 \in 0 .. Len(Line(j)')
    BY <2>2
  <2>4. h # 0 /\ pos'[j] = F[h]
    BY <1>4, <1>6
  <2>5. Reading(j, F, h)'
    BY <1>4, <1>8, <1>9, <1>10, <2>1, <2>3, <2>4 DEF Reading
  <2>6. InStep(j)'
    <3>1. h \in 0 .. L
      OBVIOUS
    <3>q. QED BY <1>9, <2>5, <3>1 DEF InStep
  <2>7. call'[j] = "talk"
    BY <1>6, <1>10
  <2>q. QED BY <1>3, <2>6, <2>7 DEF CallInv, NotCalled, Returned, Misled
<1>11. CASE q = Return
  <2>1. h = L
    <3>1. SUFFICES ASSUME h # L PROVE FALSE
      OBVIOUS
    <3>2. h + 1 \in 1 .. L /\ (h + 1) - 1 = h
      BY <3>1
    <3>q. QED BY <1>4, <1>11, <3>2 DEF OnCourse, Way
  <2>2. L \in 1 .. L /\ F[L] = Return /\ call'[j] = "back"
    BY <1>4, <1>6, <1>11, <2>1
  <2>3. clean'[j] => Succeeded(j)'
    <3>1. SUFFICES ASSUME clean'[j] PROVE Succeeded(j)
      BY DEF Taken
    <3>2. \A i \in 1 .. L : said[j][i][2]
      BY <1>8, <2>1, <3>1 DEF Taken
    <3>q. QED BY <2>2, <3>2, ReadyToTheEnd
  <2>4. LeftAtZip(j)' \/ (pc'[j] \in {"tClean", "done"} /\ AllRead(j)')
    <3>1. CASE AfterZip(j, L, F[L])
      <4>1. L \in 1 .. Len(said[j]) /\ said[j][L] = Failed("zip") /\ Cmd(j) = "extract"
        BY <1>1, <2>1, <3>1 DEF AfterZip
      <4>q. QED BY <4>1 DEF LeftAtZip, Heard, Taken
    <3>2. CASE AfterMount(j, L, F[L])
      BY <2>2, <3>2 DEF AfterMount, Return
    <3>3. CASE L = Len(said[j]) /\ OnWay(Cmd(j), pc[j], LastWord(j), F[L])
      <4>1. pc[j] \in {"tClean", "done"}
        BY <1>0, <2>2, <3>3, OnWayReturned DEF Good, ServerInv, OwnLabels
      <4>2. AllRead(j)'
        <5>1. Len(said'[j]) = h
          BY <2>1, <3>3 DEF Taken
        <5>2. \A i \in 0 + 1 .. 0 + (h - h) : FALSE
          OBVIOUS
        <5>q. QED BY <1>9, <5>1, <5>2 DEF Lies, AllRead
      <4>q. QED BY <4>1, <4>2 DEF Taken
    <3>q. QED BY <3>1, <3>2, <3>3 DEF OnCourse, Here
  <2>5. Returned(j)'
    BY <2>3, <2>4 DEF Returned
  <2>6. InStep(j)'
    BY <1>9, <2>2 DEF InStep
  <2>q. QED BY <1>3, <2>2, <2>5, <2>6 DEF CallInv, NotCalled, Misled
<1>q. QED BY <1>10, <1>11

LEMMA EmptyLetters ==
    ASSUME NEW v \in Letters, Len(v) = 0
    PROVE  v = << >>
  BY DEF Letters

\* As long as no call has left its statuses behind, a client reads its own.
LEMMA OwnAlone ==
    ASSUME Good, NEW j \in Jobs, NEW w \in Letters, Taken(j, w), ~LeftBefore(j)
    PROVE  Tidy(Conn[j]) /\ \A i \in 1 .. Len(w) : w[i][1] = j
<1>1. Tidy(Conn[j])
  BY DEF Tidy, LeftBefore, Taken
<1>2. wire[Conn[j]] = w /\ Conn[j] \in Lines
  BY DEF Taken, Line, Lines
<1>3. ASSUME NEW i \in 1 .. Len(w) PROVE w[i][1] = j
  <2>1. w[i][1] \in On(Conn[j]) /\ call[w[i][1]] = "talk"
    BY <1>1, <1>2 DEF Good, DialogueInv, OwnOnly
  <2>q. QED BY <2>1 DEF Good, DialogueInv, OneCall, On, Taken
<1>q. QED BY <1>1, <1>3

\* The client of a resign takes the deletion's status for the unmount's.
LEMMA TakeAfterMount ==
    ASSUME Good, NEW j \in Jobs, NEW w \in Letters, Taken(j, w),
           NEW topic \in Topics, NEW b \in BOOLEAN, NEW p \in 1 .. 12,
           Takes(j, w, j, topic, b, p), NEW F, NEW L \in Nat,
           TakesOwn(j, F, L, L, topic, b)
    PROVE  CallInv(j)' /\ call'[j] = "talk"
<1> USE DEF TakesOwn
<1>0. /\ misread \in [Jobs -> BOOLEAN] /\ pos \in [Jobs -> Nat]
      /\ call \in [Jobs -> {"todo", "talk", "back", "lost"}]
  BY DEF Good, ClientTypes, DialogueTypeOK, PlaceTypes
<1>1. PICK a \in Nat : a = Len(said[j]) /\ L + 1 <= a
  BY SaidTypes
<1>2. AfterMount(j, L, F[L])
  BY <1>1 DEF OnCourse, Here, AfterZip, Reading
<1>3. /\ Cmd(j) = "resign" /\ F[L] = 7 /\ L > 0 /\ said[j][L] = Failed("mount")
      /\ a = L + 1 /\ pc[j] = "done" /\ said[j][L + 1][1] = "delete"
  BY <1>1, <1>2 DEF AfterMount
<1>4. p = 7 /\ topic = "delete" /\ Script(Cmd(j))[p] = "umount"
  BY <1>3, Scripts DEF Reading, Takes
<1>5. PICK q \in {8, 12} : q = Follow(Cmd(j), p, b)
  <2>1. OnReady("resign", 7) = 8
    BY ReadyNext DEF Commands
  <2>2. OnFailure("resign", 7) = 12
    BY DEF OnFailure, ResignOnFailure
  <2>q. QED BY <1>3, <1>4, <2>1, <2>2 DEF Follow
<1>6. Framed(Script(Cmd(j))[p], topic)
  BY <1>4 DEF Framed, InTransfer, TransferTopics
<1>7. call'[j] = "talk"
  <2>1. call[j] = "talk"
    BY DEF Takes
  <2>2. call' = [call EXCEPT ![j] = IF q = Return THEN "back" ELSE @]
    BY <1>5, <1>6 DEF Takes
  <2>q. QED BY <1>0, <2>1, <2>2 DEF Return
<1>8. misread'[j]
  BY <1>0, <1>4 DEF Takes
<1>9. InStep(j)'
  <2>1. OnCourse(j, L, F)'
    BY DEF Taken
  <2>q. QED BY <1>8, <2>1 DEF InStep
<1>10. Misled(j)'
  <2>1. SUFFICES ASSUME ~LeftBefore(j) PROVE Misled(j)'
    BY DEF Misled, Taken
  <2>2. \A i \in 1 .. Len(w) : w[i][1] = j
    BY <2>1, OwnAlone
  <2>3. \A i \in 1 .. Len(w) : i \in 0 + 1 .. 0 + (a - L)
    <3>1. Line(j) = w
      BY DEF Taken
    <3>q. QED BY <1>1, <2>2, <3>1 DEF Lies
  <2>4. PICK d \in Nat \ {0} : d = Len(w)
    BY DEF Taken
  <2>5. d = 1
    BY <1>3, <2>3, <2>4
  <2>6. Line(j)' = << >>
    <3>0. w # << >>
      BY DEF Taken
    <3>1. Tail(w) \in Letters
      BY <3>0, Read
    <3>2. Len(Tail(w)) = 0
      <4>1. Len(Tail(w)) = Len(w) - 1
        BY <3>0, Read
      <4>2. Len(w) = 1
        BY <2>4, <2>5
      <4>q. QED BY <4>1, <4>2
    <3>3. Tail(w) = << >>
      BY <3>1, <3>2, EmptyLetters
    <3>4. Line(j)' = Tail(w)
      BY DEF Taken
    <3>q. QED BY <3>3, <3>4
  <2>7. Heard(j, Failed("mount"))' /\ LastWord(j)'[1] = "delete"
    <3>1. said'[j] = said[j]
      BY DEF Taken
    <3>2. L \in 1 .. Len(said[j]) /\ said[j][L] = Failed("mount")
      BY <1>1, <1>3
    <3>3. LastWord(j)[1] = "delete"
      BY <1>1, <1>3 DEF LastWord
    <3>q. QED BY <3>1, <3>2, <3>3 DEF Heard, Failed, LastWord
  <2>8. pc'[j] = "done" /\ Cmd(j)' = "resign"
    BY <1>3 DEF Taken
  <2>q. QED BY <1>7, <2>6, <2>7, <2>8 DEF Misled
<1>q. QED BY <1>7, <1>8, <1>9, <1>10 DEF CallInv, NotCalled, Returned

LEMMA TakeOnly ==
    ASSUME Good, NEW j \in Jobs, NEW w \in Letters, Taken(j, w), CallInv(j)'
    PROVE  OwnOnly(Conn[j])'
<1>1. SUFFICES ASSUME Tidy(Conn[j])', NEW i \in 1 .. Len(wire'[Conn[j]])
               PROVE  /\ wire'[Conn[j]][i][1] \in On(Conn[j])
                      /\ call'[wire'[Conn[j]][i][1]] = "talk"
  BY DEF OwnOnly, On
<1>2. ~LeftBefore(j)' /\ ~LeftBefore(j) /\ ~(call'[j] = "back" /\ LeftAtZip(j)')
  <2>1. ~LeftBefore(j)' /\ ~(call'[j] = "back" /\ LeftAtZip(j)')
    BY <1>1 DEF Tidy, LeftBefore, On
  <2>q. QED BY <2>1 DEF Taken
<1>3. /\ wire'[Conn[j]] = Line(j)' /\ Line(j)' = Tail(w) /\ Len(Tail(w)) = Len(w) - 1
      /\ Len(w) \in Nat \ {0}
      /\ \A h \in 1 .. Len(w) - 1 : Tail(w)[h] = w[h + 1]
  BY DEF Taken, Line
<1>4. wire'[Conn[j]][i][1] = j
  <2>1. \A h \in 1 .. Len(w) : w[h][1] = j
    BY <1>2, OwnAlone
  <2>2. i \in 1 .. Len(w) - 1 /\ i + 1 \in 1 .. Len(w)
    BY <1>3
  <2>q. QED BY <1>3, <2>1, <2>2
<1>5. call'[j] = "talk"
  <2>1. ~misread'[j]
    <3>1. Line(j)' # << >>
      <4>1. i \in 1 .. Len(Line(j)')
        BY <1>3
      <4>q. QED BY <4>1
    <3>q. QED BY <1>2, <3>1 DEF CallInv, Misled
  <2>2. call'[j] # "lost" /\ call'[j] \in {"talk", "back", "lost"}
    BY <1>2 DEF CallInv, Taken
  <2>3. call'[j] # "back"
    <3>1. SUFFICES ASSUME call'[j] = "back" PROVE FALSE
      OBVIOUS
    <3>2. AllRead(j)'
      BY <1>2, <2>1, <3>1 DEF CallInv, Returned
    <3>q. QED BY <1>3, <1>4, <3>2 DEF AllRead
  <2>q. QED BY <2>2, <2>3
<1>q. QED BY <1>4, <1>5 DEF On

LEMMA ReadCall ==
    ASSUME Good, NEW j \in Jobs, NEW w \in Letters, Taken(j, w), NEW k \in Jobs,
           NEW topic \in Topics, NEW b \in BOOLEAN, NEW p \in 1 .. 12,
           Takes(j, w, k, topic, b, p)
    PROVE  CallInv(j)'
<1>1. call[j] = "talk" /\ w[1] = <<k, <<topic, b>> >> /\ w[1][1] = k
  BY DEF Takes
<1>2. CASE misread[j] \/ k # j
  <2>1. LeftBefore(j)
    BY <1>1, <1>2, TakeForeign
  <2>2. misread'[j]
    <3>1. misread \in [Jobs -> BOOLEAN]
      BY DEF Good, ClientTypes, DialogueTypeOK
    <3>2. misread' = [misread EXCEPT ![j] = @ \/ k # j \/ topic # Script(Cmd(j))[p]]
      BY DEF Takes
    <3>q. QED BY <1>2, <3>1, <3>2
  <2>q. QED BY <2>1, <2>2, TakeLost
<1>3. CASE ~misread[j] /\ k = j
  <2>1a. PICK L \in Nat : \E F :
            /\ OnCourse(j, L, F)
            /\ call[j] = "talk" /\ ~misread[j] => \E n \in 0 .. L : Reading(j, F, n)
    BY DEF Good, DialogueInv, CallInv, InStep
  <2>1. PICK F :
            /\ OnCourse(j, L, F)
            /\ call[j] = "talk" /\ ~misread[j] => \E n \in 0 .. L : Reading(j, F, n)
    BY <2>1a
  <2>2. PICK n \in 0 .. L : Reading(j, F, n)
    BY <1>1, <1>3, <2>1
  <2>3. PICK d \in Nat : d = Len(Line(j))
    BY DEF Taken
  <2>4. PICK m \in 0 .. d : Lies(j, n, m)
    BY <2>2, <2>3 DEF Reading
  <2>5. n \in Nat /\ m \in Nat /\ n <= Len(said[j])
    <3>1. L \in 0 .. Len(said[j])
      BY <2>1 DEF OnCourse, Way
    <3>q. QED BY <3>1, SaidTypes
  <2>6. m = 0 /\ n + 1 \in 1 .. Len(said[j]) /\ said[j][n + 1] = <<topic, b>>
    BY <1>1, <1>3, <2>4, <2>5, TakeHead
  <2>7. TakesOwn(j, F, L, n, topic, b)
    BY <1>3, <2>1, <2>2, <2>4, <2>6 DEF TakesOwn
  <2>8. Takes(j, w, j, topic, b, p)
    BY <1>3
  <2>9. CASE n < L
    BY <2>5, <2>7, <2>8, <2>9, TakeOwn
  <2>10. CASE n = L
    BY <2>7, <2>8, <2>10, TakeAfterMount
  <2>q. QED BY <2>9, <2>10
<1>q. QED BY <1>2, <1>3

\* The packet is sent when the job waits for it.
LEMMA TakeStream ==
    ASSUME Good, NEW j \in Jobs, ReadStatus(j), NEW w \in Letters, Taken(j, w),
           CallInv(j)', NEW c \in Lines
    PROVE  Sent(c)' /\ Attended(c)'
<1>0. /\ stream \in [Lines -> Seq(Pieces)] /\ Conn[j] \in Lines /\ j \in On(Conn[j])
      /\ Sent(c) /\ Attended(c) /\ stream[c] \in Seq(Pieces) /\ open' = open
      /\ stream' = [stream EXCEPT ![Conn[j]] =
             IF asked'[j] = asked[j] THEN @ ELSE Append(@, <<j, "packet">>)]
      /\ asked'[j] \in {asked[j], "packet"} /\ call[j] = "talk"
      /\ \A i \in Jobs : pc'[i] = pc[i] /\ said'[i] = said[i]
      /\ \A i \in Jobs \ {j} : call'[i] = call[i] /\ asked'[i] = asked[i]
  <2>1. asked'[j] \in {asked[j], "packet"}
    BY DEF ReadStatus, Good, ClientTypes, DialogueTypeOK
  <2>q. QED BY <2>1 DEF ReadStatus, Good, ClientTypes, DialogueTypeOK, Pieces, Lines, On,
                         DialogueInv, Taken
<1>1. \A k \in Jobs : call[k] # "todo" => call'[k] # "todo"
  BY <1>0 DEF Taken
<1>2. Tidy(c)' => Tidy(c)
  BY <1>0 DEF Tidy, On, Taken
<1>3. \A k \in Jobs \ {j} : Due(k)' = Due(k)
  BY <1>0 DEF Due
<1>4. CASE c # Conn[j]
  <2>1. stream'[c] = stream[c] /\ \A k \in On(c) : k \in Jobs \ {j}
    BY <1>0, <1>4 DEF On
  <2>q. QED BY <1>0, <1>1, <1>2, <1>3, <2>1, ZenonT(40) DEF Sent, Attended, On
<1>5. CASE c = Conn[j]
  <2>1. stream'[c] = IF asked'[j] = asked[j] THEN stream[c] ELSE Append(stream[c], <<j, "packet">>)
    BY <1>0, <1>5
  <2>2. Sent(c)'
    <3>1. \A i \in 1 .. Len(stream'[c]) :
             stream'[c][i] = <<j, "packet">>
             \/ \E h \in 1 .. Len(stream[c]) : stream'[c][i] = stream[c][h]
      BY <1>0, <2>1, SMTT(30)
    <3>2. call'[j] # "todo" /\ <<j, "packet">>[1] = j
      BY <1>0, <1>1
    <3>q. QED
      <4>1. SUFFICES ASSUME NEW i \in 1 .. Len(stream'[c]), NEW k \in Jobs,
                            stream'[c][i][1] = k
                     PROVE  call'[k] # "todo"
        BY DEF Sent
      <4>2. CASE stream'[c][i] = <<j, "packet">>
        BY <3>2, <4>1, <4>2
      <4>3. ASSUME NEW h \in 1 .. Len(stream[c]), stream'[c][i] = stream[c][h]
            PROVE  call'[k] # "todo"
        <5>1. call[k] # "todo"
          BY <1>0, <4>1, <4>3 DEF Sent
        <5>q. QED BY <1>1, <5>1
      <4>q. QED BY <3>1, <4>2, <4>3
  <2>3. Attended(c)'
    <3>1. SUFFICES ASSUME Tidy(c)' PROVE
              /\ open[c]
              /\ \A k \in On(c) : call'[k] = "talk" =>
                     /\ stream'[c] = Due(k)'
                     /\ pc'[k] \notin {"idle", "packet"} => asked'[k] = "packet"
              /\ (\A k \in On(c) : call'[k] # "talk") => stream'[c] = << >>
      BY <1>0 DEF Attended, On
    <3>2. open[c] /\ stream[c] = Due(j) /\ (pc[j] \notin {"idle", "packet"} => asked[j] = "packet")
      BY <1>0, <1>2, <1>5, <3>1 DEF Attended
    <3>3. \A k \in On(c) : call'[k] = "talk" => k = j
      BY <1>0, <1>5 DEF On, Good, DialogueInv, OneCall
    <3>4. pc[j] # "idle"
      <4>1. SUFFICES ASSUME pc[j] = "idle" PROVE FALSE
        OBVIOUS
      <4>2. said[j] = << >> /\ ~LeftBefore(j)
        BY <1>2, <1>5, <3>1, <4>1 DEF Good, ServerInv, IdleSilent, Tidy, LeftBefore
      <4>3. \A i \in 1 .. Len(w) : w[i][1] = j
        BY <4>2, OwnAlone
      <4>4. ~misread[j]
        BY <4>1, <4>2 DEF Good, DialogueInv, CallInv, Misled
      <4>5. Line(j) = w /\ Len(w) \in Nat \ {0}
        BY DEF Taken
      <4>6. PICK L \in Nat : \E F : OnCourse(j, L, F) /\ \E n \in 0 .. L : Reading(j, F, n)
        BY <1>0, <4>4 DEF Good, DialogueInv, CallInv, InStep
      <4>7. PICK F : OnCourse(j, L, F) /\ \E n \in 0 .. L : Reading(j, F, n)
        BY <4>6
      <4>8. L = 0
        BY <4>2, <4>7 DEF OnCourse, Way
      <4>9. PICK m \in 0 .. Len(w) : Lies(j, 0, m)
        BY <4>5, <4>7, <4>8 DEF Reading
      <4>10. Len(said[j]) = 0 /\ 1 \in 1 .. Len(w)
        BY <4>2, <4>5
      <4>11. 1 \in m + 1 .. m + (0 - 0)
        BY <4>3, <4>5, <4>9, <4>10 DEF Lies
      <4>q. QED BY <4>11
    <3>5. CASE call'[j] = "talk"
      <4>1. stream'[c] = Due(j)'
        <5>1. CASE asked'[j] = asked[j]
          BY <1>0, <2>1, <3>2, <5>1 DEF Due
        <5>2. CASE asked'[j] # asked[j]
          <6>1. asked'[j] = "packet" /\ asked[j] # "packet" /\ pc[j] = "packet"
            BY <1>0, <3>2, <3>4, <5>2
          <6>2. stream[c] = << >>
            BY <3>2, <6>1 DEF Due
          <6>3. stream'[c] = << <<j, "packet">> >>
            BY <2>1, <5>2, <6>2
          <6>4. Due(j)' = << <<j, "packet">> >>
            BY <1>0, <6>1 DEF Due
          <6>q. QED BY <6>3, <6>4
        <5>q. QED BY <5>1, <5>2
      <4>2. pc'[j] \notin {"idle", "packet"} => asked'[j] = "packet"
        BY <1>0, <3>2
      <4>3. j \in On(c)
        BY <1>0, <1>5
      <4>q. QED BY <3>2, <3>3, <3>5, <4>1, <4>2, <4>3
    <3>6. CASE call'[j] # "talk"
      <4>1. ~LeftBefore(j)' /\ ~(call'[j] = "back" /\ LeftAtZip(j)')
        BY <1>0, <1>5, <3>1 DEF Tidy, LeftBefore, On
      <4>2. call'[j] = "back" /\ ~misread'[j]
        BY <3>6, <4>1 DEF CallInv, Misled, Taken
      <4>3. pc[j] \in {"tClean", "done"}
        BY <1>0, <4>1, <4>2 DEF CallInv, Returned
      <4>4. stream[c] = << >> /\ asked[j] = "packet"
        BY <3>2, <4>3 DEF Due
      <4>5. stream'[c] = << >>
        BY <1>0, <2>1, <4>4
      <4>q. QED BY <3>2, <3>3, <3>6, <4>5
    <3>q. QED BY <3>5, <3>6
  <2>q. QED BY <2>2, <2>3
<1>q. QED BY <1>4, <1>5

LEMMA ReadStep ==
    ASSUME Good, NEW j \in Jobs, ReadStatus(j)
    PROVE  DialogueInv'
<1>1. PICK w \in Letters, k \in Jobs, topic \in Topics, b \in BOOLEAN, p \in 1 .. 12 :
          Takes(j, w, k, topic, b, p)
  BY ReadTakes DEF Good, ServerInv
<1>2. Taken(j, w)
  <2>1. UNCHANGED vars
    BY DEF ReadStatus
  <2>q. QED BY <1>1, <2>1, TakeFrame
<1>3. CallInv(j)'
  BY <1>1, <1>2, ReadCall
<1>4. \A i \in Jobs : CallInv(i)'
  BY <1>2, <1>3, TakeOther
<1>5. OneCall'
  <2>1. \A i \in Jobs \ {j} : Conn[i] = Conn[j] => call'[i] \notin {"talk", "lost"}
    BY <1>2 DEF Good, DialogueInv, OneCall, Taken
  <2>2. \A i \in Jobs \ {j} : call'[i] = call[i]
    BY <1>2 DEF Taken
  <2>q. QED BY <2>1, <2>2 DEF Good, DialogueInv, OneCall
<1>6. ASSUME NEW c \in Lines PROVE OwnOnly(c)'
  <2>1. CASE c = Conn[j]
    BY <1>2, <1>3, <2>1, TakeOnly
  <2>2. CASE c # Conn[j]
    <3>1. wire'[c] = wire[c]
      BY <1>1, <2>2 DEF Takes, Good, ClientTypes, DialogueTypeOK
    <3>2. \A i \in On(c) : i # j /\ call'[i] = call[i] /\ (LeftAtZip(i)' <=> LeftAtZip(i))
      BY <1>2, <2>2 DEF On, Taken
    <3>3. OwnOnly(c) /\ (Tidy(c)' => Tidy(c))
      BY <3>2 DEF Good, DialogueInv, Tidy, On
    <3>q. QED BY <3>1, <3>2, <3>3 DEF OwnOnly, On
  <2>q. QED BY <2>1, <2>2
<1>7. \A c \in Lines : Sent(c)' /\ Attended(c)'
  BY <1>2, <1>3, TakeStream
<1>q. QED BY <1>4, <1>5, <1>6, <1>7 DEF DialogueInv, Lines

\* A client is cut off, and a connection is closed, behind a call that left its
\* statuses only.
LEMMA CloseStep ==
    ASSUME Good,
           \/ \E j \in Jobs : CutOff(j)
           \/ \E c \in Lines : HangUp(c)
    PROVE  DialogueInv'
<1>1. UNCHANGED <<vars, wire, stream, pos, asked, clean, misread>>
  BY DEF CutOff, HangUp
<1>2. PICK x \in Jobs :
          /\ ~Tidy(Conn[x])
          /\ \A k \in Jobs \ {x} : call'[k] = call[k]
          /\ \/ /\ call[x] = "talk" /\ call'[x] = "lost" /\ LeftBefore(x) /\ open' = open
             \/ call'[x] = call[x] /\ \A c \in Lines \ {Conn[x]} : open'[c] = open[c]
  <2>1. ASSUME NEW j \in Jobs, CutOff(j)
        PROVE  /\ ~Tidy(Conn[j]) /\ LeftBefore(j) /\ call[j] = "talk" /\ call'[j] = "lost"
               /\ open' = open /\ \A k \in Jobs \ {j} : call'[k] = call[k]
    <3>1. Conn[j] \in Lines /\ ~open[Conn[j]] /\ call[j] = "talk"
      BY <2>1 DEF CutOff, Lines
    <3>2. ~Tidy(Conn[j])
      BY <3>1 DEF Good, DialogueInv, Attended
    <3>3. LeftBefore(j)
      BY <3>1, <3>2 DEF Tidy, LeftBefore
    <3>4. call'[j] = "lost" /\ open' = open /\ \A k \in Jobs \ {j} : call'[k] = call[k]
      BY <2>1 DEF CutOff, Good, ClientTypes, DialogueTypeOK
    <3>q. QED BY <3>1, <3>2, <3>3, <3>4
  <2>2. ASSUME NEW c \in Lines, HangUp(c)
        PROVE  ~Tidy(c) /\ call' = call /\ \A d \in Lines \ {c} : open'[d] = open[d]
    <3>1. open[c] /\ stream[c] # << >> /\ Head(stream[c]) = Rest /\ call' = call
      BY <2>2 DEF HangUp, Astray
    <3>2. \A k \in On(c) : Due(k) # << >> => Head(Due(k)) # Rest
      BY JobsAssumption DEF Due, Rest, On
    <3>3. ~Tidy(c)
      BY <3>1, <3>2 DEF Good, DialogueInv, Attended
    <3>4. \A d \in Lines \ {c} : open'[d] = open[d]
      BY <2>2 DEF HangUp, Good, ClientTypes, DialogueTypeOK
    <3>q. QED BY <3>1, <3>3, <3>4
  <2>q. QED BY <2>1, <2>2 DEF Lines
<1>3. /\ \A i \in Jobs : /\ said'[i] = said[i] /\ pc'[i] = pc[i] /\ Cmd(i)' = Cmd(i)
                         /\ LeftAtZip(i)' <=> LeftAtZip(i)
                         /\ Succeeded(i) => Succeeded(i)'
      /\ \A i \in Jobs : \A L, F : OnCourse(i, L, F) => OnCourse(i, L, F)'
  BY <1>1, JobsKept
<1>4. \A k \in Jobs :
         /\ (call'[k] = "back") <=> (call[k] = "back")
         /\ (call'[k] = "todo") <=> (call[k] = "todo")
         /\ call'[k] = "talk" => call[k] = "talk"
         /\ call'[k] = "lost" => call[k] \in {"talk", "lost"}
  BY <1>2
<1>5. /\ \A i \in Jobs : LeftBefore(i)' <=> LeftBefore(i)
      /\ \A c \in Lines : Tidy(c)' <=> Tidy(c)
  BY <1>3, <1>4 DEF LeftBefore, Tidy, On
<1>6. OneCall'
  BY <1>4 DEF Good, DialogueInv, OneCall
<1>7. ASSUME NEW k \in Jobs PROVE CallInv(k)'
  <2>1. CallInv(k) /\ Line(k)' = Line(k)
    BY <1>1 DEF Good, DialogueInv, Line
  <2>2. InStep(k)'
    <3>1a. PICK L \in Nat : \E F :
              /\ OnCourse(k, L, F)
              /\ call[k] = "talk" /\ ~misread[k] => \E n \in 0 .. L : Reading(k, F, n)
      BY <2>1 DEF CallInv, InStep
    <3>1. PICK F :
              /\ OnCourse(k, L, F)
              /\ call[k] = "talk" /\ ~misread[k] => \E n \in 0 .. L : Reading(k, F, n)
      BY <3>1a
    <3>2. OnCourse(k, L, F)'
      BY <1>3, <3>1
    <3>3. \A n, m : Lies(k, n, m)' <=> Lies(k, n, m)
      BY <1>3, <2>1 DEF Lies
    <3>4. \A n : Reading(k, F, n)' <=> Reading(k, F, n)
      BY <1>1, <1>3, <2>1, <3>3 DEF Reading
    <3>q. QED BY <1>1, <1>4, <3>1, <3>2, <3>4 DEF InStep
  <2>3. NotCalled(k)' /\ Returned(k)'
    BY <1>1, <1>3, <1>4, <2>1 DEF CallInv, NotCalled, Returned, AllRead
  <2>4. Misled(k)' /\ (call'[k] = "lost" => LeftBefore(k)')
    <3>1. CASE LeftBefore(k)
      BY <1>5, <3>1 DEF Misled
    <3>2. CASE ~LeftBefore(k)
      <4>1. call'[k] = call[k]
        BY <1>2, <3>2
      <4>q. QED BY <1>1, <1>3, <2>1, <3>2, <4>1 DEF CallInv, Misled, Heard, Failed, LastWord
    <3>q. QED BY <3>1, <3>2
  <2>q. QED BY <2>2, <2>3, <2>4 DEF CallInv
<1>8. ASSUME NEW c \in Lines PROVE OwnOnly(c)' /\ Sent(c)' /\ Attended(c)'
  <2>1. OwnOnly(c) /\ Sent(c) /\ Attended(c)
    BY DEF Good, DialogueInv
  <2>2. Sent(c)'
    BY <1>1, <1>4, <2>1 DEF Sent
  <2>3. CASE ~Tidy(c)
    BY <1>5, <2>2, <2>3 DEF OwnOnly, Attended
  <2>4. CASE Tidy(c)
    <3>1. c # Conn[x]
      BY <1>2, <2>4
    <3>2. \A k \in On(c) : k \in Jobs \ {x} /\ call'[k] = call[k]
      BY <1>2, <3>1 DEF On
    <3>3. open'[c] = open[c] /\ wire' = wire /\ stream' = stream
      BY <1>1, <1>2, <3>1
    <3>4. \A k \in On(c) : Due(k)' = Due(k) /\ pc'[k] = pc[k] /\ asked'[k] = asked[k]
      BY <1>1, <1>3 DEF Due, On
    <3>5. OwnOnly(c)'
      BY <2>1, <2>4, <3>2, <3>3 DEF OwnOnly, On
    <3>6. Attended(c)'
      BY <2>1, <2>4, <3>2, <3>3, <3>4 DEF Attended, On
    <3>q. QED BY <2>2, <3>5, <3>6
  <2>q. QED BY <2>3, <2>4
<1>q. QED BY <1>6, <1>7, <1>8 DEF DialogueInv, Lines

-----------------------------------------------------------------------------
(* The invariant.                                                           *)

LEMMA ServerStep ==
    ASSUME ServerInv, [Next]_vars
    PROVE  ServerInv'
<1> USE DEF ServerInv
<1>1. TypeOK'
  BY TypeStep
<1>2. CASE UNCHANGED vars
  BY <1>1, <1>2 DEF vars, jvars, OwnLabels, Cmd, Turns, Active, IdleSilent
<1>3. ASSUME NEW j \in Jobs, JobStep(j) PROVE ServerInv'
  <2>1. OwnLabels' /\ Turns'
    BY <1>3, LabelsStep, TurnsStep
  <2>2. pc'[j] # "idle"
    BY <1>3, JobStepEffect DEF Effect, Moves, Goto, TypeOK
  <2>3. \A k \in Jobs \ {j} : pc'[k] = pc[k] /\ said'[k] = said[k]
    BY <1>3, OthersKeep
  <2>4. IdleSilent'
    BY <2>2, <2>3 DEF IdleSilent
  <2>q. QED BY <1>1, <2>1, <2>4
<1>q. QED BY <1>2, <1>3 DEF Next, JobStep

LEMMA NothingChanges ==
    ASSUME Good, UNCHANGED dvars
    PROVE  DialogueInv'
<1>1. UNCHANGED vars /\ UNCHANGED <<wire, stream, open, call, pos, asked, clean, misread>>
  BY DEF dvars, cvars
<1>2. /\ \A i \in Jobs : /\ said'[i] = said[i] /\ pc'[i] = pc[i] /\ Cmd(i)' = Cmd(i)
                         /\ LeftAtZip(i)' <=> LeftAtZip(i)
                         /\ Succeeded(i) => Succeeded(i)'
      /\ \A i \in Jobs : \A L, F : OnCourse(i, L, F) => OnCourse(i, L, F)'
  BY <1>1, JobsKept
<1>3. ASSUME NEW k \in Jobs PROVE CallInv(k)'
  <2>1. CallInv(k) /\ Line(k)' = Line(k)
    BY <1>1 DEF Good, DialogueInv, Line
  <2>2. InStep(k)'
    <3>1a. PICK L \in Nat : \E F :
              /\ OnCourse(k, L, F)
              /\ call[k] = "talk" /\ ~misread[k] => \E n \in 0 .. L : Reading(k, F, n)
      BY <2>1 DEF CallInv, InStep
    <3>1. PICK F :
              /\ OnCourse(k, L, F)
              /\ call[k] = "talk" /\ ~misread[k] => \E n \in 0 .. L : Reading(k, F, n)
      BY <3>1a
    <3>2. OnCourse(k, L, F)'
      BY <1>2, <3>1
    <3>3. \A n, m : Lies(k, n, m)' <=> Lies(k, n, m)
      BY <1>2, <2>1 DEF Lies
    <3>4. \A n : Reading(k, F, n)' <=> Reading(k, F, n)
      BY <1>1, <1>2, <2>1, <3>3 DEF Reading
    <3>q. QED BY <1>1, <3>1, <3>2, <3>4 DEF InStep
  <2>3. LeftBefore(k) => LeftBefore(k)'
    BY <1>1, <1>2 DEF LeftBefore, On
  <2>4. NotCalled(k)' /\ Returned(k)'
    BY <1>1, <1>2, <2>1 DEF CallInv, NotCalled, Returned, AllRead
  <2>5. Misled(k)'
    BY <1>1, <1>2, <2>1, <2>3 DEF CallInv, Misled, Heard, Failed, LastWord
  <2>q. QED BY <1>1, <2>1, <2>2, <2>3, <2>4, <2>5 DEF CallInv
<1>4. OneCall' /\ \A c \in Lines : OwnOnly(c)'
  BY <1>1, <1>2 DEF Good, DialogueInv, OneCall, OwnOnly, Tidy, On
<1>5. ASSUME NEW c \in Lines PROVE Sent(c)' /\ Attended(c)'
  <2>1. \A k \in Jobs : Due(k)' = Due(k)
    BY <1>1, <1>2 DEF Due
  <2>2. Tidy(c)' <=> Tidy(c)
    BY <1>1, <1>2 DEF Tidy, On
  <2>q. QED BY <1>1, <1>2, <2>1, <2>2 DEF Good, DialogueInv, Sent, Attended, On
<1>q. QED BY <1>3, <1>4, <1>5 DEF DialogueInv, Lines

LEMMA DialogueStep ==
    ASSUME Good, [DialogueNext]_dvars
    PROVE  Good'
<1>1. ServerInv'
  BY ServerStep, JobsPart DEF Good
<1>2. ClientTypes'
  BY TypesStep DEF Good, ServerInv
<1>3. DialogueInv'
  <2>1. TypeOK
    BY DEF Good, ServerInv
  <2>q. QED BY <2>1, DialogueSteps, NothingChanges, AskStep, ReadStep, CloseStep, ServeStep
<1>q. QED BY <1>1, <1>2, <1>3 DEF Good

LEMMA DialogueBegins ==
    ASSUME DialogueInit
    PROVE  Good
<1>1. /\ Init
      /\ \A j \in Jobs : /\ call[j] = "todo" /\ pos[j] = 1 /\ asked[j] = "nothing"
                         /\ clean[j] /\ ~misread[j] /\ Line(j) = << >>
                         /\ pc[j] = "idle" /\ said[j] = << >>
  BY DEF DialogueInit, Init, Line, Lines
<1>2. ServerInv
  BY <1>1, TypeInit, ScriptInit DEF ServerInv, ScriptInv, Turns, Active, IdleSilent
<1>3. ClientTypes
  <2>1. ASSUME NEW j \in Jobs PROVE pos[j] \in 0 .. Len(Script(Cmd(j)))
    <3>1. Cmd(j) \in Commands
      BY <1>2 DEF ServerInv, TypeOK, Cmd
    <3>2. PICK n \in 10 .. 12 : n = Len(Script(Cmd(j)))
      BY <3>1, FollowedTypes
    <3>q. QED BY <1>1, <3>2
  <2>q. QED BY <2>1 DEF DialogueInit, ClientTypes, DialogueTypeOK, PlaceTypes, Return
<1>4. ASSUME NEW j \in Jobs PROVE CallInv(j)
  <2>1. InStep(j)
    <3>1. PICK F : OnCourse(j, 0, F)
      BY <1>1, WayBegins
    <3>q. QED BY <1>1, <3>1 DEF InStep
  <2>q. QED BY <1>1, <2>1 DEF CallInv, NotCalled, Returned, Misled, AllRead
<1>5. ASSUME NEW c \in Lines PROVE OwnOnly(c) /\ Sent(c) /\ Attended(c)
  BY <1>1 DEF DialogueInit, OwnOnly, Sent, Attended, On
<1>6. OneCall
  BY <1>1 DEF OneCall
<1>q. QED BY <1>2, <1>3, <1>4, <1>5, <1>6 DEF Good, DialogueInv

\* What is on the wire, and how far each client has read: as long as a client has
\* misread nothing, the statuses it has still to read are those its script goes
\* on with.
THEOREM DialogueInvariance == DialogueSpec => []Good
<1>q. QED BY DialogueBegins, DialogueStep, PTL DEF DialogueSpec

-----------------------------------------------------------------------------
(* What it says of the two sides.                                           *)

\* The clients and the wire only hold the jobs back: they are those of SaveJobs.
THEOREM DialogueIsJobs == DialogueSpec => Init /\ [][Next]_vars
<1>q. QED BY JobsPart, PTL DEF DialogueSpec

\* Types of the jobs, of the lines and of the clients.
THEOREM DialogueTypeCorrect == DialogueSpec => [](TypeOK /\ DialogueTypeOK)
<1>1. Good => TypeOK /\ DialogueTypeOK
  BY DEF Good, ServerInv, ClientTypes
<1>q. QED BY <1>1, DialogueInvariance, PTL

\* A client that heard nothing but READY was served, but for one behind a call
\* that returned at the zip.
THEOREM NoFalseSuccessCorrect == DialogueSpec => []NoFalseSuccess
<1>1. Good => NoFalseSuccess
  <2> SUFFICES ASSUME Good, NEW j \in Jobs, call[j] = "back", clean[j]
               PROVE  Succeeded(j) \/ \E k \in On(Conn[j]) \ {j} : LeftAtZip(k)
    BY DEF NoFalseSuccess
  <2>1. CallInv(j)
    BY DEF Good, DialogueInv
  <2>2. CASE misread[j]
    BY <2>1, <2>2 DEF CallInv, Misled, LeftBefore
  <2>3. CASE ~misread[j]
    BY <2>1, <2>3 DEF CallInv, Returned
  <2>q. QED BY <2>2, <2>3
<1>q. QED BY <1>1, DialogueInvariance, PTL

\* Two places of the scripts, and no other, let a client misread.
THEOREM MisreadOnlyCorrect == DialogueSpec => []MisreadOnly
<1>1. Good => MisreadOnly
  BY DEF Good, DialogueInv, CallInv, Misled, LeftBefore, MisreadOnly
<1>q. QED BY <1>1, DialogueInvariance, PTL

\* A call that returned without having misread leaves nothing on the wire.
THEOREM NoLeftoverCorrect == DialogueSpec => []NoLeftover
<1>1. Good => NoLeftover
  <2> SUFFICES ASSUME Good, NEW j \in Jobs, call[j] = "back", ~misread[j], ~LeftAtZip(j),
                      NEW i \in DOMAIN wire[Conn[j]]
               PROVE  wire[Conn[j]][i][1] # j
    BY DEF NoLeftover
  <2>1. AllRead(j)
    BY DEF Good, DialogueInv, CallInv, Returned
  <2>2. DOMAIN wire[Conn[j]] = 1 .. Len(wire[Conn[j]])
    BY DEF Good, ClientTypes, DialogueTypeOK, Lines
  <2>q. QED BY <2>1, <2>2 DEF AllRead, Line
<1>q. QED BY <1>1, DialogueInvariance, PTL

\* Where client and server come to wait for each other, and where alone.
THEOREM StuckOnlyCorrect == DialogueSpec => []StuckOnly
<1>1. ASSUME Good, NEW j \in Jobs, BothWait(j), ~misread[j], Tidy(Conn[j])
      PROVE  Stuck(Cmd(j), LastWord(j))
  <2>1a. PICK L \in Nat : \E F :
            OnCourse(j, L, F) /\ \E n \in 0 .. L : Reading(j, F, n)
    BY <1>1 DEF Good, DialogueInv, CallInv, InStep, BothWait
  <2>1. PICK F :
            OnCourse(j, L, F) /\ \E n \in 0 .. L : Reading(j, F, n)
    BY <2>1a
  <2>2. PICK n \in 0 .. L : Reading(j, F, n)
    BY <2>1
  <2>3. Len(Line(j)) = 0
    BY <1>1 DEF BothWait, Line
  <2>4. PICK m \in 0 .. 0 : Lies(j, n, m)
    BY <2>2, <2>3 DEF Reading
  <2>5. PICK a \in Nat : a = Len(said[j]) /\ L <= a
    BY <1>1, <2>1, SaidTypes DEF OnCourse, Way
  <2>6. n = L /\ L = a
    BY <2>3, <2>4, <2>5 DEF Lies
  <2>7. pos[j] = F[L] /\ F[L] # Return /\ asked[j] = IF L = 0 THEN "header" ELSE "packet"
    BY <2>2, <2>6 DEF Reading
  <2>8. pc[j] = "done" \/ (pc[j] = "packet" /\ asked[j] = "header")
    <3>1. /\ stream[Conn[j]] = Due(j) /\ (pc[j] \notin {"idle", "packet"} => asked[j] = "packet")
          /\ j \in On(Conn[j])
      BY <1>1 DEF BothWait, Good, DialogueInv, Attended, On, Lines
    <3>2. CASE stream[Conn[j]] = << >> /\ BetweenCommands(Conn[j])
      BY <3>1, <3>2 DEF BetweenCommands, Due
    <3>3. ASSUME NoPacket(stream[Conn[j]]), NEW k \in On(Conn[j]), pc[k] = "packet"
          PROVE  pc[j] = "done" \/ (pc[j] = "packet" /\ asked[j] = "header")
      <4>1. k = j
        <5>1. SUFFICES ASSUME k # j PROVE FALSE
          OBVIOUS
        <5>2. call[k] = "back"
          BY <1>1, <3>3, <5>1 DEF On, BothWait, Good, DialogueInv, OneCall, CallInv,
             NotCalled, ClientTypes, DialogueTypeOK
        <5>3. ~misread[k] /\ ~LeftAtZip(k)
          <6>1. ~LeftBefore(k) /\ ~LeftAtZip(k)
            BY <1>1, <3>3, <5>2 DEF On, Tidy, LeftBefore
          <6>2. Misled(k)
            BY <1>1, <3>3 DEF On, Good, DialogueInv, CallInv
          <6>q. QED BY <5>2, <6>1, <6>2 DEF Misled
        <5>q. QED BY <1>1, <3>3, <5>2, <5>3 DEF On, Good, DialogueInv, CallInv, Returned
      <4>2. asked[j] # "packet"
        <5>1. SUFFICES ASSUME asked[j] = "packet" PROVE FALSE
          OBVIOUS
        <5>2. stream[Conn[j]] = << <<j, "packet">> >>
          BY <3>1, <3>3, <4>1, <5>1 DEF Due
        <5>q. QED BY <3>3, <5>2 DEF NoPacket
      <4>q. QED BY <2>7, <3>3, <4>1, <4>2
    <3>q. QED BY <1>1, <3>2, <3>3 DEF BothWait, ServerWaits
  <2>9. OnWay(Cmd(j), pc[j], LastWord(j), F[L])
    <3>1. ~AfterZip(j, L, F[L])
      BY <2>7 DEF AfterZip
    <3>2. ~AfterMount(j, L, F[L])
      BY <2>5, <2>6, <2>8 DEF AfterMount
    <3>q. QED BY <2>1, <3>1, <3>2 DEF OnCourse, Here
  <2>10. pc[j] # "packet"
    <3>1. SUFFICES ASSUME pc[j] = "packet" PROVE FALSE
      OBVIOUS
    <3>2. L = 0
      BY <2>7, <2>8, <3>1
    <3>3. F[L] = 1
      BY <2>1, <3>2 DEF OnCourse, Way
    <3>4. Cmd(j) \in Commands
      BY <1>1 DEF Good, ServerInv, TypeOK, Cmd
    <3>5. Place(Cmd(j), "packet") = 1
      BY <3>4, Places
    <3>q. QED BY <2>9, <3>1, <3>3, <3>5 DEF OnWay
  <2>q. QED BY <2>7, <2>8, <2>9, <2>10 DEF OnWay
<1>2. Good => StuckOnly
  <2> SUFFICES ASSUME Good, NEW j \in Jobs, BothWait(j),
                      ~ \E k \in On(Conn[j]) \ {j} : LeftAtZip(k)
               PROVE  CASE Cmd(j) = "gen" ->
                             LastWord(j) \in {Failed("umount"), Failed("zip"),
                                 Failed("open"), Failed("seekEnd"), Failed("seekSet")}
                        [] Cmd(j) = "extract" -> InTransfer(LastWord(j)[1])
                        [] Cmd(j) = "resign"  ->
                             \/ LastWord(j) = Failed("umount")
                             \/ Heard(j, Failed("mount")) /\ LastWord(j)[1] = "delete"
    BY DEF StuckOnly
  <2>1. ~LeftBefore(j) /\ Tidy(Conn[j])
    BY DEF LeftBefore, Tidy, BothWait
  <2>2. \/ Stuck(Cmd(j), LastWord(j))
        \/ Cmd(j) = "resign" /\ Heard(j, Failed("mount")) /\ LastWord(j)[1] = "delete"
    BY <1>1, <2>1 DEF Good, DialogueInv, CallInv, Misled
  <2>3. Cmd(j) = "gen" \/ Cmd(j) = "extract" \/ Cmd(j) = "resign"
    BY DEF Good, ServerInv, TypeOK, Cmd, Commands
  <2>q. QED BY <2>2, <2>3 DEF Stuck
<1>q. QED BY <1>2, DialogueInvariance, PTL

=============================================================================
