------------------------- MODULE UploadStoreProofs --------------------------
(***************************************************************************)
(* Theorems about UploadStore for any commands, connections and names, any *)
(* chunk, word and errno values; the last is that it implements FileStore. *)
(***************************************************************************)
EXTENDS UploadStore, TLAPS

\* Where a job has a file open, and where it has not yet.
OpenedAt ==
    \A j \in Jobs :
        /\ pc[j] \in {"idle", "name", "size", "open", "remove"} => fd[j] = NoJob
        /\ pc[j] \in {"receive", "unlink"} => fd[j] # NoJob

\* A name that was cut short is on its way to a read that ends the upload.
WholeName ==
    \A j \in Jobs :
        /\ pc[j] = "size" => path[j] = Name(j) \/ reads[j] # "ok"
        /\ pc[j] = "open" => path[j] = Name(j)

\* An inode is open in the job that created it.
Creators ==
    /\ \A j \in Jobs : fd[j] # NoJob => fd[fd[j]] = fd[j]
    /\ \A n \in Names : dir[n] # NoJob => fd[dir[n]] = dir[n]

\* No name but the job's own refers to the inode it opened.
OneName ==
    \A j \in Jobs, n \in Names : fd[j] # NoJob /\ dir[n] = fd[j] => n = Name(j)

Inv ==
    /\ OpenedAt
    /\ WholeName
    /\ OpensOwnName
    /\ Creators
    /\ OneName
    /\ FailedLeavesNothing

-----------------------------------------------------------------------------
(* What sendStatusCode, readFull and the arithmetic keep.                   *)

LEMMA SayType ==
    ASSUME TypeOK, NEW j \in Jobs, NEW b \in BOOLEAN, Say(j, b)
    PROVE  /\ said' \in [Jobs -> Seq(BOOLEAN)]
           /\ said'[j][Len(said'[j])] = b
           /\ \A k \in Jobs \ {j} : said'[k] = said[k]
  <1>1. said[j] \in Seq(BOOLEAN)
    BY DEF TypeOK
  <1>2. said'[j] = Append(said[j], b)
    BY DEF TypeOK, Say
  <1>3. /\ Append(said[j], b) \in Seq(BOOLEAN)
        /\ Len(Append(said[j], b)) = Len(said[j]) + 1
        /\ Append(said[j], b)[Len(said[j]) + 1] = b
    BY <1>1
  <1> QED
    BY <1>2, <1>3 DEF TypeOK, Say

LEMMA ReadType ==
    ASSUME TypeOK, NEW j \in Jobs, NEW wanted \in Nat, NEW received,
           ReadFull(j, wanted, received)
    PROVE  /\ reads' \in [Jobs -> {"ok", "eof", "errno", "astray"}]
           /\ received \in Nat
           /\ reads[j] # "ok" => received = 0 /\ reads'[j] # "ok"
           /\ \A k \in Jobs \ {j} : reads'[k] = reads[k]
  <1>1. Live(j) => reads[j] = "ok"
    BY DEF Live
  <1>2. CASE received = wanted /\ Live(j) /\ UNCHANGED reads
    BY <1>1, <1>2 DEF TypeOK
  <1>3. CASE received = 0 /\ reads' = [reads EXCEPT ![j] = IF Live(j) THEN "eof" ELSE @]
    <2>1. CASE Live(j)
      BY <1>1, <1>3, <2>1 DEF TypeOK
    <2>2. CASE ~Live(j)
      BY <1>3, <2>2 DEF TypeOK
    <2> QED
      BY <2>1, <2>2
  <1>4. CASE received \in Errnos /\ Live(j) /\ reads' = [reads EXCEPT ![j] = "errno"]
    BY <1>1, <1>4, NumbersAssumption DEF TypeOK
  <1> QED
    BY <1>2, <1>3, <1>4 DEF ReadFull

LEMMA ModType ==
    ASSUME NEW a \in Int
    PROVE  a % WordMod \in Words
  BY NumbersAssumption DEF Words

LEMMA OverwriteType ==
    ASSUME NEW bytes, DOMAIN bytes \subseteq Nat,
           \A o \in DOMAIN bytes : bytes[o] \in Owner,
           NEW offset \in Nat, NEW n \in Nat, NEW who \in Owner
    PROVE  LET after == Overwrite(bytes, offset, n, who)
           IN  /\ DOMAIN after \subseteq Nat
               /\ \A o \in DOMAIN after : after[o] \in Owner
  BY DEF Overwrite

LEMMA NameLength ==
    ASSUME TypeOK, NEW j \in Jobs
    PROVE  Length[Name(j)] \in Nat \ {0}
  BY NamesAssumption DEF TypeOK, Name

-----------------------------------------------------------------------------
(* Type correctness.                                                        *)

LEMMA TypeInit == Init => TypeOK
  BY NumbersAssumption DEF Init, TypeOK, Labels, Owner, Words

LEMMA AcceptType ==
    ASSUME TypeOK, NEW j \in Jobs, Accept(j)
    PROVE  TypeOK'
  <1> DEFINE short == Length[Name(j)] <= NameLimit(j)
  <1>1. Say(j, short) /\ short \in BOOLEAN
    BY DEF Accept
  <1>2. said' \in [Jobs -> Seq(BOOLEAN)]
    BY <1>1, SayType
  <1>3. pc' \in [Jobs -> Labels]
    BY DEF Accept, TypeOK, Goto, Labels
  <1> QED
    BY <1>2, <1>3 DEF Accept, TypeOK

LEMMA ReadNameType ==
    ASSUME TypeOK, NEW j \in Jobs, ReadName(j)
    PROVE  TypeOK'
  <1>1. PICK received \in Results(Length[Name(j)]) :
           /\ ReadFull(j, Length[Name(j)], received)
           /\ Say(j, ~Stops(received))
           /\ Goto(j, IF Stops(received) THEN "done" ELSE AfterName(j))
    BY DEF ReadName
  <1>2. PICK name \in Names \cup {NoName} : path' = [path EXCEPT ![j] = name]
    BY NamesAssumption DEF ReadName, TypeOK, Name
  <1>3. said' \in [Jobs -> Seq(BOOLEAN)]
    BY <1>1, SayType
  <1>4. reads' \in [Jobs -> {"ok", "eof", "errno", "astray"}]
    BY <1>1, ReadType, NameLength
  <1>5. pc' \in [Jobs -> Labels]
    BY <1>1 DEF TypeOK, Goto, Labels, AfterName
  <1> QED
    BY <1>2, <1>3, <1>4, <1>5 DEF ReadName, TypeOK

LEMMA ReadSizeType ==
    ASSUME TypeOK, NEW j \in Jobs, ReadSize(j)
    PROVE  TypeOK'
  <1>1. PICK received \in Results(4) :
           /\ ReadFull(j, 4, received)
           /\ Say(j, ~Stops(received))
           /\ Goto(j, IF Stops(received) THEN "done" ELSE "open")
    BY DEF ReadSize
  <1>2. PICK size \in Words : filesize' = [filesize EXCEPT ![j] = size]
    BY NumbersAssumption DEF ReadSize, TypeOK, Words
  <1>3. said' \in [Jobs -> Seq(BOOLEAN)]
    BY <1>1, SayType
  <1>4. reads' \in [Jobs -> {"ok", "eof", "errno", "astray"}]
    BY <1>1, ReadType
  <1>5. pc' \in [Jobs -> Labels]
    BY <1>1 DEF TypeOK, Goto, Labels
  <1> QED
    BY <1>2, <1>3, <1>4, <1>5 DEF ReadSize, TypeOK

LEMMA OpenType ==
    ASSUME TypeOK, NEW j \in Jobs, Open(j)
    PROVE  TypeOK'
  <1> DEFINE i == IF dir[path[j]] = NoJob THEN j ELSE dir[path[j]]
  <1>1. CASE /\ path[j] \in Names
             /\ fd' = [fd EXCEPT ![j] = i]
             /\ dir' = [dir EXCEPT ![path[j]] = i]
             /\ content' = [content EXCEPT ![i] = << >>]
             /\ remaining' = [remaining EXCEPT ![j] = filesize[j]]
             /\ Say(j, TRUE)
             /\ Goto(j, "receive")
    <2>1. i \in Jobs
      BY <1>1 DEF TypeOK, Owner
    <2>2. said' \in [Jobs -> Seq(BOOLEAN)]
      BY <1>1, SayType
    <2>3. pc' \in [Jobs -> Labels]
      BY <1>1 DEF TypeOK, Goto, Labels
    <2>4. /\ DOMAIN content' = Jobs
          /\ \A k \in Jobs : content'[k] = IF k = i THEN << >> ELSE content[k]
      BY <1>1, <2>1 DEF TypeOK
    <2> HIDE DEF i
    <2>5. \A k \in Jobs : /\ DOMAIN content'[k] \subseteq Nat
                          /\ \A o \in DOMAIN content'[k] : content'[k][o] \in Owner
      <3>1. DOMAIN << >> = {}
        OBVIOUS
      <3> QED
        BY <2>4, <3>1 DEF TypeOK
    <2>6. /\ fd' \in [Jobs -> Owner] /\ dir' \in [Names -> Owner]
          /\ remaining' \in [Jobs -> Words]
      BY <1>1, <2>1 DEF TypeOK, Owner
    <2> QED
      BY <2>2, <2>3, <2>4, <2>5, <2>6 DEF Open, TypeOK
  <1>2. CASE Say(j, FALSE) /\ Goto(j, "done") /\ UNCHANGED <<remaining, fd, dir, content>>
    <2>1. said' \in [Jobs -> Seq(BOOLEAN)]
      BY <1>2, SayType
    <2>2. pc' \in [Jobs -> Labels]
      BY <1>2 DEF TypeOK, Goto, Labels
    <2> QED
      BY <1>2, <2>1, <2>2 DEF Open, TypeOK
  <1> QED
    BY <1>1, <1>2 DEF Open

LEMMA ReceiveType ==
    ASSUME TypeOK, NEW j \in Jobs, Receive(j), fd[j] # NoJob
    PROVE  TypeOK'
  <1> DEFINE wanted == IF remaining[j] < Chunk THEN remaining[j] ELSE Chunk
  <1>1. wanted \in Nat
    BY NumbersAssumption DEF TypeOK, Words
  <1> HIDE DEF wanted
  <1>2. PICK received :
           /\ ReadFull(j, wanted, received)
           /\ IF Stops(received)
              THEN Goto(j, "unlink") /\ UNCHANGED <<remaining, content>>
              ELSE Write(j, received)
    BY DEF Receive, wanted
  <1>3. /\ reads' \in [Jobs -> {"ok", "eof", "errno", "astray"}]
        /\ received \in Nat
    BY <1>1, <1>2, ReadType
  <1>4. CASE Stops(received)
    <2>1. pc' \in [Jobs -> Labels]
      BY <1>2, <1>4 DEF TypeOK, Goto, Labels
    <2> QED
      BY <1>2, <1>3, <1>4, <2>1 DEF TypeOK, Receive
  <1>5. CASE ~Stops(received)
    <2> DEFINE who == IF reads'[j] = "ok" THEN j ELSE NoJob
    <2>1. PICK n \in 0 .. received :
             /\ content' = [content EXCEPT ![fd[j]] = Overwrite(@, Offset(j), n, who)]
             /\ \/ Short(n, received) /\ Goto(j, "unlink") /\ UNCHANGED remaining
                \/ /\ ~Short(n, received)
                   /\ remaining' = [remaining EXCEPT ![j] = Left(j, received)]
                   /\ UNCHANGED pc
      BY <1>2, <1>5 DEF Write
    <2>2. Left(j, received) \in Words /\ Offset(j) \in Words
      <3>1. remaining[j] - received \in Int /\ filesize[j] - remaining[j] \in Int
        BY <1>3, NumbersAssumption DEF TypeOK, Words
      <3> QED
        BY <3>1, ModType DEF Left, Offset
    <2>3. remaining' \in [Jobs -> Words] /\ pc' \in [Jobs -> Labels]
      <3>1. CASE Goto(j, "unlink") /\ UNCHANGED remaining
        BY <3>1 DEF TypeOK, Goto, Labels
      <3>2. CASE remaining' = [remaining EXCEPT ![j] = Left(j, received)] /\ UNCHANGED pc
        BY <2>2, <3>2 DEF TypeOK
      <3> QED
        BY <2>1, <3>1, <3>2
    <2>4. fd[j] \in Jobs
      BY DEF TypeOK, Owner
    <2> DEFINE after == Overwrite(content[fd[j]], Offset(j), n, who)
    <2>5. DOMAIN after \subseteq Nat /\ \A o \in DOMAIN after : after[o] \in Owner
      <3>1. n \in Nat /\ Offset(j) \in Nat /\ who \in Owner
        BY <1>3, <2>2, NumbersAssumption DEF Words, Owner
      <3> HIDE DEF who
      <3> QED
        BY <2>4, <3>1, OverwriteType DEF TypeOK
    <2>6. /\ DOMAIN content' = Jobs
          /\ \A k \in Jobs : content'[k] = IF k = fd[j] THEN after ELSE content[k]
      BY <2>1, <2>4 DEF TypeOK
    <2> HIDE DEF after
    <2>7. \A k \in Jobs : /\ DOMAIN content'[k] \subseteq Nat
                          /\ \A o \in DOMAIN content'[k] : content'[k][o] \in Owner
      BY <2>5, <2>6 DEF TypeOK
    <2> QED
      BY <1>3, <2>3, <2>6, <2>7 DEF Receive, TypeOK
  <1> QED
    BY <1>4, <1>5

LEMMA EndType ==
    ASSUME TypeOK, NEW j \in Jobs, Finish(j) \/ Unlink(j) \/ Remove(j)
    PROVE  TypeOK'
  <1>1. PICK b \in BOOLEAN : Say(j, b)
    BY DEF Finish, Unlink, Remove
  <1>2. said' \in [Jobs -> Seq(BOOLEAN)]
    BY <1>1, SayType
  <1>3. pc' \in [Jobs -> Labels]
    BY DEF Finish, Unlink, Remove, TypeOK, Goto, Labels
  <1>4. dir' \in [Names -> Owner]
    BY DEF Finish, Unlink, Remove, TypeOK, Owner
  <1>5. reads' \in [Jobs -> {"ok", "eof", "errno", "astray"}]
    BY DEF Finish, Unlink, Remove, TypeOK
  <1> QED
    BY <1>2, <1>3, <1>4, <1>5 DEF Finish, Unlink, Remove, TypeOK

-----------------------------------------------------------------------------
(* The inductive invariant.                                                 *)

LEMMA InvInit == Init => Inv
  BY DEF Init, Inv, OpenedAt, WholeName, OpensOwnName, Creators, OneName,
         FailedLeavesNothing, Ended, At

\* The steps before a job opens its file, and those of a job that opens none,
\* leave the directory and the files alone, or empty a name.
LEMMA UnopenedStep ==
    ASSUME TypeOK, Inv, NEW j \in Jobs,
           Accept(j) \/ ReadName(j) \/ ReadSize(j) \/ Remove(j)
    PROVE  /\ fd[j] = NoJob /\ fd' = fd
           /\ \A n \in Names : dir'[n] # NoJob => dir'[n] = dir[n]
           /\ \A k \in Jobs \ {j} : /\ pc'[k] = pc[k] /\ said'[k] = said[k]
                                    /\ path'[k] = path[k] /\ reads'[k] = reads[k]
           /\ order' = order
           /\ pc'[j] \in {"name", "size", "open", "remove", "done"}
           /\ pc'[j] = "size" => path'[j] = Name(j) \/ reads'[j] # "ok"
           /\ pc'[j] = "open" => path'[j] = Name(j)
  <1>1. CASE Accept(j)
    BY <1>1 DEF TypeOK, Inv, OpenedAt, Accept, At, Say, Goto
  <1>2. CASE ReadName(j)
    <2>1. PICK received \in Results(Length[Name(j)]) :
             /\ ReadFull(j, Length[Name(j)], received)
             /\ Say(j, ~Stops(received))
             /\ Goto(j, IF Stops(received) THEN "done" ELSE AfterName(j))
      BY <1>2 DEF ReadName
    <2>2. PICK name : /\ path' = [path EXCEPT ![j] = name]
                      /\ reads'[j] = "ok" => name = Name(j)
      BY <1>2 DEF ReadName
    <2>3. \A k \in Jobs \ {j} : reads'[k] = reads[k]
      BY <2>1, ReadType, NameLength
    <2> QED
      BY <1>2, <2>1, <2>2, <2>3
         DEF TypeOK, Inv, OpenedAt, ReadName, At, Say, Goto, AfterName
  <1>3. CASE ReadSize(j)
    <2>1. PICK received \in Results(4) :
             /\ ReadFull(j, 4, received)
             /\ Say(j, ~Stops(received))
             /\ Goto(j, IF Stops(received) THEN "done" ELSE "open")
      BY <1>3 DEF ReadSize
    <2>2. /\ \A k \in Jobs \ {j} : reads'[k] = reads[k]
          /\ reads[j] # "ok" => received = 0
      BY <2>1, ReadType
    <2>3. pc'[j] = "open" => path'[j] = Name(j)
      BY <1>3, <2>1, <2>2 DEF TypeOK, Inv, WholeName, ReadSize, At, Goto, Stops
    <2> QED
      BY <1>3, <2>1, <2>2, <2>3 DEF TypeOK, Inv, OpenedAt, ReadSize, At, Say, Goto
  <1>4. CASE Remove(j)
    BY <1>4 DEF TypeOK, Inv, OpenedAt, Remove, At, Say, Goto
  <1> QED
    BY <1>1, <1>2, <1>3, <1>4

LEMMA UnopenedInv ==
    ASSUME TypeOK, Inv, NEW j \in Jobs,
           Accept(j) \/ ReadName(j) \/ ReadSize(j) \/ Remove(j)
    PROVE  Inv'
  <1>1. /\ fd[j] = NoJob /\ fd' = fd /\ order' = order
        /\ \A n \in Names : dir'[n] # NoJob => dir'[n] = dir[n]
        /\ \A k \in Jobs \ {j} : /\ pc'[k] = pc[k] /\ said'[k] = said[k]
                                 /\ path'[k] = path[k] /\ reads'[k] = reads[k]
        /\ pc'[j] \in {"name", "size", "open", "remove", "done"}
        /\ pc'[j] = "size" => path'[j] = Name(j) \/ reads'[j] # "ok"
        /\ pc'[j] = "open" => path'[j] = Name(j)
    BY UnopenedStep
  <1>2. OpenedAt' /\ WholeName' /\ OpensOwnName'
    BY <1>1 DEF Inv, OpenedAt, WholeName, OpensOwnName, Name
  <1>3. Creators' /\ OneName'
    BY <1>1 DEF Inv, Creators, OneName, Name
  <1>4. FailedLeavesNothing'
    BY <1>1 DEF Inv, FailedLeavesNothing, Ended, At, Kept
  <1> QED
    BY <1>2, <1>3, <1>4 DEF Inv

\* Opening a name gives the job the inode of that name, or a new one.
LEMMA OpenInv ==
    ASSUME TypeOK, Inv, NEW j \in Jobs, Open(j)
    PROVE  Inv'
  <1>1. fd[j] = NoJob /\ path[j] = Name(j)
    BY DEF Inv, OpenedAt, WholeName, Open, At
  <1> DEFINE i == IF dir[path[j]] = NoJob THEN j ELSE dir[path[j]]
  <1>2. CASE /\ path[j] \in Names
             /\ fd' = [fd EXCEPT ![j] = i]
             /\ dir' = [dir EXCEPT ![path[j]] = i]
             /\ Say(j, TRUE)
             /\ Goto(j, "receive")
    <2>1. /\ i \in Jobs
          /\ i = j \/ (fd[i] = i /\ dir[Name(j)] = i)
      BY <1>1, <1>2 DEF TypeOK, Inv, Creators, Owner
    <2>2. /\ fd'[j] = i /\ \A k \in Jobs \ {j} : fd'[k] = fd[k]
          /\ dir'[Name(j)] = i /\ \A n \in Names \ {Name(j)} : dir'[n] = dir[n]
          /\ Name(j) \in Names
      BY <1>1, <1>2 DEF TypeOK
    <2>3. /\ pc'[j] = "receive" /\ order' = order /\ path' = path /\ reads' = reads
          /\ \A k \in Jobs \ {j} : pc'[k] = pc[k] /\ said'[k] = said[k]
      BY <1>2 DEF TypeOK, Open, Say, Goto
    <2> HIDE DEF i
    <2>4. i # NoJob
      BY <2>1, NobodyAssumption
    <2>5. \A k \in Jobs : fd[k] # j
      BY <1>1, NobodyAssumption DEF Inv, Creators
    <2>6. \A n \in Names : dir[n] # j
      BY <1>1, NobodyAssumption DEF Inv, Creators
    <2>7. OpenedAt' /\ WholeName' /\ OpensOwnName'
      BY <1>1, <2>2, <2>3, <2>4 DEF Inv, OpenedAt, WholeName, OpensOwnName, Name
    <2>8. Creators'
      <3>1. fd'[i] = i
        BY <2>1, <2>2, <1>1, <2>4
      <3>2. \A k \in Jobs : fd'[k] # NoJob => fd'[fd'[k]] = fd'[k]
        BY <2>2, <2>5, <3>1, SMTT(30) DEF Inv, Creators, TypeOK, Owner
      <3>3. \A n \in Names : dir'[n] # NoJob => fd'[dir'[n]] = dir'[n]
        BY <2>2, <2>6, <3>1 DEF Inv, Creators, TypeOK, Owner
      <3> QED
        BY <3>2, <3>3 DEF Creators
    <2>9. OneName'
      <3> SUFFICES ASSUME NEW k \in Jobs, NEW n \in Names,
                          fd'[k] # NoJob, dir'[n] = fd'[k]
                   PROVE  n = Name(k)
        BY <2>3 DEF OneName, Name
      <3>1. CASE k = j
        BY <1>1, <2>1, <2>2, <2>4, <2>6, <3>1 DEF Inv, OneName, Name
      <3>2. CASE k # j
        BY <1>1, <2>1, <2>2, <2>5, <3>2 DEF Inv, OneName
      <3> QED
        BY <3>1, <3>2
    <2>10. FailedLeavesNothing'
      <3> SUFFICES ASSUME NEW k \in Jobs, Ended(k)', fd'[k] # NoJob, ~Kept(k)',
                          NEW n \in Names \ Undeletable
                   PROVE  dir'[n] # fd'[k]
        BY DEF FailedLeavesNothing
      <3>1. k # j /\ Ended(k) /\ ~Kept(k) /\ fd'[k] = fd[k]
        BY <2>2, <2>3 DEF Ended, At, Kept
      <3> QED
        BY <2>1, <2>2, <2>5, <3>1 DEF Inv, FailedLeavesNothing, TypeOK, Name
    <2> QED
      BY <2>7, <2>8, <2>9, <2>10 DEF Inv
  <1>3. CASE Say(j, FALSE) /\ Goto(j, "done") /\ UNCHANGED <<fd, dir>>
    <2>1. /\ pc'[j] = "done" /\ order' = order /\ path' = path /\ reads' = reads
          /\ \A k \in Jobs \ {j} : pc'[k] = pc[k] /\ said'[k] = said[k]
      BY <1>3 DEF TypeOK, Open, Say, Goto
    <2>2. OpenedAt' /\ WholeName' /\ OpensOwnName' /\ Creators' /\ OneName'
      BY <1>3, <2>1
         DEF Inv, OpenedAt, WholeName, OpensOwnName, Creators, OneName, Name
    <2>3. FailedLeavesNothing'
      BY <1>1, <1>3, <2>1 DEF Inv, FailedLeavesNothing, Ended, At, Kept
    <2> QED
      BY <2>2, <2>3 DEF Inv
  <1> QED
    BY <1>2, <1>3 DEF Open

\* A turn of the loop, and its end with READY.
LEMMA ReceiveInv ==
    ASSUME TypeOK, Inv, NEW j \in Jobs, Receive(j) \/ Finish(j)
    PROVE  Inv'
  <1>1. /\ fd' = fd /\ dir' = dir /\ order' = order /\ path' = path
        /\ fd[j] # NoJob
        /\ \A k \in Jobs \ {j} :
               pc'[k] = pc[k] /\ said'[k] = said[k] /\ reads'[k] = reads[k]
        /\ \/ pc'[j] \in {"receive", "unlink"}
           \/ pc'[j] = "done" /\ Kept(j)'
    <2>1. CASE Receive(j)
      <3> DEFINE wanted == IF remaining[j] < Chunk THEN remaining[j] ELSE Chunk
      <3>1. wanted \in Nat
        BY NumbersAssumption DEF TypeOK, Words
      <3> HIDE DEF wanted
      <3>2. PICK received : ReadFull(j, wanted, received)
        BY <2>1 DEF Receive, wanted
      <3>3. \A k \in Jobs \ {j} : reads'[k] = reads[k]
        BY <3>1, <3>2, ReadType
      <3>4. Goto(j, "unlink") \/ UNCHANGED pc
        BY <2>1 DEF Receive, Write
      <3> QED
        BY <2>1, <3>3, <3>4 DEF TypeOK, Inv, OpenedAt, Receive, At, Goto
    <2>2. CASE Finish(j)
      <3>1. Say(j, TRUE)
        BY <2>2 DEF Finish
      <3>2. said'[j][Len(said'[j])] = TRUE /\ \A k \in Jobs \ {j} : said'[k] = said[k]
        BY <3>1, SayType
      <3>3. pc'[j] = "done"
        BY <2>2 DEF Finish, Goto, TypeOK
      <3> QED
        BY <2>2, <3>2, <3>3 DEF TypeOK, Inv, OpenedAt, Finish, At, Goto, Kept, Ended
    <2> QED
      BY <2>1, <2>2
  <1>2. OpenedAt' /\ WholeName' /\ OpensOwnName' /\ Creators' /\ OneName'
    BY <1>1 DEF Inv, OpenedAt, WholeName, OpensOwnName, Creators, OneName, Name
  <1>3. FailedLeavesNothing'
    BY <1>1 DEF Inv, FailedLeavesNothing, Ended, At, Kept
  <1> QED
    BY <1>2, <1>3 DEF Inv

\* The name that is removed is the only one the job's inode can have: if unlink
\* cannot remove it, it is one of those of which nothing is promised.
LEMMA UnlinkInv ==
    ASSUME TypeOK, Inv, NEW j \in Jobs, Unlink(j)
    PROVE  Inv'
  <1>1. /\ fd' = fd /\ order' = order /\ path' = path
        /\ fd[j] # NoJob /\ path[j] = Name(j) /\ pc'[j] = "done"
        /\ \A k \in Jobs \ {j} :
               pc'[k] = pc[k] /\ said'[k] = said[k] /\ reads'[k] = reads[k]
    BY DEF TypeOK, Inv, OpenedAt, OpensOwnName, Unlink, At, Say, Goto
  <1>2. \/ dir' = [dir EXCEPT ![Name(j)] = NoJob]
        \/ Name(j) \in Undeletable /\ dir' = dir
    BY <1>1 DEF Unlink, Discarded
  <1>3. \A n \in Names : dir'[n] # NoJob =>
            dir'[n] = dir[n] /\ (n # Name(j) \/ n \in Undeletable)
    BY <1>2 DEF TypeOK
  <1>4. OpenedAt' /\ WholeName' /\ OpensOwnName'
    BY <1>1 DEF Inv, OpenedAt, WholeName, OpensOwnName, Name
  <1>5. Creators' /\ OneName'
    BY <1>1, <1>3 DEF Inv, Creators, OneName, Name
  <1>6. FailedLeavesNothing'
    <2> SUFFICES ASSUME NEW k \in Jobs, Ended(k)', fd'[k] # NoJob, ~Kept(k)',
                        NEW n \in Names \ Undeletable, dir'[n] = fd'[k]
                 PROVE  FALSE
      BY DEF FailedLeavesNothing
    <2>1. CASE k = j
      BY <1>1, <1>3, <2>1 DEF Inv, OneName
    <2>2. CASE k # j
      BY <1>1, <1>3, <2>2 DEF Inv, FailedLeavesNothing, Ended, At, Kept
    <2> QED
      BY <2>1, <2>2
  <1> QED
    BY <1>4, <1>5, <1>6 DEF Inv

LEMMA IInvStep == TypeOK /\ Inv /\ [Next]_vars => TypeOK' /\ Inv'
  <1> SUFFICES ASSUME TypeOK, Inv, [Next]_vars
               PROVE  TypeOK' /\ Inv'
    OBVIOUS
  <1>1. ASSUME NEW j \in Jobs, Accept(j)
        PROVE  TypeOK' /\ Inv'
    BY <1>1, AcceptType, UnopenedInv
  <1>2. ASSUME NEW j \in Jobs, ReadName(j)
        PROVE  TypeOK' /\ Inv'
    BY <1>2, ReadNameType, UnopenedInv
  <1>3. ASSUME NEW j \in Jobs, ReadSize(j)
        PROVE  TypeOK' /\ Inv'
    BY <1>3, ReadSizeType, UnopenedInv
  <1>4. ASSUME NEW j \in Jobs, Receive(j)
        PROVE  TypeOK' /\ Inv'
    <2>1. fd[j] # NoJob
      BY <1>4 DEF Inv, OpenedAt, Receive, At
    <2> QED
      BY <1>4, <2>1, ReceiveType, ReceiveInv
  <1>5. ASSUME NEW j \in Jobs, Open(j)
        PROVE  TypeOK' /\ Inv'
    BY <1>5, OpenType, OpenInv
  <1>6. ASSUME NEW j \in Jobs, Finish(j)
        PROVE  TypeOK' /\ Inv'
    BY <1>6, EndType, ReceiveInv
  <1>7. ASSUME NEW j \in Jobs, Unlink(j)
        PROVE  TypeOK' /\ Inv'
    BY <1>7, EndType, UnlinkInv
  <1>8. ASSUME NEW j \in Jobs, Remove(j)
        PROVE  TypeOK' /\ Inv'
    BY <1>8, EndType, UnopenedInv
  <1>9. CASE UNCHANGED vars
    BY <1>9 DEF vars, jvars, TypeOK, Inv, OpenedAt, WholeName, OpensOwnName, Creators,
                OneName, FailedLeavesNothing, Ended, At, Kept, Name
  <1> QED
    BY <1>1, <1>2, <1>3, <1>4, <1>5, <1>6, <1>7, <1>8, <1>9 DEF Next, Read, Local

-----------------------------------------------------------------------------
\* The inductive invariant: where a job has a file open, that its name is whole
\* by then, and that an inode has no name but the one it was opened under.
THEOREM Invariance == Spec => [](TypeOK /\ Inv)
  <1>1. Init => TypeOK /\ Inv
    BY TypeInit, InvInit
  <1> QED
    BY <1>1, IInvStep, PTL DEF Spec

\* The variables keep their types; bytesRemaining stays a word however a failed
\* read is counted.
THEOREM TypeCorrect == Spec => []TypeOK
  BY Invariance, PTL

\* An upload that downloadFileTo gave up leaves no name of its file, for any
\* number of connections working on the same names.
THEOREM FailedLeavesNothingCorrect == Spec => []FailedLeavesNothing
  <1>1. TypeOK /\ Inv => FailedLeavesNothing
    BY DEF Inv
  <1> QED
    BY <1>1, Invariance, PTL

\* An upload opens its file under the name the client sent, and no other.
THEOREM OpensOwnNameCorrect == Spec => []OpensOwnName
  <1>1. TypeOK /\ Inv => OpensOwnName
    BY DEF Inv
  <1> QED
    BY <1>1, Invariance, PTL

-----------------------------------------------------------------------------
(* UploadStore implements FileStore: step by step, for commands on a name   *)
(* that come over one connection and reads that do not fail with an errno.  *)

\* Commands on the same name arrive on the same connection, so that its thread
\* runs them one after the other, and a read of a socket that breaks returns 0.
\* The orders are fixed: it is true of a whole behaviour or of no state of it.
TakeTurns ==
    /\ Errnos = {}
    /\ \A j, k \in Jobs : Name(j) = Name(k) => Conn[j] = Conn[k]

Active(j) == pc[j] \notin {"idle", "done"}

\* A connection's thread is inside one command at most.
OneAtATime ==
    \A j, k \in Jobs : j # k /\ Conn[j] = Conn[k] => ~(Active(j) /\ Active(k))

\* What a job that runs has of its order, and what it has done of it.
Stored(j) ==
    /\ pc[j] \notin {"idle", "unlink", "done"} => Live(j)
    /\ pc[j] \in {"size", "open", "receive", "unlink"} => Upload(j)
    /\ pc[j] = "remove" => ~Upload(j)
    /\ pc[j] \in {"size", "open", "receive", "unlink", "remove"} => path[j] = Name(j)
    /\ pc[j] \in {"open", "receive"} => filesize[j] = order[j].size
    /\ pc[j] \in {"receive", "unlink"} => dir[Name(j)] = fd[j]
    /\ pc[j] = "receive" =>
          /\ remaining[j] <= filesize[j]
          /\ content[fd[j]] = [o \in 0 .. filesize[j] - remaining[j] - 1 |-> j]

StoredInv == OneAtATime /\ (TakeTurns => \A j \in Jobs : Stored(j))

-----------------------------------------------------------------------------
(* What a step leaves to the other jobs.                                    *)

JobStep(j) == Accept(j) \/ Read(j) \/ Local(j)

\* Without an errno a read returns all that was asked for, or the end.
LEMMA ReadAll ==
    ASSUME TypeOK, Errnos = {}, NEW j \in Jobs, NEW wanted \in Nat \ {0}, NEW received,
           ReadFull(j, wanted, received), Live(j)
    PROVE  \/ received = wanted /\ ~Stops(received) /\ reads' = reads /\ reads'[j] = "ok"
           \/ received = 0 /\ Stops(received) /\ reads'[j] # "ok"
<1>1. reads[j] = "ok"
  BY DEF Live
<1>2. CASE received = wanted /\ UNCHANGED reads
  BY <1>1, <1>2 DEF Stops
<1>3. CASE received = 0 /\ reads' = [reads EXCEPT ![j] = "eof"]
  BY <1>3 DEF Stops, TypeOK
<1>q. QED BY <1>2, <1>3 DEF ReadFull

\* What no step of a job touches of another.
LEMMA OthersKeep ==
    ASSUME TypeOK, NEW j \in Jobs, JobStep(j)
    PROVE  /\ order' = order
           /\ \A k \in Jobs \ {j} :
                 /\ pc'[k] = pc[k] /\ path'[k] = path[k] /\ filesize'[k] = filesize[k]
                 /\ remaining'[k] = remaining[k] /\ fd'[k] = fd[k]
                 /\ said'[k] = said[k] /\ reads'[k] = reads[k]
<1>1. CASE Accept(j)
  BY <1>1 DEF Accept, Say, Goto, TypeOK
<1>2. CASE ReadName(j)
  <2>1. \A k \in Jobs \ {j} : reads'[k] = reads[k]
    BY <1>2, ReadType, NameLength DEF ReadName
  <2>q. QED BY <1>2, <2>1 DEF ReadName, Say, Goto, TypeOK
<1>3. CASE ReadSize(j)
  <2>1. \A k \in Jobs \ {j} : reads'[k] = reads[k]
    BY <1>3, ReadType DEF ReadSize
  <2>q. QED BY <1>3, <2>1 DEF ReadSize, Say, Goto, TypeOK
<1>4. CASE Receive(j)
  <2> DEFINE wanted == IF remaining[j] < Chunk THEN remaining[j] ELSE Chunk
  <2>1. wanted \in Nat
    BY NumbersAssumption DEF TypeOK, Words
  <2> HIDE DEF wanted
  <2>2. PICK received : /\ ReadFull(j, wanted, received)
                        /\ IF Stops(received)
                           THEN Goto(j, "unlink") /\ UNCHANGED <<remaining, content>>
                           ELSE Write(j, received)
    BY <1>4 DEF Receive, wanted
  <2>3. \A k \in Jobs \ {j} : reads'[k] = reads[k]
    BY <2>1, <2>2, ReadType
  <2>4. \A k \in Jobs \ {j} : pc'[k] = pc[k] /\ remaining'[k] = remaining[k]
    BY <2>2 DEF Write, Goto, TypeOK
  <2>q. QED BY <1>4, <2>3, <2>4 DEF Receive
<1>5. CASE Open(j)
  BY <1>5 DEF Open, Say, Goto, TypeOK
<1>6. CASE Finish(j) \/ Unlink(j) \/ Remove(j)
  BY <1>6 DEF Finish, Unlink, Remove, Say, Goto, TypeOK
<1>q. QED BY <1>1, <1>2, <1>3, <1>4, <1>5, <1>6 DEF JobStep, Read, Local

LEMMA StepsActive ==
    ASSUME NEW j \in Jobs, JobStep(j)
    PROVE  Accept(j) \/ Active(j)
  BY DEF JobStep, Read, Local, ReadName, ReadSize, Receive, Open, Finish, Unlink, Remove,
         At, Active

\* The thread of a connection takes the next command when it is done with the
\* one before.
LEMMA OneAtATimeStep ==
    ASSUME TypeOK, OneAtATime, NEW j \in Jobs, JobStep(j)
    PROVE  OneAtATime'
<1>1. \A k \in Jobs \ {j} : pc'[k] = pc[k]
  BY OthersKeep
<1>2. CASE Accept(j)
  BY <1>1, <1>2 DEF Accept, ThreadFree, OneAtATime, Active
<1>3. CASE Active(j)
  BY <1>1, <1>3 DEF OneAtATime, Active
<1>q. QED BY <1>2, <1>3, StepsActive

\* An inode that two jobs opened was opened under one name.
LEMMA OwnInode ==
    ASSUME TypeOK, Inv, NEW j \in Jobs, NEW n \in Names, n # Name(j), fd[j] # NoJob
    PROVE  dir[n] # fd[j]
  BY DEF Inv, OneName

\* While a job runs, no other touches its name, its file or its connection.
LEMMA Untouched ==
    ASSUME TypeOK, Inv, OneAtATime, TakeTurns, \A i \in Jobs : Stored(i),
           NEW j \in Jobs, JobStep(j), NEW k \in Jobs \ {j}, Active(k)
    PROVE  /\ Live(k) => Live(k)'
           /\ dir'[Name(k)] = dir[Name(k)]
           /\ pc[k] = "receive" => content'[fd[k]] = content[fd[k]]
<1>1. Name(j) \in Names /\ Name(k) \in Names /\ Stored(j) /\ Stored(k)
  BY DEF TypeOK, Name
<1>2. /\ \A i \in Jobs \ {j} : reads'[i] = reads[i]
  BY OthersKeep
<1>3. CASE Accept(j)
  BY <1>3 DEF Accept, Live
<1>4. CASE Active(j)
  <2>1. Name(j) # Name(k) /\ Conn[j] # Conn[k]
    BY <1>4 DEF OneAtATime, TakeTurns
  <2>2. Live(k) => Live(k)'
    BY <1>2, <2>1 DEF Live
  <2>3. CASE ReadName(j) \/ ReadSize(j) \/ Finish(j)
    BY <2>2, <2>3 DEF ReadName, ReadSize, Finish
  <2>4. CASE Receive(j)
    <3>1. fd[j] # NoJob /\ pc[j] = "receive" /\ dir' = dir
      BY <2>4 DEF Receive, At, Inv, OpenedAt
    <3>2. pc[k] = "receive" => fd[k] # fd[j]
      BY <1>1, <2>1, <3>1, OwnInode DEF Stored
    <3>3. pc[k] = "receive" => content'[fd[k]] = content[fd[k]]
      BY <2>4, <3>2 DEF Receive, Write, Inv, OpenedAt, TypeOK, Owner
    <3>q. QED BY <2>2, <3>1, <3>3
  <2>5. CASE Open(j)
    <3>1. path[j] = Name(j) /\ fd[j] = NoJob
      BY <1>1, <2>5 DEF Open, At, Stored, Inv, OpenedAt
    <3> DEFINE i == IF dir[Name(j)] = NoJob THEN j ELSE dir[Name(j)]
    <3>2. pc[k] = "receive" => fd[k] # NoJob /\ fd[k] # i /\ fd[k] \in Jobs
      <4>1. pc[k] = "receive" => fd[k] # NoJob /\ fd[k] \in Jobs
        BY DEF Inv, OpenedAt, TypeOK, Owner
      <4>2. fd[k] # NoJob => fd[k] # dir[Name(j)]
        BY <1>1, <2>1, OwnInode
      <4>3. fd[k] # NoJob => fd[k] # j
        BY <3>1, NobodyAssumption DEF Inv, Creators
      <4>q. QED BY <4>1, <4>2, <4>3
    <3>3. \/ /\ dir' = [dir EXCEPT ![Name(j)] = i]
             /\ content' = [content EXCEPT ![i] = << >>]
          \/ UNCHANGED <<dir, content>>
      BY <2>5, <3>1 DEF Open
    <3> HIDE DEF i
    <3>4. dir'[Name(k)] = dir[Name(k)]
      BY <1>1, <2>1, <3>3 DEF TypeOK
    <3>5. pc[k] = "receive" => content'[fd[k]] = content[fd[k]]
      BY <3>2, <3>3 DEF TypeOK
    <3>q. QED BY <2>2, <3>4, <3>5
  <2>6. CASE Unlink(j) \/ Remove(j)
    <3>1. path[j] = Name(j) /\ content' = content
      BY <1>1, <2>6 DEF Unlink, Remove, At, Stored
    <3>2. dir'[Name(k)] = dir[Name(k)]
      BY <1>1, <2>1, <2>6, <3>1 DEF Unlink, Remove, TypeOK
    <3>q. QED BY <2>2, <3>1, <3>2
  <2>q. QED BY <1>3, <2>3, <2>4, <2>5, <2>6 DEF JobStep, Read, Local
<1>q. QED BY <1>3, <1>4, StepsActive

LEMMA StoredOther ==
    ASSUME TypeOK, Inv, OneAtATime, TakeTurns, \A i \in Jobs : Stored(i),
           NEW j \in Jobs, JobStep(j), NEW k \in Jobs \ {j}
    PROVE  Stored(k)'
<1>1. /\ order' = order
      /\ pc'[k] = pc[k] /\ path'[k] = path[k] /\ filesize'[k] = filesize[k]
      /\ remaining'[k] = remaining[k] /\ fd'[k] = fd[k]
  BY OthersKeep
<1>2. Name(k)' = Name(k) /\ (Upload(k)' <=> Upload(k)) /\ Stored(k)
  BY <1>1 DEF Name, Upload
<1>3. CASE Active(k)
  <2>1. /\ Live(k) => Live(k)'
        /\ dir'[Name(k)] = dir[Name(k)]
        /\ pc[k] = "receive" => content'[fd[k]] = content[fd[k]]
    BY <1>3, Untouched
  <2>q. QED BY <1>1, <1>2, <2>1 DEF Stored
<1>4. CASE ~Active(k)
  <2>1. pc[k] = "idle" \/ pc[k] = "done"
    BY <1>4 DEF Active
  <2>q. QED BY <1>1, <2>1 DEF Stored
<1>q. QED BY <1>3, <1>4

-----------------------------------------------------------------------------
(* The job's own step.                                                      *)

LEMMA SmallMod ==
    ASSUME NEW a \in Words
    PROVE  a % WordMod = a
<1>1. WordMod \in Nat \ {0} /\ a \in Nat /\ a < WordMod
  BY NumbersAssumption DEF Words
<1>2. \A m \in Nat \ {0}, b \in Nat : b < m => b % m = b
  OBVIOUS
<1>q. QED BY <1>1, <1>2

\* Bytes written at the end of the bytes of the same client.
LEMMA Appended ==
    ASSUME NEW j, NEW at \in Nat, NEW n \in Nat
    PROVE  Overwrite([o \in 0 .. at - 1 |-> j], at, n, j) = [o \in 0 .. at + n - 1 |-> j]
<1>1. (0 .. at - 1) \cup (at .. at + n - 1) = 0 .. at + n - 1
  OBVIOUS
<1>2. \A o \in 0 .. at + n - 1 : o \notin at .. at + n - 1 => o \in 0 .. at - 1
  OBVIOUS
<1>q. QED BY <1>1, <1>2 DEF Overwrite

\* One turn of the loop: the bytes asked for are behind those that came, or the
\* upload is given up.
LEMMA OneTurn ==
    ASSUME TypeOK, Inv, TakeTurns, NEW j \in Jobs, Stored(j), Receive(j)
    PROVE  /\ pc[j] = "receive" /\ path' = path /\ fd' = fd /\ dir' = dir
           /\ filesize' = filesize /\ order' = order /\ said' = said
           /\ \A i \in Jobs : i # fd[j] => content'[i] = content[i]
           /\ \/ pc'[j] = "unlink"
              \/ /\ pc'[j] = "receive"
                 /\ reads' = reads
                 /\ remaining'[j] <= filesize[j]
                 /\ content'[fd[j]] = [o \in 0 .. filesize[j] - remaining'[j] - 1 |-> j]
<1> DEFINE wanted == IF remaining[j] < Chunk THEN remaining[j] ELSE Chunk
<1>1. /\ pc[j] = "receive" /\ remaining[j] # 0 /\ Live(j)
      /\ fd[j] \in Jobs
      /\ remaining[j] \in Words /\ filesize[j] \in Words
      /\ remaining[j] <= filesize[j]
      /\ content[fd[j]] = [o \in 0 .. filesize[j] - remaining[j] - 1 |-> j]
  BY DEF Receive, At, Stored, TypeOK, Inv, OpenedAt, Owner
<1>2. wanted \in Nat \ {0} /\ wanted <= remaining[j]
  BY <1>1, NumbersAssumption DEF Words
<1> HIDE DEF wanted
<1>3. PICK received : /\ ReadFull(j, wanted, received)
                      /\ IF Stops(received)
                         THEN Goto(j, "unlink") /\ UNCHANGED <<remaining, content>>
                         ELSE Write(j, received)
  BY DEF Receive, wanted
<1>4. /\ path' = path /\ fd' = fd /\ dir' = dir /\ filesize' = filesize
      /\ order' = order /\ said' = said
  BY DEF Receive
<1>5. CASE Stops(received)
  BY <1>1, <1>3, <1>4, <1>5 DEF Goto, TypeOK
<1>6. CASE ~Stops(received)
  <2>1. received = wanted /\ reads' = reads /\ reads'[j] = "ok"
    BY <1>1, <1>2, <1>3, <1>6, ReadAll DEF TakeTurns
  <2>2. PICK n \in 0 .. received :
           /\ content' = [content EXCEPT ![fd[j]] = Overwrite(@, Offset(j), n, j)]
           /\ \/ Short(n, received) /\ Goto(j, "unlink") /\ UNCHANGED remaining
              \/ /\ ~Short(n, received)
                 /\ remaining' = [remaining EXCEPT ![j] = Left(j, received)]
                 /\ UNCHANGED pc
    BY <1>3, <1>6, <2>1 DEF Write
  <2>3. \A i \in Jobs : i # fd[j] => content'[i] = content[i]
    BY <2>2 DEF TypeOK
  <2>4. CASE Short(n, received)
    BY <1>1, <1>4, <2>2, <2>3, <2>4 DEF Goto, TypeOK
  <2>5. CASE ~Short(n, received)
    <3> DEFINE at == filesize[j] - remaining[j]
    <3>1. n = wanted
      BY <1>2, <2>1, <2>2, <2>5 DEF Short
    <3>2. at \in Words /\ remaining[j] - wanted \in Words
      BY <1>1, <1>2, NumbersAssumption, SMTT(30) DEF Words
    <3>3. Offset(j) = at /\ Left(j, received) = remaining[j] - wanted
      BY <2>1, <3>2, SmallMod DEF Offset, Left
    <3>4. remaining'[j] = remaining[j] - wanted /\ pc' = pc
      BY <2>2, <2>5, <3>3 DEF TypeOK
    <3>5. content'[fd[j]] = Overwrite(content[fd[j]], at, n, j)
      BY <1>1, <2>2, <3>3 DEF TypeOK
    <3>6. at \in Nat /\ at + wanted = filesize[j] - (remaining[j] - wanted)
      BY <1>1, <1>2, <3>2 DEF Words
    <3>7. content'[fd[j]] = [o \in 0 .. at + wanted - 1 |-> j]
      <4> HIDE DEF at
      <4>1. content[fd[j]] = [o \in 0 .. at - 1 |-> j]
        BY <1>1 DEF at
      <4>q. QED BY <1>2, <3>1, <3>5, <3>6, <4>1, Appended
    <3>8. remaining'[j] <= filesize[j]
      BY <1>1, <1>2, <3>4 DEF Words
    <3>9. at + wanted = filesize[j] - remaining'[j]
      BY <3>4, <3>6
    <3> HIDE DEF at
    <3>10. content'[fd[j]] = [o \in 0 .. filesize[j] - remaining'[j] - 1 |-> j]
      <4>1. 0 .. at + wanted - 1 = 0 .. filesize[j] - remaining'[j] - 1
        <5>1. at + wanted - 1 = (at + wanted) - 1
          BY <1>2, <3>6
        <5>q. QED BY <3>9, <5>1
      <4>q. QED BY <3>7, <4>1
    <3>q. QED BY <1>1, <1>4, <2>1, <2>3, <3>4, <3>8, <3>10
  <2>q. QED BY <2>4, <2>5
<1>q. QED BY <1>1, <1>4, <1>5, <1>6

LEMMA StoredOwn ==
    ASSUME TypeOK, Inv, OneAtATime, TakeTurns, NEW j \in Jobs, Stored(j), JobStep(j)
    PROVE  Stored(j)'
<1>1. order' = order /\ Name(j)' = Name(j) /\ (Upload(j)' <=> Upload(j))
  BY OthersKeep DEF Name, Upload
<1>2. \A l : Goto(j, l) => pc'[j] = l
  BY DEF Goto, TypeOK
<1>3. reads' = reads => (Live(j)' <=> Live(j))
  BY DEF Live
<1>4. Name(j) \in Names
  BY DEF Name, TypeOK
<1>5. CASE Accept(j)
  BY <1>1, <1>2, <1>3, <1>5 DEF Accept, Stored
<1>6. CASE ReadName(j)
  <2>1. pc[j] = "name" /\ Live(j) /\ Length[Name(j)] \in Nat \ {0}
    BY <1>6, NameLength DEF ReadName, At, Stored
  <2>2. PICK received : /\ ReadFull(j, Length[Name(j)], received)
                        /\ Goto(j, IF Stops(received) THEN "done" ELSE AfterName(j))
    BY <1>6 DEF ReadName
  <2>3. CASE Stops(received)
    BY <1>2, <2>2, <2>3 DEF Stored
  <2>4. CASE ~Stops(received)
    <3>1. reads' = reads /\ reads'[j] = "ok"
      BY <2>1, <2>2, <2>4, ReadAll DEF TakeTurns
    <3>2. path'[j] = Name(j)
      BY <1>6, <3>1 DEF ReadName, TypeOK
    <3>3. pc'[j] = AfterName(j)
      BY <1>2, <2>2, <2>4
    <3>q. QED BY <1>1, <1>3, <2>1, <3>1, <3>2, <3>3 DEF Stored, AfterName
  <2>q. QED BY <2>3, <2>4
<1>7. CASE ReadSize(j)
  <2>1. pc[j] = "size" /\ Live(j) /\ Upload(j) /\ path[j] = Name(j) /\ path' = path
    BY <1>7 DEF ReadSize, At, Stored
  <2>2. PICK received : /\ ReadFull(j, 4, received)
                        /\ Goto(j, IF Stops(received) THEN "done" ELSE "open")
    BY <1>7 DEF ReadSize
  <2>3. CASE Stops(received)
    BY <1>2, <2>2, <2>3 DEF Stored
  <2>4. CASE ~Stops(received)
    <3>1. reads' = reads /\ reads'[j] = "ok"
      BY <2>1, <2>2, <2>4, ReadAll DEF TakeTurns
    <3>2. filesize'[j] = order[j].size
      BY <1>7, <3>1 DEF ReadSize, TypeOK
    <3>3. pc'[j] = "open"
      BY <1>2, <2>2, <2>4
    <3>q. QED BY <1>1, <1>3, <2>1, <3>1, <3>2, <3>3 DEF Stored
  <2>q. QED BY <2>3, <2>4
<1>8. CASE Receive(j)
  <2>1. Stored(j) /\ pc[j] = "receive" /\ path' = path /\ fd' = fd /\ dir' = dir
        /\ filesize' = filesize
    BY <1>8, OneTurn
  <2>2. CASE pc'[j] = "unlink"
    BY <1>1, <2>1, <2>2 DEF Stored
  <2>3. CASE /\ pc'[j] = "receive"
             /\ reads' = reads
             /\ remaining'[j] <= filesize[j]
             /\ content'[fd[j]] = [o \in 0 .. filesize[j] - remaining'[j] - 1 |-> j]
    BY <1>1, <1>3, <2>1, <2>3 DEF Stored
  <2>q. QED BY <1>8, <2>2, <2>3, OneTurn
<1>9. CASE Open(j)
  <2>1. /\ pc[j] = "open" /\ Live(j) /\ Upload(j) /\ path[j] = Name(j)
        /\ filesize[j] = order[j].size /\ filesize[j] \in Nat
        /\ reads' = reads /\ path' = path /\ filesize' = filesize
    BY <1>9, NumbersAssumption DEF Open, At, Stored, TypeOK, Words
  <2> DEFINE i == IF dir[Name(j)] = NoJob THEN j ELSE dir[Name(j)]
  <2>2. CASE /\ fd' = [fd EXCEPT ![j] = i]
             /\ dir' = [dir EXCEPT ![Name(j)] = i]
             /\ content' = [content EXCEPT ![i] = << >>]
             /\ remaining' = [remaining EXCEPT ![j] = filesize[j]]
             /\ pc'[j] = "receive"
    <3>1. i \in Jobs
      BY <1>4 DEF TypeOK, Owner
    <3> HIDE DEF i
    <3>2. fd'[j] = i /\ dir'[Name(j)] = i /\ remaining'[j] = filesize[j]
          /\ content'[i] = << >>
      BY <1>4, <2>2, <3>1 DEF TypeOK
    <3>3. << >> = [o \in 0 .. filesize[j] - remaining'[j] - 1 |-> j]
      <4>1. 0 .. filesize[j] - remaining'[j] - 1 = {}
        BY <2>1, <3>2
      <4>q. QED BY <4>1
    <3>q. QED BY <1>1, <1>3, <2>1, <2>2, <3>2, <3>3 DEF Stored
  <2>3. CASE pc'[j] = "done"
    BY <2>3 DEF Stored
  <2>q. QED BY <1>2, <1>9, <2>1, <2>2, <2>3 DEF Open
<1>10. CASE Finish(j) \/ Unlink(j) \/ Remove(j)
  <2>1. pc'[j] = "done"
    BY <1>2, <1>10 DEF Finish, Unlink, Remove
  <2>q. QED BY <2>1 DEF Stored
<1>q. QED BY <1>5, <1>6, <1>7, <1>8, <1>9, <1>10 DEF JobStep, Read, Local

LEMMA StoredInit == Init => StoredInv
<1> SUFFICES ASSUME Init PROVE StoredInv
  OBVIOUS
<1>1. \A j \in Jobs : pc[j] = "idle"
  BY DEF Init
<1>q. QED BY <1>1 DEF StoredInv, OneAtATime, Active, Stored

LEMMA StoredStep ==
    ASSUME TypeOK, Inv, StoredInv, [Next]_vars
    PROVE  StoredInv' /\ (TakeTurns' <=> TakeTurns)
<1>1. CASE UNCHANGED vars
  BY <1>1 DEF vars, jvars, StoredInv, OneAtATime, Active, TakeTurns, Stored, Live, Name, Upload
<1>2. ASSUME NEW j \in Jobs, JobStep(j) PROVE StoredInv' /\ (TakeTurns' <=> TakeTurns)
  <2>1. TakeTurns' <=> TakeTurns
    BY <1>2, OthersKeep DEF TakeTurns, Name
  <2>2. OneAtATime'
    BY <1>2, OneAtATimeStep DEF StoredInv
  <2>3. TakeTurns => \A k \in Jobs : Stored(k)'
    BY <1>2, StoredOwn, StoredOther DEF StoredInv
  <2>q. QED BY <2>1, <2>2, <2>3 DEF StoredInv
<1>q. QED BY <1>1, <1>2 DEF Next, JobStep

\* The thread of a connection is inside one command at most; when commands take
\* turns, an upload's file holds exactly the bytes its client has sent so far.
THEOREM StoredInvariance == Spec => [](TypeOK /\ Inv /\ StoredInv)
<1>1. Init => TypeOK /\ Inv /\ StoredInv
  BY TypeInit, InvInit, StoredInit
<1>2. TypeOK /\ Inv /\ StoredInv /\ [Next]_vars => TypeOK' /\ Inv' /\ StoredInv'
  BY IInvStep, StoredStep
<1>q. QED BY <1>1, <1>2, PTL DEF Spec

-----------------------------------------------------------------------------
(* The steps of FileStore.                                                  *)

Chosen(S) == IF S = {} THEN NoJob ELSE CHOOSE j \in S : TRUE

Busy(n) == {j \in Jobs : pc[j] \in {"receive", "unlink"} /\ path[j] = n}

LEMMA ChosenIs ==
    /\ Chosen({}) = NoJob
    /\ \A S : S # {} => Chosen(S) \in S
    /\ \A j : Chosen({j}) = j
  BY DEF Chosen

LEMMA WriterChosen ==
    \A n : /\ Writer(n) = Chosen(Busy(n))
           /\ Writer(n)' = Chosen(Busy(n)')
  BY DEF Writer, Chosen, Busy

\* Nobody else replaces the file of a name while a job on it runs.
LEMMA BusyAlone ==
    ASSUME TypeOK, TakeTurns, StoredInv, NEW j \in Jobs, Active(j)
    PROVE  Busy(Name(j)) = IF pc[j] \in {"receive", "unlink"} THEN {j} ELSE {}
<1>1. ASSUME NEW k \in Busy(Name(j)) PROVE k = j
  <2>1. k \in Jobs /\ pc[k] \in {"receive", "unlink"} /\ path[k] = Name(j)
    BY DEF Busy
  <2>2. Name(k) = Name(j)
    BY <2>1 DEF StoredInv, Stored
  <2>q. QED BY <2>1, <2>2 DEF TakeTurns, StoredInv, OneAtATime, Active
<1>2. j \in Busy(Name(j)) <=> pc[j] \in {"receive", "unlink"}
  BY DEF Busy, StoredInv, Stored
<1>q. QED BY <1>1, <1>2

\* The names a step does not work on.
LEMMA ElsewhereKept ==
    ASSUME TypeOK, Inv, TakeTurns, StoredInv, StoredInv', TakeTurns',
           NEW j \in Jobs, JobStep(j), NEW n \in Names, n # Name(j)
    PROVE  Busy(n)' = Busy(n) /\ Writer(n)' = Writer(n) /\ Held(n)' = Held(n)
<1>1. /\ Name(j)' = Name(j) /\ Name(j) \in Names
      /\ \A k \in Jobs \ {j} : pc'[k] = pc[k] /\ path'[k] = path[k]
  BY OthersKeep DEF Name, TypeOK
<1>2. j \notin Busy(n)
  BY DEF Busy, StoredInv, Stored
<1>3. j \notin Busy(n)'
  BY <1>1 DEF Busy, StoredInv, Stored
<1>4. Busy(n)' = Busy(n)
  <2>1. \A k \in Jobs \ {j} : k \in Busy(n)' <=> k \in Busy(n)
    BY <1>1 DEF Busy
  <2>2. Busy(n) \subseteq Jobs /\ Busy(n)' \subseteq Jobs
    BY DEF Busy
  <2>q. QED BY <1>2, <1>3, <2>1, <2>2
<1>5. dir'[n] = dir[n] /\ (dir[n] # NoJob => content'[dir[n]] = content[dir[n]])
  <2> USE DEF StoredInv, Stored
  <2>1. CASE Accept(j) \/ ReadName(j) \/ ReadSize(j) \/ Finish(j)
    BY <2>1 DEF Accept, ReadName, ReadSize, Finish
  <2>2. CASE Receive(j)
    <3>1. fd[j] # NoJob /\ fd[j] # dir[n]
      BY <2>2, OwnInode DEF Receive, At, Inv, OpenedAt
    <3>2. dir[n] # NoJob => dir[n] \in Jobs
      BY DEF TypeOK, Owner
    <3>q. QED BY <2>2, <3>1, <3>2, OneTurn, ZenonT(30)
  <2>3. CASE Open(j)
    <3>1. path[j] = Name(j) /\ fd[j] = NoJob
      BY <2>3 DEF Open, At, Inv, OpenedAt
    <3> DEFINE i == IF dir[Name(j)] = NoJob THEN j ELSE dir[Name(j)]
    <3>2. dir[n] # NoJob => dir[n] \in Jobs /\ dir[n] # i
      <4>1. dir[n] # NoJob => dir[n] \in Jobs /\ fd[dir[n]] = dir[n]
        BY DEF TypeOK, Owner, Inv, Creators
      <4>2. dir[n] # NoJob => dir[n] # j
        BY <3>1, <4>1
      <4>3. dir[n] # NoJob => dir[n] # dir[Name(j)]
        <5>1. ASSUME dir[n] # NoJob, dir[n] = dir[Name(j)] PROVE FALSE
          <6>1. n = Name(dir[n]) /\ Name(j) = Name(dir[n])
            BY <1>1, <4>1, <5>1 DEF Inv, OneName
          <6>q. QED BY <6>1
        <5>q. QED BY <5>1
      <4>q. QED BY <4>1, <4>2, <4>3
    <3>3. \/ /\ dir' = [dir EXCEPT ![Name(j)] = i]
             /\ content' = [content EXCEPT ![i] = << >>]
          \/ UNCHANGED <<dir, content>>
      BY <2>3, <3>1 DEF Open
    <3> HIDE DEF i
    <3>q. QED BY <3>2, <3>3 DEF TypeOK
  <2>4. CASE Unlink(j) \/ Remove(j)
    <3>1. path[j] = Name(j) /\ content' = content
      BY <2>4 DEF Unlink, Remove, At
    <3>q. QED BY <2>4, <3>1 DEF Unlink, Remove, TypeOK
  <2>q. QED BY <2>1, <2>2, <2>3, <2>4 DEF JobStep, Read, Local
<1>6. Writer(n)' = Writer(n)
  BY <1>4, WriterChosen
<1>7. Held(n)' = Held(n)
  <2>1. CASE dir[n] = NoJob \/ Writer(n) # NoJob
    BY <1>5, <1>6, <2>1 DEF Held
  <2>2. CASE dir[n] # NoJob /\ Writer(n) = NoJob
    BY <1>5, <1>6, <2>2 DEF Held
  <2>q. QED BY <2>1, <2>2
<1>q. QED BY <1>4, <1>6, <1>7

\* What a client has been told after a status that ends its command, or does not.
LEMMA Answered ==
    ASSUME TypeOK, NEW j \in Jobs, NEW b \in BOOLEAN, Say(j, b)
    PROVE  /\ pc'[j] # "done" => Outcome(j)' = "none"
           /\ pc'[j] = "done" /\ b => Outcome(j)' = "ready"
           /\ pc'[j] = "done" /\ ~b => Outcome(j)' = "failed"
<1>1. said'[j][Len(said'[j])] = b
  BY SayType
<1>q. QED BY <1>1 DEF Outcome, Ended, At, Kept

\* The store as FileStore sees it.
Holds    == [n \in Names |-> Held(n)]
Writers  == [n \in Names |-> Writer(n)]
Outcomes == [j \in Jobs |-> Outcome(j)]

\* A command that is answered with an error before it touched anything.
LEMMA Refused ==
    ASSUME TypeOK, StoredInv, TakeTurns, NEW j \in Jobs,
           pc[j] \notin {"receive", "unlink", "done"},
           \A n \in Names : Held(n)' = Held(n) /\ Writer(n)' = Writer(n),
           order' = order, \A k \in Jobs \ {j} : Outcome(k)' = Outcome(k),
           Outcome(j)' \in {"none", "failed"}
    PROVE  Store!Refuse(j) \/ UNCHANGED Store!vars
<1>1. Holds' = Holds /\ Writers' = Writers
  BY DEF Holds, Writers
<1>2. Outcome(j) = "none"
  BY DEF Outcome, Ended, At, Kept
<1>3. \A n \in Names : Writers[n] # j
  <2>1. ASSUME NEW n \in Names, Writer(n) = j PROVE FALSE
    <3>1. j \in Busy(n)
      BY <2>1, WriterChosen, ChosenIs, NobodyAssumption
    <3>q. QED BY <3>1 DEF Busy
  <2>q. QED BY <2>1 DEF Writers
<1>4. CASE Outcome(j)' = "none"
  <2>1. Outcomes' = Outcomes
    BY <1>2, <1>4 DEF Outcomes
  <2>q. QED BY <1>1, <2>1 DEF Store!vars, Holds, Writers, Outcomes
<1>5. CASE Outcome(j)' = "failed"
  <2>1. Outcomes' = [Outcomes EXCEPT ![j] = "failed"]
    BY <1>5 DEF Outcomes
  <2>2. Outcomes[j] = "none"
    BY <1>2 DEF Outcomes
  <2>q. QED
    BY <1>1, <1>3, <2>1, <2>2
       DEF Store!Refuse, Store!Answer, Holds, Writers, Outcomes
<1>q. QED BY <1>4, <1>5

\* The names and the other clients, and the name the job works on.
LEMMA Around ==
    ASSUME TypeOK, Inv, TakeTurns, StoredInv, StoredInv', TakeTurns',
           NEW j \in Jobs, JobStep(j)
    PROVE  /\ order' = order
           /\ Name(j) \in Names
           /\ \A k \in Jobs \ {j} : Outcome(k)' = Outcome(k)
           /\ \A n \in Names \ {Name(j)} : Held(n)' = Held(n) /\ Writer(n)' = Writer(n)
<1>1. order' = order /\ \A k \in Jobs \ {j} : pc'[k] = pc[k] /\ said'[k] = said[k]
  BY OthersKeep
<1>2. \A k \in Jobs \ {j} : Outcome(k)' = Outcome(k)
  <2> SUFFICES ASSUME NEW k \in Jobs \ {j} PROVE Outcome(k)' = Outcome(k)
    OBVIOUS
  <2>1. (Ended(k)' <=> Ended(k)) /\ (Kept(k)' <=> Kept(k))
    BY <1>1 DEF Ended, At, Kept
  <2>q. QED BY <2>1 DEF Outcome
<1>q. QED BY <1>1, <1>2, ElsewhereKept DEF Name, TypeOK

\* What becomes of the name of a job that is replacing its file.
LEMMA WriterOf ==
    ASSUME TypeOK, TakeTurns, StoredInv, NEW j \in Jobs, Active(j)
    PROVE  Writer(Name(j)) = IF pc[j] \in {"receive", "unlink"} THEN j ELSE NoJob
<1>1. CASE pc[j] \in {"receive", "unlink"}
  BY <1>1, BusyAlone, WriterChosen, ChosenIs
<1>2. CASE pc[j] \notin {"receive", "unlink"}
  BY <1>2, BusyAlone, WriterChosen, ChosenIs
<1>q. QED BY <1>1, <1>2

\* A job that is over replaces no file any more, and nobody else its name's.
LEMMA WriterAfter ==
    ASSUME TypeOK, TakeTurns, StoredInv, NEW j \in Jobs, Active(j), JobStep(j),
           pc'[j] = "done"
    PROVE  Writer(Name(j))' = NoJob
<1>1. Name(j)' = Name(j)
  BY OthersKeep DEF Name
<1>2. \A k \in Jobs \ {j} : pc'[k] = pc[k] /\ path'[k] = path[k]
  BY OthersKeep
<1>3. Busy(Name(j))' = {}
  <2>1. \A k \in Jobs \ {j} : k \notin Busy(Name(j))
    <3>1. Busy(Name(j)) \subseteq {j}
      BY BusyAlone
    <3>q. QED BY <3>1
  <2>2. \A k \in Jobs : k \notin Busy(Name(j))'
    BY <1>1, <1>2, <2>1 DEF Busy
  <2>q. QED BY <2>2 DEF Busy
<1>q. QED BY <1>1, <1>3, WriterChosen, ChosenIs

\* A command that leaves its name as it is.
LEMMA Quiet ==
    ASSUME TypeOK, Inv, TakeTurns, StoredInv, StoredInv', TakeTurns',
           NEW j \in Jobs, JobStep(j), dir' = dir, content' = content,
           pc[j] \notin {"receive", "unlink", "done"},
           pc'[j] \notin {"receive", "unlink"}
    PROVE  \A n \in Names : Held(n)' = Held(n) /\ Writer(n)' = Writer(n)
<1> SUFFICES ASSUME NEW n \in Names PROVE Held(n)' = Held(n) /\ Writer(n)' = Writer(n)
  OBVIOUS
<1>1. Busy(n)' = Busy(n)
  <2>1. \A k \in Jobs \ {j} : pc'[k] = pc[k] /\ path'[k] = path[k]
    BY OthersKeep
  <2>q. QED BY <2>1 DEF Busy
<1>2. Writer(n)' = Writer(n)
  BY <1>1, WriterChosen
<1>q. QED BY <1>2 DEF Held

LEMMA RefuseStep ==
    ASSUME TypeOK, Inv, TakeTurns, StoredInv, StoredInv', TakeTurns',
           NEW j \in Jobs, JobStep(j), dir' = dir, content' = content,
           pc[j] \notin {"receive", "unlink", "done"},
           pc'[j] \notin {"receive", "unlink"},
           NEW b \in BOOLEAN, Say(j, b), pc'[j] = "done" => ~b
    PROVE  Store!Refuse(j) \/ UNCHANGED Store!vars
<1>1. \A n \in Names : Held(n)' = Held(n) /\ Writer(n)' = Writer(n)
  BY Quiet
<1>2. Outcome(j)' \in {"none", "failed"}
  BY Answered
<1>q. QED BY <1>1, <1>2, Around, Refused

\* The steps before the file is opened.
LEMMA EarlySteps ==
    ASSUME TypeOK, Inv, TakeTurns, StoredInv, StoredInv', TakeTurns', NEW j \in Jobs,
           Accept(j) \/ ReadName(j) \/ ReadSize(j)
    PROVE  Store!Refuse(j) \/ UNCHANGED Store!vars
<1>1. \A l : Goto(j, l) => pc'[j] = l
  BY DEF Goto, TypeOK
<1>2. /\ dir' = dir /\ content' = content /\ JobStep(j)
      /\ pc[j] \in {"idle", "name", "size"}
  BY DEF Accept, ReadName, ReadSize, At, JobStep, Read
<1>3. \E b \in BOOLEAN : /\ Say(j, b)
                         /\ pc'[j] = "done" => ~b
                         /\ pc'[j] \notin {"receive", "unlink"}
  <2>1. CASE Accept(j)
    <3> DEFINE short == Length[Name(j)] <= NameLimit(j)
    <3>1. Say(j, short) /\ Goto(j, IF short THEN "name" ELSE "done") /\ short \in BOOLEAN
      BY <2>1 DEF Accept
    <3> HIDE DEF short
    <3>q. QED BY <1>1, <3>1
  <2>2. CASE ReadName(j)
    BY <1>1, <2>2 DEF ReadName, AfterName
  <2>3. CASE ReadSize(j)
    BY <1>1, <2>3 DEF ReadSize
  <2>q. QED BY <2>1, <2>2, <2>3
<1>q. QED BY <1>2, <1>3, RefuseStep

\* The old file is gone as soon as the new one is opened.
LEMMA OpenStep ==
    ASSUME TypeOK, Inv, TakeTurns, StoredInv, StoredInv', TakeTurns', TypeOK',
           NEW j \in Jobs, Open(j)
    PROVE  Store!Next \/ UNCHANGED Store!vars
<1>1. /\ pc[j] = "open" /\ Upload(j) /\ path[j] = Name(j) /\ Active(j)
      /\ JobStep(j) /\ Name(j) \in Names
  BY DEF Open, At, StoredInv, Stored, Active, JobStep, Local, Name, TypeOK
<1>2. \A l : Goto(j, l) => pc'[j] = l
  BY DEF Goto, TypeOK
<1>3. CASE Say(j, FALSE) /\ Goto(j, "done") /\ UNCHANGED <<dir, content>>
  <2>1. Store!Refuse(j) \/ UNCHANGED Store!vars
    BY <1>1, <1>2, <1>3, RefuseStep
  <2>q. QED BY <2>1 DEF Store!Next
<1>4. CASE Say(j, TRUE) /\ Goto(j, "receive")
  <2>1. pc'[j] = "receive" /\ Active(j)' /\ Name(j)' = Name(j) /\ order' = order
    BY <1>1, <1>2, <1>4, OthersKeep DEF Active, Name
  <2>2. Writer(Name(j)) = NoJob
    BY <1>1, WriterOf
  <2>3. Writer(Name(j))' = j
    <3>1. \A k \in Jobs \ {j} : k \notin Busy(Name(j))
      <4>1. Busy(Name(j)) \subseteq {j}
        BY <1>1, BusyAlone
      <4>q. QED BY <4>1
    <3>2. \A k \in Jobs \ {j} : pc'[k] = pc[k] /\ path'[k] = path[k]
      BY <1>1, OthersKeep
    <3>3. path'[j] = Name(j)
      BY <1>1 DEF Open
    <3>4. Busy(Name(j))' = {j}
      BY <2>1, <3>1, <3>2, <3>3 DEF Busy
    <3>q. QED BY <3>4, WriterChosen, ChosenIs
  <2>4. Held(Name(j))' = Store!Nothing
    BY <2>1, <2>3, NobodyAssumption DEF Held, Store!Nothing
  <2>5. /\ \A k \in Jobs \ {j} : Outcome(k)' = Outcome(k)
        /\ \A n \in Names \ {Name(j)} : Held(n)' = Held(n) /\ Writer(n)' = Writer(n)
    BY <1>1, Around
  <2>6. Outcome(j) = "none" /\ Outcome(j)' = "none"
    BY <1>1, <2>1 DEF Outcome, Ended, At, Kept
  <2>7. /\ Holds' = [Holds EXCEPT ![Name(j)] = Store!Nothing]
        /\ Writers' = [Writers EXCEPT ![Name(j)] = j]
        /\ Outcomes' = Outcomes
        /\ Writers[Name(j)] = NoJob /\ Outcomes[j] = "none"
    BY <1>1, <2>1, <2>2, <2>3, <2>4, <2>5, <2>6 DEF Holds, Writers, Outcomes
  <2>8. Store!Begin(j, Name(j))
    BY <1>1, <2>1, <2>7 DEF Store!Begin, Holds, Writers, Outcomes, Upload, Name
  <2>q. QED BY <1>1, <2>8 DEF Store!Next
<1>q. QED BY <1>3, <1>4 DEF Open

\* Bytes that arrive are not seen before the upload is over.
LEMMA ReceiveStep ==
    ASSUME TypeOK, Inv, TakeTurns, StoredInv, StoredInv', TakeTurns', TypeOK',
           NEW j \in Jobs, Receive(j)
    PROVE  UNCHANGED Store!vars
<1>1. /\ pc[j] = "receive" /\ pc'[j] \in {"receive", "unlink"} /\ path' = path
      /\ Active(j) /\ JobStep(j)
  BY OneTurn DEF StoredInv, Active, JobStep, Read
<1>2. /\ order' = order /\ Name(j)' = Name(j) /\ Name(j) \in Names
      /\ \A k \in Jobs \ {j} : pc'[k] = pc[k] /\ Outcome(k)' = Outcome(k)
      /\ \A n \in Names \ {Name(j)} : Held(n)' = Held(n) /\ Writer(n)' = Writer(n)
  BY <1>1, OthersKeep, Around DEF Name
<1>3. Busy(Name(j))' = Busy(Name(j))
  BY <1>1, <1>2 DEF Busy
<1>4. Writer(Name(j)) = j /\ Writer(Name(j))' = j
  BY <1>1, <1>3, WriterOf, WriterChosen
<1>5. Held(Name(j))' = Held(Name(j))
  BY <1>2, <1>4, NobodyAssumption DEF Held
<1>6. Outcome(j)' = Outcome(j)
  BY <1>1 DEF Outcome, Ended, At, Kept
<1>7. Holds' = Holds /\ Writers' = Writers /\ Outcomes' = Outcomes
  BY <1>2, <1>4, <1>5, <1>6 DEF Holds, Writers, Outcomes
<1>q. QED BY <1>2, <1>7 DEF Store!vars, Holds, Writers, Outcomes

\* An upload that is over has left its whole file, or no file.
LEMMA EndStep ==
    ASSUME TypeOK, Inv, TakeTurns, StoredInv, StoredInv', TakeTurns', TypeOK',
           NEW j \in Jobs, Finish(j) \/ Unlink(j)
    PROVE  Store!Next
<1>s. Stored(j)
  BY DEF StoredInv
<1>a. /\ pc[j] \in {"receive", "unlink"} /\ pc'[j] = "done" /\ content' = content
      /\ JobStep(j)
  BY DEF Finish, Unlink, At, Goto, JobStep, Local, TypeOK
<1>1. /\ pc[j] \in {"receive", "unlink"} /\ pc'[j] = "done" /\ content' = content
      /\ Active(j) /\ JobStep(j)
      /\ path[j] = Name(j) /\ fd[j] \in Jobs /\ dir[Name(j)] = fd[j]
  <2>1. path[j] = Name(j) /\ dir[Name(j)] = fd[j]
    BY <1>s, <1>a DEF Stored
  <2>2. fd[j] \in Jobs /\ Active(j)
    BY <1>a DEF Active, Inv, OpenedAt, TypeOK, Owner
  <2>q. QED BY <1>a, <2>1, <2>2
<1>2. /\ order' = order /\ Name(j)' = Name(j) /\ Name(j) \in Names
      /\ \A k \in Jobs \ {j} : Outcome(k)' = Outcome(k)
      /\ \A n \in Names \ {Name(j)} : Held(n)' = Held(n) /\ Writer(n)' = Writer(n)
  BY <1>1, OthersKeep, Around DEF Name
<1>3. Writer(Name(j)) = j /\ Writer(Name(j))' = NoJob
  BY <1>1, WriterOf, WriterAfter
<1>4. Held(Name(j)) = Store!Nothing /\ Outcome(j) = "none"
  BY <1>1, <1>3, NobodyAssumption DEF Held, Store!Nothing, Outcome, Ended, At, Kept
<1>5. /\ Writers' = [Writers EXCEPT ![Name(j)] = NoJob]
      /\ Writers[Name(j)] = j /\ Outcomes[j] = "none"
  BY <1>2, <1>3, <1>4 DEF Writers, Outcomes
<1>6. CASE Finish(j)
  <2>1. /\ pc[j] = "receive" /\ remaining[j] = 0 /\ dir' = dir /\ Say(j, TRUE)
    BY <1>6 DEF Finish, At
  <2>2. content[fd[j]] = [o \in 0 .. order[j].size - 1 |-> j]
    <3>1. /\ filesize[j] = order[j].size /\ filesize[j] \in Nat
          /\ content[fd[j]] = [o \in 0 .. filesize[j] - remaining[j] - 1 |-> j]
      <4>1. filesize[j] \in Nat
        BY NumbersAssumption DEF TypeOK, Words
      <4>q. QED BY <1>s, <2>1, <4>1 DEF Stored
    <3>2. filesize[j] - remaining[j] - 1 = order[j].size - 1
      BY <2>1, <3>1
    <3>q. QED BY <3>1, <3>2
  <2>3. Held(Name(j))' = Store!Whole(j)
    <3>1. dir'[Name(j)] = fd[j] /\ fd[j] # NoJob
      BY <1>1, <2>1, NobodyAssumption
    <3>q. QED BY <1>1, <1>2, <1>3, <2>2, <3>1 DEF Held, Store!Whole
  <2>4. Outcome(j)' = "ready"
    BY <1>1, <2>1, Answered
  <2>5. /\ Holds' = [Holds EXCEPT ![Name(j)] = Store!Whole(j)]
        /\ Outcomes' = [Outcomes EXCEPT ![j] = "ready"]
    BY <1>2, <2>3, <2>4 DEF Holds, Outcomes
  <2>6. Store!End(j, Name(j), "ready")
    BY <1>2, <1>5, <2>5 DEF Store!End, Store!Answer, Holds, Writers, Outcomes
  <2>q. QED BY <1>2, <2>6 DEF Store!Next
<1>7. CASE Unlink(j)
  <2>1. /\ Say(j, FALSE)
        /\ dir' = [dir EXCEPT ![Name(j)] = NoJob] \/ (Name(j) \in Undeletable /\ dir' = dir)
    BY <1>1, <1>7 DEF Unlink, Discarded
  <2>2. Outcome(j)' = "failed"
    BY <1>1, <2>1, Answered
  <2>3. Outcomes' = [Outcomes EXCEPT ![j] = "failed"]
    BY <1>2, <2>2 DEF Outcomes
  <2>4. ASSUME dir' = [dir EXCEPT ![Name(j)] = NoJob]
        PROVE  Holds' = Holds
    <3>1. dir'[Name(j)] = NoJob
      BY <1>2, <2>4 DEF TypeOK
    <3>2. Held(Name(j))' = Held(Name(j))
      BY <1>2, <1>4, <3>1 DEF Held, Store!Nothing
    <3>q. QED BY <1>2, <3>2 DEF Holds
  <2>5. ASSUME Name(j) \in Undeletable, dir' = dir
        PROVE  Holds' = [Holds EXCEPT ![Name(j)] = Store!Left(Holds'[Name(j)].bytes)]
    <3>1. dir'[Name(j)] # NoJob
      BY <1>1, <2>5, NobodyAssumption
    <3>2. Held(Name(j))' = [there |-> TRUE, bytes |-> content'[dir'[Name(j)]]]
      BY <1>2, <1>3, <3>1 DEF Held
    <3>3. Held(Name(j))' = Store!Left(Held(Name(j))'.bytes)
      BY <3>2 DEF Store!Left
    <3>4. /\ Holds' = [Holds EXCEPT ![Name(j)] = Held(Name(j))']
          /\ Holds'[Name(j)] = Held(Name(j))'
      BY <1>2 DEF Holds
    <3>q. QED BY <3>3, <3>4
  <2>6. \/ Holds' = Holds
        \/ /\ Name(j) \in Undeletable
           /\ Holds' = [Holds EXCEPT ![Name(j)] = Store!Left(Holds'[Name(j)].bytes)]
    BY <2>1, <2>4, <2>5
  <2>7. Store!End(j, Name(j), "failed")
    BY <1>2, <1>5, <2>3, <2>6, Zenon
       DEF Store!End, Store!Answer, Holds, Writers, Outcomes
  <2>q. QED BY <1>2, <2>7 DEF Store!Next
<1>q. QED BY <1>6, <1>7

LEMMA RemoveStep ==
    ASSUME TypeOK, Inv, TakeTurns, StoredInv, StoredInv', TakeTurns', TypeOK',
           NEW j \in Jobs, Remove(j)
    PROVE  Store!Next \/ UNCHANGED Store!vars
<1>1. /\ pc[j] = "remove" /\ pc'[j] = "done" /\ Active(j) /\ JobStep(j)
      /\ path[j] = Name(j) /\ ~Upload(j) /\ content' = content
  BY DEF Remove, At, Goto, Active, JobStep, Local, StoredInv, Stored, TypeOK
<1>2. /\ order' = order /\ Name(j)' = Name(j) /\ Name(j) \in Names
      /\ \A k \in Jobs \ {j} : Outcome(k)' = Outcome(k)
      /\ \A n \in Names \ {Name(j)} : Held(n)' = Held(n) /\ Writer(n)' = Writer(n)
  BY <1>1, OthersKeep, Around DEF Name
<1>3. CASE UNCHANGED dir /\ Say(j, FALSE)
  <2>1. Store!Refuse(j) \/ UNCHANGED Store!vars
    BY <1>1, <1>3, RefuseStep
  <2>q. QED BY <2>1 DEF Store!Next
<1>4. CASE /\ dir[Name(j)] # NoJob
           /\ dir' = [dir EXCEPT ![Name(j)] = NoJob]
           /\ Say(j, TRUE)
  <2>1. Writer(Name(j)) = NoJob /\ Writer(Name(j))' = NoJob
    BY <1>1, WriterOf, WriterAfter
  <2>2. Held(Name(j)).there = TRUE /\ Store!Nothing.there = FALSE
    BY <1>4, <2>1 DEF Held, Store!Nothing
  <2>3. dir'[Name(j)] = NoJob
    BY <1>2, <1>4 DEF TypeOK
  <2>4. Held(Name(j))' = Store!Nothing
    BY <1>2, <2>3 DEF Held, Store!Nothing
  <2>5. Outcome(j)' = "ready" /\ Outcome(j) = "none"
    <3>1. Outcome(j)' = "ready"
      BY <1>1, <1>4, Answered
    <3>2. Outcome(j) = "none"
      BY <1>1 DEF Outcome, Ended, At, Kept
    <3>q. QED BY <3>1, <3>2
  <2>6. /\ Holds' = [Holds EXCEPT ![Name(j)] = Store!Nothing]
        /\ Writers' = Writers
        /\ Outcomes' = [Outcomes EXCEPT ![j] = "ready"]
        /\ Writers[Name(j)] = NoJob /\ Outcomes[j] = "none"
        /\ Holds[Name(j)] # Store!Nothing
    BY <1>2, <2>1, <2>2, <2>4, <2>5 DEF Holds, Writers, Outcomes
  <2>7. order[j].cmd = "delete" /\ order[j].name = Name(j)
    BY <1>1 DEF Upload, Name, TypeOK
  <2>8. Store!Remove(j, Name(j))
    BY <1>2, <2>6, <2>7 DEF Store!Remove, Store!Answer, Holds, Writers, Outcomes
  <2>q. QED BY <1>2, <2>8 DEF Store!Next
<1>q. QED BY <1>1, <1>3, <1>4 DEF Remove

-----------------------------------------------------------------------------
(* The refinement.                                                          *)

LEMMA StoreInit == Init => Store!Init
<1> SUFFICES ASSUME Init PROVE Store!Init
  OBVIOUS
<1>1. order \in [Jobs -> [cmd : {"upload", "delete"}, name : Names, size : Nat]]
  <2>1. Sizes \subseteq Nat
    BY NumbersAssumption
  <2>q. QED BY <2>1 DEF Init
<1>2. \A n \in Names : Writer(n) = NoJob
  <2>1. \A n \in Names : Busy(n) = {}
    BY DEF Init, Busy
  <2>q. QED BY <2>1, WriterChosen, ChosenIs
<1>3. \A n \in Names : Held(n) = Store!Nothing
  BY DEF Init, Held, Store!Nothing
<1>4. \A j \in Jobs : Outcome(j) = "none"
  BY DEF Init, Outcome, Ended, At, Kept
<1>q. QED BY <1>1, <1>2, <1>3, <1>4 DEF Store!Init

LEMMA StoreStep ==
    ASSUME TypeOK, Inv, StoredInv, TakeTurns, TypeOK', StoredInv', TakeTurns', [Next]_vars
    PROVE  [Store!Next]_(Store!vars)
<1>1. CASE UNCHANGED vars
  <2>1. order' = order /\ dir' = dir /\ content' = content
        /\ pc' = pc /\ path' = path /\ said' = said
    BY <1>1 DEF vars, jvars
  <2>2. \A n \in Names : Writer(n)' = Writer(n)
    BY <2>1, WriterChosen DEF Busy
  <2>3. \A n \in Names : Held(n)' = Held(n)
    BY <2>1, <2>2 DEF Held
  <2>4. \A j \in Jobs : Outcome(j)' = Outcome(j)
    BY <2>1 DEF Outcome, Ended, Kept, At
  <2>q. QED BY <2>1, <2>2, <2>3, <2>4 DEF Store!vars
<1>2. ASSUME NEW j \in Jobs, Accept(j) \/ Read(j) \/ Local(j)
      PROVE  Store!Next \/ UNCHANGED Store!vars
  <2>1. CASE Accept(j) \/ ReadName(j) \/ ReadSize(j)
    BY <2>1, EarlySteps DEF Store!Next
  <2>2. CASE Receive(j)
    BY <2>2, ReceiveStep
  <2>3. CASE Open(j)
    BY <2>3, OpenStep
  <2>4. CASE Finish(j) \/ Unlink(j)
    BY <2>4, EndStep
  <2>5. CASE Remove(j)
    BY <2>5, RemoveStep
  <2>q. QED BY <1>2, <2>1, <2>2, <2>3, <2>4, <2>5 DEF Read, Local
<1>q. QED BY <1>1, <1>2 DEF Next

\* The handlers of cmd_uploadfile.cpp and cmd_deleteupload.cpp with
\* downloadFileTo implement the store of FileStore, for clients that take turns
\* on a name and reads of a broken socket that end the stream: a file that was
\* answered with READY is the whole file its client sent, one answered with an
\* error is gone, and a refused command changes nothing.
THEOREM StoreRefined == Spec /\ TakeTurns => StoreSpec
<1> DEFINE Turns == TypeOK /\ Inv /\ StoredInv /\ TakeTurns
<1>1. Init /\ TakeTurns => Turns /\ Store!Init
  BY TypeInit, InvInit, StoredInit, StoreInit
<1>2. Turns /\ [Next]_vars => Turns' /\ [Store!Next]_(Store!vars)
  BY IInvStep, StoredStep, StoreStep
<1> HIDE DEF Turns
<1>q. QED BY <1>1, <1>2, PTL DEF Spec, StoreSpec, Store!Spec

=============================================================================
