---------------------------- MODULE ServerProofs ----------------------------
(***************************************************************************)
(* Theorems about Server for any connections and commands, any zip, chunk, *)
(* word and errno values.                                                  *)
(***************************************************************************)
EXTENDS Server, SequenceTheorems, TLAPS

\* A command that was not read whole is on its way to a read that ends it.
StaleEnds ==
    \A c \in Conns :
        pc[c] = "packet" /\ ~whole[c] => link[c] = "reset" /\ inbox[c] = << >>

\* Where a file may have been announced.
Announcing ==
    \A c \in Conns :
        /\ link[c] = "away" => pc[c] = "none"
        /\ pc[c] \in {"none", "packet", "body", "open"} => ~announced[c]

\* How far a transfer is.
Progress ==
    \A c \in Conns :
        /\ pc[c] = "write" => total[c] < have[c] /\ left[c] + have[c] <= Size
        /\ pc[c] = "write" /\ link[c] = "open" =>
               Len(sent[c]) = Size - left[c] - have[c] + total[c]
        /\ pc[c] = "read" /\ link[c] = "open" => Len(sent[c]) = Size - left[c]

Inv ==
    /\ StaleEnds
    /\ NoGhostCommand
    /\ Announcing
    /\ Progress
    /\ InOrder
    /\ FileComplete

-----------------------------------------------------------------------------
(* The buffer.                                                              *)

LEMMA MostBound ==
    ASSUME NEW n \in 0 .. Size
    PROVE  /\ Most(n) \in 0 .. Chunk
           /\ Most(n) <= n
  BY SizesAssumption DEF Most

LEMMA UncountedNat ==
    ASSUME TypeOK, NEW c \in Conns
    PROVE  Uncounted(c) \in Nat
  <1>1. total[c] + (WordMod - 1) \in Int
    BY SizesAssumption DEF TypeOK
  <1>2. WordMod \in Nat /\ WordMod > 0
    BY SizesAssumption
  <1> QED
    BY <1>1, <1>2 DEF Uncounted

\* What a write of n bytes puts after what was sent.
LEMMA WrittenSent ==
    ASSUME NEW s \in Seq(1 .. Size), NEW from \in Nat, NEW n \in Nat,
           from + n <= Size, Len(s) = from,
           \A i \in DOMAIN s : s[i] = i,
           NEW t, t = s \o [i \in 1 .. n |-> from + i]
    PROVE  /\ t \in Seq(1 .. Size)
           /\ Len(t) = from + n
           /\ \A i \in DOMAIN t : t[i] = i
  <1> DEFINE u == [i \in 1 .. n |-> from + i]
  <1>0. Size \in Nat
    BY SizesAssumption
  <1>1. u \in Seq(1 .. Size) /\ Len(u) = n
    <2>1. \A i \in 1 .. n : from + i \in 1 .. Size
      BY <1>0
    <2>2. u \in [1 .. n -> 1 .. Size]
      BY <2>1
    <2>3. u \in Seq(1 .. Size)
      BY <2>2
    <2>4. 1 .. n = 1 .. Len(u) /\ Len(u) \in Nat
      BY <2>2, <2>3, LenProperties
    <2>5. Len(u) = n
      BY <2>4
    <2> QED
      BY <2>3, <2>5
  <1>2. /\ t \in Seq(1 .. Size)
        /\ Len(t) = Len(s) + Len(u)
        /\ \A i \in 1 .. Len(s) + Len(u) : t[i] = IF i <= Len(s) THEN s[i] ELSE u[i - Len(s)]
    BY <1>1, ConcatProperties
  <1>3. DOMAIN t = 1 .. from + n /\ DOMAIN s = 1 .. from
    BY <1>1, <1>2, LenProperties
  <1>4. ASSUME NEW i \in DOMAIN t PROVE t[i] = i
    <2>1. CASE i <= from
      BY <2>1, <1>1, <1>2, <1>3
    <2>2. CASE i > from
      <3>1. i - from \in 1 .. n
        BY <2>2, <1>3
      <3>2. t[i] = u[i - from]
        BY <2>2, <1>1, <1>2, <1>3
      <3> QED
        BY <3>1, <3>2, <1>3
    <2> QED
      BY <2>1, <2>2, <1>3
  <1> QED
    BY <1>1, <1>2, <1>4

\* A write appends the next bytes of the zip, in order, on a connection that stands.
LEMMA WriteEffect ==
    ASSUME TypeOK, Progress, InOrder, NEW c \in Conns, pc[c] = "write", Written(c)
    PROVE  /\ total'[c] \in 0 .. have[c]
           /\ pc'[c] = IF total'[c] < have[c] THEN "write" ELSE "read"
           /\ sent'[c] \in Seq(1 .. Size)
           /\ \A i \in DOMAIN sent'[c] : sent'[c][i] = i
           /\ link[c] = "open" => Len(sent'[c]) = Size - left[c] - have[c] + total'[c]
  <1>1. PICK n \in 1 .. have[c] - total[c] :
            /\ total' = [total EXCEPT ![c] = Counted(c, n)]
            /\ Goto(c, IF Counted(c, n) < have[c] THEN "write" ELSE "read")
            /\ IF link[c] = "open"
               THEN sent' = [sent EXCEPT ![c] =
                                @ \o [i \in 1 .. n |-> Place(c, total[c] + i)]]
               ELSE UNCHANGED sent
    BY DEF Written
  <1>2. /\ Size \in Nat /\ left[c] \in Nat /\ have[c] \in Nat /\ total[c] \in Nat /\ n \in Nat
        /\ total[c] < have[c] /\ left[c] + have[c] <= Size /\ total[c] + n <= have[c]
        /\ sent[c] \in Seq(1 .. Size)
    BY SizesAssumption DEF TypeOK, Progress
  <1>3. /\ total'[c] = total[c] + n
        /\ total'[c] \in 0 .. have[c]
        /\ pc'[c] = IF total'[c] < have[c] THEN "write" ELSE "read"
    BY <1>1, <1>2 DEF TypeOK, Counted, Goto
  <1>4. CASE link[c] # "open"
    BY <1>1, <1>2, <1>3, <1>4 DEF InOrder
  <1>5. CASE link[c] = "open"
    <2> DEFINE from == Size - left[c] - have[c] + total[c]
    <2>1. from \in Nat /\ from + n <= Size /\ Len(sent[c]) = from
      <3>1. Len(sent[c]) = from
        BY <1>5 DEF Progress
      <3>2. from \in Nat
        BY <1>2
      <3>3. from + n <= Size
        BY <1>2
      <3> QED
        BY <3>1, <3>2, <3>3
    <2>2. [i \in 1 .. n |-> Place(c, total[c] + i)] = [i \in 1 .. n |-> from + i]
      BY <1>2 DEF Place
    <2>3. sent'[c] = sent[c] \o [i \in 1 .. n |-> from + i]
      BY <1>1, <1>5, <2>2, ZenonT(30) DEF TypeOK
    <2>4. \A i \in DOMAIN sent[c] : sent[c][i] = i
      BY DEF InOrder
    <2> HIDE DEF from
    <2>5. /\ sent'[c] \in Seq(1 .. Size)
          /\ Len(sent'[c]) = from + n
          /\ \A i \in DOMAIN sent'[c] : sent'[c][i] = i
      BY <1>2, <2>1, <2>3, <2>4, WrittenSent, ZenonT(30)
    <2>6. from + n = Size - left[c] - have[c] + total'[c]
      BY <1>2, <1>3 DEF from
    <2> QED
      BY <1>3, <2>5, <2>6
  <1> QED
    BY <1>4, <1>5

-----------------------------------------------------------------------------
(* Types.                                                                   *)

LEMMA InitType == Init => TypeOK
  <1>1. 0 \in 0 .. MaxCommands /\ 0 \in 0 .. Size /\ 0 \in 0 .. Chunk /\ 0 \in 0 .. MaxFaults
    BY BoundsAssumption, SizesAssumption
  <1> QED
    BY <1>1 DEF Init, TypeOK, Headers

LEMMA Values ==
    ASSUME TypeOK, NEW c \in Conns
    PROVE  /\ left[c] \in 0 .. Size /\ have[c] \in 0 .. Chunk /\ total[c] \in 0 .. Chunk
           /\ faults[c] \in 0 .. MaxFaults
           /\ Size \in Nat /\ Chunk \in Nat /\ MaxFaults \in Nat
  BY BoundsAssumption, SizesAssumption DEF TypeOK

LEMMA TookType ==
    ASSUME TypeOK, NEW c \in Conns, inbox[c] # << >>, Took(c)
    PROVE  inbox' \in [Conns -> Seq(Headers \cup {"packet", "noise"})]
  <1>1. inbox[c] \in Seq(Headers \cup {"packet", "noise"})
    BY DEF TypeOK
  <1>2. Tail(inbox[c]) \in Seq(Headers \cup {"packet", "noise"})
    BY <1>1, HeadTailProperties
  <1> QED
    BY <1>2 DEF TypeOK, Took

\* The client's steps and what the thread reads of the connection.
LEMMA StreamType ==
    ASSUME TypeOK, NEW c \in Conns,
           \/ Connect(c) \/ HangUp(c) \/ \E h \in Headers \cup {"noise"} : SendCommand(c, h)
           \/ ReadHeader(c) \/ HeaderEnds(c) \/ HeaderFails(c)
           \/ ReadPacket(c) \/ PacketEnds(c) \/ PacketFails(c) \/ RunCommand(c)
    PROVE  TypeOK'
  <1> DEFINE Item == Headers \cup {"packet", "noise"}
  <1>a. inbox[c] \in Seq(Item)
    BY DEF TypeOK
  <1>1. CASE Connect(c)
    BY <1>1 DEF TypeOK, Connect, tvars
  <1>2. CASE HangUp(c)
    <2>1. \A n \in 0 .. Len(inbox[c]) : SubSeq(inbox[c], 1, n) \in Seq(Item)
      <3>1. ASSUME NEW n \in 0 .. Len(inbox[c]) PROVE SubSeq(inbox[c], 1, n) \in Seq(Item)
        <4>1. Len(inbox[c]) \in Nat /\ \A i \in 1 .. n : inbox[c][i] \in Item
          BY <1>a, <3>1, LenProperties, ElementOfSeq
        <4> QED
          BY <4>1, SubSeqProperties
      <3> QED
        BY <3>1
    <2>2. inbox' \in [Conns -> Seq(Item)]
      <3>1. << >> \in Seq(Item)
        OBVIOUS
      <3>2. \E s \in Seq(Item) : inbox' = [inbox EXCEPT ![c] = s]
        BY <1>2, <2>1, <3>1 DEF HangUp
      <3> QED
        BY <3>2 DEF TypeOK
    <2> QED
      BY <1>2, <2>2 DEF TypeOK, HangUp, tvars
  <1>3. CASE \E h \in Headers \cup {"noise"} : SendCommand(c, h)
    <2>1. PICK h \in Headers \cup {"noise"} : SendCommand(c, h)
      BY <1>3
    <2>2. inbox' \in [Conns -> Seq(Item)]
      <3>1. <<h, "packet">> \in Seq(Item) /\ <<h>> \in Seq(Item)
        OBVIOUS
      <3>2. \A s \in Seq(Item) : inbox[c] \o s \in Seq(Item)
        BY <1>a, ConcatProperties
      <3> QED
        BY <2>1, <3>1, <3>2 DEF TypeOK, SendCommand
    <2>3. asked' \in [Conns -> 0 .. MaxCommands]
      BY <2>1, BoundsAssumption DEF TypeOK, SendCommand
    <2> QED
      BY <2>1, <2>2, <2>3 DEF TypeOK, SendCommand, tvars
  <1>4. CASE ReadHeader(c)
    BY <1>4, TookType, ZenonT(30) DEF TypeOK, ReadHeader, Took, Dispatch, Close, Goto, Valid, tvars
  <1>5. CASE HeaderEnds(c)
    BY <1>5 DEF TypeOK, HeaderEnds, Close, Goto, cvars, tvars
  <1>6. CASE HeaderFails(c)
    <2>1. CASE Close(c)
      BY <1>6, <2>1 DEF TypeOK, HeaderFails, Close, Goto, tvars
    <2>2. CASE \E h \in Headers : Dispatch(c, h)
      BY <1>6, <2>2 DEF TypeOK, HeaderFails, Dispatch, Goto, Valid
    <2> QED
      BY <1>6, <2>1, <2>2 DEF HeaderFails
  <1>7. CASE ReadPacket(c)
    BY <1>7, TookType DEF TypeOK, ReadPacket, Took, Goto, tvars
  <1>8. CASE PacketEnds(c)
    BY <1>8 DEF TypeOK, PacketEnds, Goto, cvars, tvars
  <1>9. CASE PacketFails(c)
    BY <1>9 DEF TypeOK, PacketFails, Goto, tvars
  <1>10. CASE RunCommand(c)
    <2>1. <<"noise">> \o inbox[c] \in Seq(Item)
      <3>1. <<"noise">> \in Seq(Item)
        OBVIOUS
      <3> QED
        BY <1>a, <3>1, ConcatProperties
    <2>2. inbox' \in [Conns -> Seq(Item)]
      BY <1>10, <2>1 DEF TypeOK, RunCommand
    <2> QED
      BY <1>10, <2>2 DEF TypeOK, RunCommand, Goto, tvars
  <1> QED
    BY <1>1, <1>2, <1>3, <1>4, <1>5, <1>6, <1>7, <1>8, <1>9, <1>10

LEMMA TransferType ==
    ASSUME TypeOK, Progress, InOrder, NEW c \in Conns,
           \/ OpenZip(c) \/ ReadZip(c) \/ ReadZipFails(c) \/ WriteZip(c) \/ EndTransfer(c)
    PROVE  TypeOK'
  <1>1. CASE OpenZip(c)
    <2>1. Size \in 0 .. Size /\ << >> \in Seq(1 .. Size)
      BY SizesAssumption
    <2>2. left' \in [Conns -> 0 .. Size] /\ sent' \in [Conns -> Seq(1 .. Size)]
      <3>1. \/ left' = [left EXCEPT ![c] = Size] /\ sent' = [sent EXCEPT ![c] = << >>]
            \/ left' = left /\ sent' = sent
        BY <1>1 DEF OpenZip
      <3>2. left \in [Conns -> 0 .. Size] /\ sent \in [Conns -> Seq(1 .. Size)]
        BY DEF TypeOK
      <3>3. left' \in [Conns -> 0 .. Size]
        BY <2>1, <3>1, <3>2
      <3>4. sent' \in [Conns -> Seq(1 .. Size)]
        BY <2>1, <3>1, <3>2
      <3> QED
        BY <3>3, <3>4
    <2>3. announced' \in [Conns -> BOOLEAN]
      BY <1>1 DEF TypeOK, OpenZip
    <2>4. pc' = [pc EXCEPT ![c] = "read"] \/ pc' = [pc EXCEPT ![c] = "header"]
      BY <1>1 DEF OpenZip, Goto
    <2>5. UNCHANGED <<server, link, inbox, asked, hdr, whole, have, total, faults>>
      BY <1>1 DEF OpenZip, cvars
    <2> QED
      BY <2>2, <2>3, <2>4, <2>5 DEF TypeOK
  <1>2. CASE ReadZip(c)
    <2>1. PICK n \in 1 .. Most(left[c]) :
              /\ left' = [left EXCEPT ![c] = @ - n]
              /\ have' = [have EXCEPT ![c] = n]
      BY <1>2 DEF ReadZip
    <2>2. n \in 0 .. Chunk /\ left[c] - n \in 0 .. Size
      BY MostBound, Values
    <2>3. 0 \in 0 .. Chunk
      BY SizesAssumption
    <2> QED
      BY <1>2, <2>1, <2>2, <2>3 DEF TypeOK, ReadZip, Goto, cvars
  <1>3. CASE ReadZipFails(c)
    <2>1. faults[c] + 1 \in 0 .. MaxFaults
      BY <1>3, Values DEF ReadZipFails
    <2> QED
      BY <1>3, <2>1 DEF TypeOK, ReadZipFails, cvars
  <1>4. CASE WriteZip(c)
    <2>1. CASE Written(c)
      <3>1. total'[c] \in 0 .. Chunk
        <4>1. total'[c] \in 0 .. have[c]
          BY <1>4, <2>1, WriteEffect DEF WriteZip
        <4> QED
          BY <4>1, Values
      <3>2. total' \in [Conns -> 0 .. Chunk]
        BY <2>1, <3>1 DEF TypeOK, Written
      <3>3. sent' \in [Conns -> Seq(1 .. Size)]
        BY <1>4, <2>1, WriteEffect DEF TypeOK, WriteZip, Written
      <3> QED
        BY <1>4, <2>1, <3>2, <3>3 DEF TypeOK, WriteZip, Written, Goto
    <2>2. CASE NotWritten(c)
      <3>1. Uncounted(c) < have[c] => Uncounted(c) \in 0 .. Chunk
        BY UncountedNat, Values
      <3>2. total' \in [Conns -> 0 .. Chunk]
        BY <2>2, <3>1 DEF TypeOK, NotWritten
      <3>3. link' = [link EXCEPT ![c] = "failed"] \/ link' = [link EXCEPT ![c] = "reset"]
        BY <2>2 DEF NotWritten
      <3>4. pc' = [pc EXCEPT ![c] = "write"] \/ pc' = [pc EXCEPT ![c] = "read"]
        BY <2>2 DEF NotWritten, Goto
      <3>5. UNCHANGED <<server, inbox, asked, hdr, whole, left, have, faults, announced, sent>>
        BY <1>4, <2>2 DEF WriteZip, NotWritten
      <3> QED
        BY <3>2, <3>3, <3>4, <3>5 DEF TypeOK
    <2> QED
      BY <1>4, <2>1, <2>2 DEF WriteZip
  <1>5. CASE EndTransfer(c)
    BY <1>5 DEF TypeOK, EndTransfer, Goto, cvars, tvars
  <1> QED
    BY <1>1, <1>2, <1>3, <1>4, <1>5

LEMMA StepType == TypeOK /\ Progress /\ InOrder /\ [Next]_vars => TypeOK'
  <1> SUFFICES ASSUME TypeOK, Progress, InOrder, [Next]_vars PROVE TypeOK'
    OBVIOUS
  <1>1. CASE InitializeModules \/ ResolveDynamicLinks \/ MakeSocket \/ Bind \/ Listen \/ AcceptFails
    BY <1>1 DEF TypeOK, InitializeModules, ResolveDynamicLinks, MakeSocket, Bind, Listen,
                AcceptFails, Serve, cvars, tvars
  <1>2. ASSUME NEW c \in Conns, AcceptOne(c) \/ Greet(c) PROVE TypeOK'
    BY <1>2 DEF TypeOK, AcceptOne, Greet, Goto, cvars, tvars
  <1>3. CASE UNCHANGED vars
    BY <1>3 DEF TypeOK, vars, cvars, tvars
  <1> QED
    BY <1>1, <1>2, <1>3, StreamType, TransferType DEF Next, Prompt

-----------------------------------------------------------------------------
(* The invariant.                                                           *)

\* main and serverThread touch no connection.
LEMMA StartUp ==
    ASSUME Inv, \/ InitializeModules \/ ResolveDynamicLinks \/ MakeSocket \/ Bind \/ Listen
                \/ AcceptFails \/ UNCHANGED vars
    PROVE  Inv'
  <1>1. UNCHANGED <<cvars, pc, hdr, whole, tvars>>
    BY DEF InitializeModules, ResolveDynamicLinks, MakeSocket, Bind, Listen, AcceptFails, Serve,
           vars
  <1> QED
    BY <1>1 DEF Inv, StaleEnds, NoGhostCommand, Announcing, Progress, InOrder, FileComplete,
                cvars, tvars

\* Every other step is of one connection.
ConnStep(c) ==
    \/ AcceptOne(c) \/ Connect(c) \/ HangUp(c)
    \/ \E h \in Headers \cup {"noise"} : SendCommand(c, h)
    \/ Prompt(c) \/ WriteZip(c)

LEMMA OtherConn ==
    ASSUME TypeOK, NEW c \in Conns, ConnStep(c), NEW d \in Conns \ {c}
    PROVE  /\ link'[d] = link[d] /\ inbox'[d] = inbox[d] /\ pc'[d] = pc[d]
           /\ hdr'[d] = hdr[d] /\ whole'[d] = whole[d] /\ left'[d] = left[d]
           /\ have'[d] = have[d] /\ total'[d] = total[d] /\ announced'[d] = announced[d]
           /\ sent'[d] = sent[d]
  <1>1. CASE AcceptOne(c) \/ Connect(c) \/ HangUp(c)
    BY <1>1 DEF TypeOK, AcceptOne, Connect, HangUp, Goto, cvars, tvars
  <1>2. CASE \E h \in Headers \cup {"noise"} : SendCommand(c, h)
    BY <1>2 DEF TypeOK, SendCommand, tvars
  <1>3. CASE Greet(c) \/ ReadHeader(c) \/ HeaderEnds(c)
    BY <1>3 DEF TypeOK, Greet, ReadHeader, HeaderEnds, Took, Dispatch, Close, Goto, cvars, tvars
  <1>4. CASE HeaderFails(c)
    BY <1>4 DEF TypeOK, HeaderFails, Dispatch, Close, Goto, cvars, tvars
  <1>5. CASE ReadPacket(c) \/ PacketEnds(c) \/ PacketFails(c) \/ RunCommand(c)
    BY <1>5 DEF TypeOK, ReadPacket, PacketEnds, PacketFails, RunCommand, Took, Goto, cvars, tvars
  <1>6. CASE OpenZip(c) \/ ReadZip(c) \/ ReadZipFails(c) \/ EndTransfer(c)
    BY <1>6 DEF TypeOK, OpenZip, ReadZip, ReadZipFails, EndTransfer, Goto, cvars, tvars
  <1>7. CASE WriteZip(c)
    BY <1>7, SMTT(30) DEF TypeOK, WriteZip, Written, NotWritten, Goto, cvars, tvars
  <1> QED
    BY <1>1, <1>2, <1>3, <1>4, <1>5, <1>6, <1>7 DEF ConnStep, Prompt

\* The invariant of one connection.
InvAt(c) ==
    /\ pc[c] = "packet" /\ ~whole[c] => link[c] = "reset" /\ inbox[c] = << >>
    /\ hdr[c] = "save" /\ pc[c] \in {"body", "open", "read", "write"} => whole[c]
    /\ link[c] = "away" => pc[c] = "none"
    /\ pc[c] \in {"none", "packet", "body", "open"} => ~announced[c]
    /\ pc[c] = "write" => total[c] < have[c] /\ left[c] + have[c] <= Size
    /\ pc[c] = "write" /\ link[c] = "open" =>
           Len(sent[c]) = Size - left[c] - have[c] + total[c]
    /\ pc[c] = "read" /\ link[c] = "open" => Len(sent[c]) = Size - left[c]
    /\ \A i \in DOMAIN sent[c] : sent[c][i] = i
    /\ announced[c] /\ link[c] = "open" /\ pc[c] \notin {"read", "write"} =>
           Len(sent[c]) = Size

LEMMA InvIsLocal == Inv <=> \A c \in Conns : InvAt(c)
  BY DEF Inv, InvAt, StaleEnds, NoGhostCommand, Announcing, Progress, InOrder, FileComplete

LEMMA OwnConn ==
    ASSUME TypeOK, Inv, NEW c \in Conns, ConnStep(c)
    PROVE  InvAt(c)'
  <1>0. InvAt(c)
    BY InvIsLocal
  <1>1. CASE AcceptOne(c) \/ Connect(c) \/ Greet(c) \/ HeaderEnds(c) \/ ReadZipFails(c)
    BY <1>0, <1>1 DEF TypeOK, InvAt, AcceptOne, Connect, Greet, HeaderEnds, ReadZipFails, Close,
                      Goto, cvars, tvars
  <1>2. CASE HangUp(c)
    BY <1>0, <1>2 DEF TypeOK, InvAt, HangUp, tvars
  <1>3. CASE \E h \in Headers \cup {"noise"} : SendCommand(c, h)
    BY <1>0, <1>3 DEF TypeOK, InvAt, SendCommand, tvars
  <1>4. CASE ReadHeader(c)
    BY <1>0, <1>4 DEF TypeOK, InvAt, ReadHeader, Took, Dispatch, Close, Goto, Valid, tvars
  <1>5. CASE HeaderFails(c)
    BY <1>0, <1>5 DEF TypeOK, InvAt, HeaderFails, Dispatch, Close, Goto, Valid, tvars
  <1>6. CASE ReadPacket(c)
    BY <1>0, <1>6 DEF TypeOK, InvAt, ReadPacket, Took, Goto, tvars
  <1>7. CASE PacketEnds(c)
    BY <1>0, <1>7 DEF TypeOK, InvAt, PacketEnds, Goto, cvars, tvars
  \* The errno is too small for a save packet.
  <1>8. CASE PacketFails(c)
    <2>1. hdr[c] = "save" => pc'[c] = "header"
      BY <1>8, ErrnosAssumption DEF TypeOK, PacketFails, PacketShort, Goto
    <2> QED
      BY <1>0, <1>8, <2>1 DEF TypeOK, InvAt, PacketFails, Goto, tvars
  <1>9. CASE RunCommand(c)
    BY <1>0, <1>9 DEF TypeOK, InvAt, RunCommand, Goto, tvars
  <1>10. CASE OpenZip(c)
    <2>1. Size \in Nat /\ Len(<< >>) = 0 /\ DOMAIN << >> = {}
      BY SizesAssumption
    <2> QED
      BY <1>0, <1>10, <2>1 DEF TypeOK, InvAt, OpenZip, Goto, cvars
  <1>11. CASE ReadZip(c)
    <2>1. PICK n \in 1 .. Most(left[c]) :
              /\ left' = [left EXCEPT ![c] = @ - n]
              /\ have' = [have EXCEPT ![c] = n]
      BY <1>11 DEF ReadZip
    <2>2. n \in Nat /\ 0 < n /\ n <= left[c]
      BY MostBound, Values
    <2>3. /\ left'[c] = left[c] - n /\ have'[c] = n /\ total'[c] = 0
          /\ pc[c] = "read" /\ pc'[c] = "write" /\ hdr' = hdr /\ whole' = whole
          /\ link' = link /\ inbox' = inbox /\ announced' = announced /\ sent' = sent
      BY <1>11, <2>1 DEF TypeOK, ReadZip, Goto, cvars
    <2>4. left'[c] + have'[c] <= Size /\ total'[c] < have'[c]
      BY <2>2, <2>3, Values
    <2>5. Size - left'[c] - have'[c] + total'[c] = Size - left[c]
      BY <2>2, <2>3, Values
    <2> QED
      BY <1>0, <2>3, <2>4, <2>5 DEF InvAt
  <1>12. CASE WriteZip(c)
    <2>0. /\ pc[c] = "write" /\ total[c] < have[c] /\ left[c] + have[c] <= Size
          /\ hdr' = hdr /\ whole' = whole /\ left' = left /\ have' = have
          /\ inbox' = inbox /\ announced' = announced
      BY <1>0, <1>12 DEF InvAt, WriteZip
    <2>1. CASE Written(c)
      <3>1. link' = link /\ link[c] # "away"
        BY <2>1 DEF Written
      <3>2. /\ total'[c] \in 0 .. have[c]
            /\ pc'[c] = IF total'[c] < have[c] THEN "write" ELSE "read"
            /\ \A i \in DOMAIN sent'[c] : sent'[c][i] = i
            /\ link[c] = "open" => Len(sent'[c]) = Size - left[c] - have[c] + total'[c]
        BY <2>0, <2>1, WriteEffect DEF Inv
      <3>3. ~ (total'[c] < have[c]) => Size - left[c] - have[c] + total'[c] = Size - left[c]
        BY <3>2, Values
      <3> QED
        BY <1>0, <2>0, <3>1, <3>2, <3>3 DEF InvAt
    <2>2. CASE NotWritten(c)
      <3>1. link'[c] \in {"failed", "reset"} /\ sent' = sent
        BY <2>2 DEF TypeOK, NotWritten
      <3>2. \/ pc'[c] = "write" /\ total'[c] < have[c]
            \/ pc'[c] = "read"
        BY <2>2 DEF TypeOK, NotWritten, Goto
      <3> QED
        BY <1>0, <2>0, <3>1, <3>2 DEF InvAt
    <2> QED
      BY <1>12, <2>1, <2>2 DEF WriteZip
  <1>13. CASE EndTransfer(c)
    <2>1. Size - 0 = Size
      BY SizesAssumption
    <2> QED
      BY <1>0, <1>13, <2>1 DEF TypeOK, InvAt, EndTransfer, Goto, cvars, tvars
  <1> QED
    BY <1>1, <1>2, <1>3, <1>4, <1>5, <1>6, <1>7, <1>8, <1>9, <1>10, <1>11, <1>12, <1>13
    DEF ConnStep, Prompt

LEMMA InitInv == Init => Inv
  <1>1. DOMAIN << >> = {}
    OBVIOUS
  <1> QED
    BY <1>1 DEF Init, Inv, StaleEnds, NoGhostCommand, Announcing, Progress, InOrder, FileComplete

LEMMA StepInv == TypeOK /\ Inv /\ [Next]_vars => Inv'
  <1> SUFFICES ASSUME TypeOK, Inv, [Next]_vars PROVE Inv'
    OBVIOUS
  <1>1. ASSUME NEW c \in Conns, ConnStep(c) PROVE Inv'
    <2>1. InvAt(c)'
      BY <1>1, OwnConn
    <2>2. ASSUME NEW d \in Conns \ {c} PROVE InvAt(d)'
      <3>1. InvAt(d)
        BY InvIsLocal
      <3> QED
        BY <1>1, <2>2, <3>1, OtherConn DEF InvAt
    <2>3. \A d \in Conns : InvAt(d)'
      BY <2>1, <2>2
    <2> QED
      BY <2>3 DEF Inv, InvAt, StaleEnds, NoGhostCommand, Announcing, Progress, InOrder,
                  FileComplete
  <1> QED
    BY <1>1, StartUp DEF Next, ConnStep

-----------------------------------------------------------------------------
(* The theorems.                                                            *)

\* The invariant holds in every state: where the thread of a connection is says how
\* much of its file the client has been sent.
THEOREM Invariance == Spec => [](TypeOK /\ Inv)
  <1>1. Init => TypeOK /\ Inv
    BY InitType, InitInv
  <1>2. TypeOK /\ Inv /\ [Next]_vars => (TypeOK /\ Inv)'
    BY StepType, StepInv DEF Inv
  <1> QED
    BY <1>1, <1>2, PTL DEF Spec

\* No variable of a thread leaves its range, the wrapped total of _transferFile
\* included.
THEOREM TypeCorrect == Spec => []TypeOK
  BY Invariance, PTL

\* getPacketHeader lets a failed read pass for a header, and no save command runs on
\* it.
THEOREM NoGhostCommandCorrect == Spec => []NoGhostCommand
  <1>1. TypeOK /\ Inv => NoGhostCommand
    BY DEF Inv
  <1> QED
    BY <1>1, Invariance, PTL

\* _transferFile sends the bytes of the zip in order, each once.
THEOREM InOrderCorrect == Spec => []InOrder
  <1>1. TypeOK /\ Inv => InOrder
    BY DEF Inv
  <1> QED
    BY <1>1, Invariance, PTL

\* _transferFile ends on a connection that stands only when the client was sent the
\* whole zip.
THEOREM FileCompleteCorrect == Spec => []FileComplete
  <1>1. TypeOK /\ Inv => FileComplete
    BY DEF Inv
  <1> QED
    BY <1>1, Invariance, PTL

=============================================================================
