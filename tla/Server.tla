------------------------------- MODULE Server -------------------------------
(***************************************************************************)
(* The server's threads: main and serverThread start up and accept, and    *)
(* clientHandler reads a header and runs a command for each connection.    *)
(* getPacketHeader, readFull and transferFile are modelled with the ways   *)
(* they can be cut short; what a command does besides is in SaveJobs and   *)
(* UploadStore.                                                            *)
(***************************************************************************)
EXTENDS Naturals, Sequences

CONSTANTS
    Conns,          \* connections clients may make
    MaxCommands,    \* bound: commands a client sends on its connection
    Errnos,         \* what a failed read of a socket leaves in errno
    HeaderSize,     \* sizeof(PacketHeader)
    PacketSize,     \* the smallest packet of the save commands
    Size,           \* bytes of the zip that is transferred
    Chunk,          \* the buffer of _transferFile
    WordMod,        \* 2^64, the range of a size_t
    MaxFaults       \* bound: failed reads of the zip during a transfer

ASSUME BoundsAssumption == MaxCommands \in Nat /\ MaxFaults \in Nat
ASSUME SizesAssumption ==
    /\ HeaderSize \in Nat /\ PacketSize \in Nat /\ Size \in Nat
    /\ Chunk \in Nat \ {0}
    /\ WordMod \in Nat /\ Size < WordMod /\ Chunk + 1 < WordMod
ASSUME ErrnosAssumption == Errnos \subseteq Nat \ {0} /\ \A e \in Errnos : e < PacketSize

VARIABLES
    server,     \* where the start-up or serverThread is
    link,       \* each connection as its two ends see it
    inbox,      \* what its client has sent and the server not read
    asked,      \* commands its client has sent
    pc,         \* the next call of its thread
    hdr,        \* pHeader.cmd
    whole,      \* whether what was read of the command was read whole
    left,       \* size of _transferFile
    have,       \* bytesRead
    total,      \* totalBytesWritten
    faults,     \* failed reads of the zip
    announced,  \* whether the client was told of a file of Size bytes
    sent        \* which bytes of the file it was sent, in order

tvars == <<left, have, total, faults, announced, sent>>
cvars == <<link, inbox, asked>>
vars  == <<server, cvars, pc, hdr, whole, tvars>>

Valid   == {"save", "store"}      \* a save command; upload or deletion
Headers == Valid \cup {"invalid"}

\* A connection is broken when its client has closed it (reads end, and writes may
\* be taken that nobody gets), when it has failed (the next read tells the error),
\* and when that error has been told (reads end).
Over == {"ended", "reset"}
Broken == Over \cup {"failed"}

TypeOK ==
    /\ server \in {"modules", "links", "socket", "bind", "listen", "accept", "gone", "off"}
    /\ link \in [Conns -> {"away", "open", "ended", "failed", "reset"}]
    /\ inbox \in [Conns -> Seq(Headers \cup {"packet", "noise"})]
    /\ asked \in [Conns -> 0 .. MaxCommands]
    /\ pc \in [Conns -> {"none", "greet", "header", "packet", "body", "open",
                         "read", "write", "closed"}]
    /\ hdr \in [Conns -> Headers]
    /\ whole \in [Conns -> BOOLEAN]
    /\ left \in [Conns -> 0 .. Size]
    /\ have \in [Conns -> 0 .. Chunk]
    /\ total \in [Conns -> 0 .. Chunk]
    /\ faults \in [Conns -> 0 .. MaxFaults]
    /\ announced \in [Conns -> BOOLEAN]
    /\ sent \in [Conns -> Seq(1 .. Size)]

Init ==
    /\ server = "modules"
    /\ link = [c \in Conns |-> "away"]
    /\ inbox = [c \in Conns |-> << >>]
    /\ asked = [c \in Conns |-> 0]
    /\ pc = [c \in Conns |-> "none"]
    /\ hdr = [c \in Conns |-> "invalid"]
    /\ whole = [c \in Conns |-> FALSE]
    /\ left = [c \in Conns |-> 0]
    /\ have = [c \in Conns |-> 0]
    /\ total = [c \in Conns |-> 0]
    /\ faults = [c \in Conns |-> 0]
    /\ announced = [c \in Conns |-> FALSE]
    /\ sent = [c \in Conns |-> << >>]

Goto(c, l) == pc' = [pc EXCEPT ![c] = l]

-----------------------------------------------------------------------------
(* main and serverThread.                                                   *)

Serve(from, to) == server = from /\ server' = to /\ UNCHANGED <<cvars, pc, hdr, whole, tvars>>

\* A failure of either leaves main spinning without a server.
InitializeModules   == Serve("modules", "links") \/ Serve("modules", "off")
ResolveDynamicLinks == Serve("links", "socket") \/ Serve("links", "off")

\* socket and listen give up; bind is repeated until it succeeds.
MakeSocket == Serve("socket", "bind") \/ Serve("socket", "off")
Bind       == Serve("bind", "listen")
Listen     == Serve("listen", "accept") \/ Serve("listen", "off")

AcceptOne(c) ==
    /\ server = "accept"
    /\ link[c] # "away"
    /\ pc[c] = "none"
    /\ Goto(c, "greet")
    /\ UNCHANGED <<server, cvars, hdr, whole, tvars>>

\* A failed accept ends the thread; the listening socket stays open.
AcceptFails == Serve("accept", "gone")

-----------------------------------------------------------------------------
(* The clients.                                                             *)

Connect(c) ==
    /\ server \in {"accept", "gone"}
    /\ link[c] = "away"
    /\ link' = [link EXCEPT ![c] = "open"]
    /\ UNCHANGED <<server, inbox, asked, pc, hdr, whole, tvars>>

SendCommand(c, h) ==
    /\ link[c] = "open"
    /\ asked[c] < MaxCommands
    /\ asked' = [asked EXCEPT ![c] = @ + 1]
    /\ inbox' = [inbox EXCEPT ![c] = @ \o IF h \in Valid THEN <<h, "packet">> ELSE <<h>>]
    /\ UNCHANGED <<server, link, pc, hdr, whole, tvars>>

\* The client closes, or has sent only a part, or the connection fails and what
\* was not read is lost.
HangUp(c) ==
    /\ link[c] = "open"
    /\ \/ /\ \E n \in 0 .. Len(inbox[c]) : inbox' = [inbox EXCEPT ![c] = SubSeq(@, 1, n)]
          /\ link' = [link EXCEPT ![c] = "ended"]
       \/ /\ inbox' = [inbox EXCEPT ![c] = << >>]
          /\ link' = [link EXCEPT ![c] = "failed"]
    /\ UNCHANGED <<server, asked, pc, hdr, whole, tvars>>

-----------------------------------------------------------------------------
(* clientHandler and getPacketHeader.                                       *)

Greet(c) ==
    /\ pc[c] = "greet"
    /\ Goto(c, "header")
    /\ UNCHANGED <<server, cvars, hdr, whole, tvars>>

\* The switch over the command; CMD_IS_INVALID is answered in place.
Dispatch(c, h) ==
    /\ hdr' = [hdr EXCEPT ![c] = h]
    /\ announced' = [announced EXCEPT ![c] = FALSE]
    /\ Goto(c, IF h \in Valid THEN "packet" ELSE "header")
    /\ UNCHANGED <<left, have, total, faults, sent>>

Close(c) == Goto(c, "closed") /\ UNCHANGED <<hdr, tvars>>

Took(c) == inbox' = [inbox EXCEPT ![c] = Tail(@)] /\ UNCHANGED <<link, asked>>

ReadHeader(c) ==
    /\ pc[c] = "header"
    /\ inbox[c] # << >>
    /\ IF Head(inbox[c]) \in Headers THEN Dispatch(c, Head(inbox[c])) ELSE Close(c)
    /\ whole' = [whole EXCEPT ![c] = TRUE]
    /\ Took(c)
    /\ UNCHANGED server

HeaderEnds(c) ==
    /\ pc[c] = "header"
    /\ link[c] \in Over
    /\ inbox[c] = << >>
    /\ Close(c)
    /\ UNCHANGED <<server, cvars, whole>>

\* readFull returns errno, which passes for the size of a header when it is large
\* enough; the buffer may hold the last header, a part of the next, or anything.
HeaderFails(c) ==
    /\ pc[c] = "header"
    /\ link[c] = "failed"
    /\ inbox[c] = << >>
    /\ \/ \E e \in Errnos : e >= HeaderSize /\ \E h \in Headers : Dispatch(c, h)
       \/ Close(c)
    /\ whole' = [whole EXCEPT ![c] = FALSE]
    /\ link' = [link EXCEPT ![c] = "reset"]
    /\ UNCHANGED <<server, inbox, asked>>

-----------------------------------------------------------------------------
(* The handlers: the packet, and what the thread does next.                 *)

ReadPacket(c) ==
    /\ pc[c] = "packet"
    /\ inbox[c] # << >>
    /\ Took(c)
    /\ Goto(c, "body")
    /\ UNCHANGED <<server, hdr, whole, tvars>>

PacketEnds(c) ==
    /\ pc[c] = "packet"
    /\ link[c] \in Over
    /\ inbox[c] = << >>
    /\ Goto(c, "header")
    /\ UNCHANGED <<server, cvars, hdr, whole, tvars>>

\* readStatus < sizeof(packet); an upload and a deletion only look for a stream
\* that has ended, and go on with what they have of the name.
\* Mutant of PacketShort: every command does so.
PacketShortNever(c, e) == e = 0

PacketShort(c, e) == e = 0 \/ (hdr[c] = "save" /\ e < PacketSize)

PacketFails(c) ==
    /\ pc[c] = "packet"
    /\ link[c] = "failed"
    /\ inbox[c] = << >>
    /\ \E e \in Errnos : Goto(c, IF PacketShort(c, e) THEN "header" ELSE "body")
    /\ link' = [link EXCEPT ![c] = "reset"]
    /\ whole' = [whole EXCEPT ![c] = FALSE]
    /\ UNCHANGED <<server, inbox, asked, hdr, tvars>>

\* A save command comes to its transfer or ends before it; an upload that could
\* not be written leaves the rest of its bytes to be read as a header.
RunCommand(c) ==
    /\ pc[c] = "body"
    /\ \/ hdr[c] = "save" /\ Goto(c, "open") /\ UNCHANGED inbox
       \/ Goto(c, "header") /\ UNCHANGED inbox
       \/ /\ hdr[c] = "store"
          /\ whole[c] /\ link[c] # "failed"
          /\ Goto(c, "header")
          /\ inbox' = [inbox EXCEPT ![c] = <<"noise">> \o @]
    /\ UNCHANGED <<server, link, asked, hdr, whole, tvars>>

-----------------------------------------------------------------------------
(* transferFile and _transferFile.  The zip is the job's own and does not   *)
(* shrink, and a write to a socket of at least a byte does not return 0:    *)
(* the two tests for 0 never fire.                                          *)

\* open and both lseeks, or one of them fails and the file is not announced.
OpenZip(c) ==
    /\ pc[c] = "open"
    /\ \/ /\ announced' = [announced EXCEPT ![c] = TRUE]
          /\ left' = [left EXCEPT ![c] = Size]
          /\ sent' = [sent EXCEPT ![c] = << >>]
          /\ Goto(c, "read")
       \/ Goto(c, "header") /\ UNCHANGED <<announced, left, sent>>
    /\ UNCHANGED <<server, cvars, hdr, whole, have, total, faults>>

\* Mutant of Most: the size left is not looked at.
MostChunk(n) == Chunk

Most(n) == IF n < Chunk THEN n ELSE Chunk

ReadZip(c) ==
    /\ pc[c] = "read"
    /\ left[c] > 0
    /\ \E n \in 1 .. Most(left[c]) :
           /\ left' = [left EXCEPT ![c] = @ - n]
           /\ have' = [have EXCEPT ![c] = n]
    /\ total' = [total EXCEPT ![c] = 0]
    /\ Goto(c, "write")
    /\ UNCHANGED <<server, cvars, hdr, whole, faults, announced, sent>>

\* A failed read is repeated.
ReadZipFails(c) ==
    /\ pc[c] = "read"
    /\ left[c] > 0
    /\ faults[c] < MaxFaults
    /\ faults' = [faults EXCEPT ![c] = @ + 1]
    /\ UNCHANGED <<server, cvars, pc, hdr, whole, left, have, total, announced, sent>>

EndTransfer(c) ==
    /\ pc[c] = "read"
    /\ left[c] = 0
    /\ Goto(c, "header")
    /\ UNCHANGED <<server, cvars, hdr, whole, tvars>>

\* The place in the file of the i-th byte of the buffer.
Place(c, i) == Size - left[c] - have[c] + i

\* Mutants of Counted: the last write's count is taken for the sum; any write is
\* taken for a whole one.
CountedLast(c, n) == n
CountedAll(c, n)  == have[c]

Counted(c, n) == total[c] + n

Written(c) ==
    /\ link[c] \in {"open", "ended"}
    /\ UNCHANGED link
    /\ \E n \in 1 .. have[c] - total[c] :
           /\ total' = [total EXCEPT ![c] = Counted(c, n)]
           /\ Goto(c, IF Counted(c, n) < have[c] THEN "write" ELSE "read")
           /\ IF link[c] = "open"
              THEN sent' = [sent EXCEPT ![c] = @ \o [i \in 1 .. n |-> Place(c, total[c] + i)]]
              ELSE UNCHANGED sent

\* -1 is kept in a size_t: below zero it wraps to the largest one, which ends the
\* loop, and above zero the byte before is written again.
\* Mutant of Uncounted: the write is repeated.
UncountedRepeating(c) == total[c]

Uncounted(c) == (total[c] + (WordMod - 1)) % WordMod

NotWritten(c) ==
    /\ link[c] \in Broken
    /\ \E l \in {"failed", "reset"} :
           (link[c] = "reset" => l = "reset") /\ link' = [link EXCEPT ![c] = l]
    /\ IF Uncounted(c) < have[c]
       THEN Goto(c, "write") /\ total' = [total EXCEPT ![c] = Uncounted(c)]
       ELSE Goto(c, "read") /\ UNCHANGED total
    /\ UNCHANGED sent

WriteZip(c) ==
    /\ pc[c] = "write"
    /\ Written(c) \/ NotWritten(c)
    /\ UNCHANGED <<server, inbox, asked, hdr, whole, left, have, faults, announced>>

-----------------------------------------------------------------------------
\* What a connection's thread does without waiting for its client.
Prompt(c) ==
    \/ Greet(c) \/ ReadHeader(c) \/ HeaderEnds(c) \/ HeaderFails(c)
    \/ ReadPacket(c) \/ PacketEnds(c) \/ PacketFails(c) \/ RunCommand(c)
    \/ OpenZip(c) \/ ReadZip(c) \/ ReadZipFails(c) \/ EndTransfer(c)
    \/ link[c] # "open" /\ WriteZip(c)

Next ==
    \/ InitializeModules \/ ResolveDynamicLinks \/ MakeSocket \/ Bind \/ Listen
    \/ AcceptFails
    \/ \E c \in Conns :
           \/ AcceptOne(c) \/ Connect(c) \/ HangUp(c)
           \/ \E h \in Headers \cup {"noise"} : SendCommand(c, h)
           \/ Prompt(c) \/ WriteZip(c)

Fairness == \A c \in Conns : WF_vars(Prompt(c))

Spec == Init /\ [][Next]_vars /\ Fairness

-----------------------------------------------------------------------------
(* What the server promises.                                                *)

\* A save command runs only when its header and its packet were read whole: a
\* header that a failed read left behind is dispatched, and never gets that far.
NoGhostCommand ==
    \A c \in Conns :
        hdr[c] = "save" /\ pc[c] \in {"body", "open", "read", "write"} => whole[c]

\* What a client is sent of a file is the beginning of it: short writes and
\* failed ones neither repeat nor leave out a byte.
InOrder ==
    \A c \in Conns : \A i \in DOMAIN sent[c] : sent[c][i] = i

\* On a connection that stands, a file that was announced has been sent to the
\* last byte before the thread says anything else: the next four bytes the client
\* reads are a status.
FileComplete ==
    \A c \in Conns :
        announced[c] /\ link[c] = "open" /\ pc[c] \notin {"read", "write"} =>
            Len(sent[c]) = Size

\* The thread of a connection that has ended or failed closes it, in the middle of
\* a transfer and after a command that was never sent, as long as the zip can be
\* read.
BrokenCloses ==
    \A c \in Conns :
        pc[c] # "none" /\ link[c] \in Broken ~> pc[c] = "closed"

=============================================================================
