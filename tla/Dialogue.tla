------------------------------ MODULE Dialogue ------------------------------
(***************************************************************************)
(* The save commands and their clients: generate.py, extract.py (called    *)
(* for one save after another by repeat.py) and resign.py.  A client and   *)
(* the thread of its connection agree on nothing but the order of the      *)
(* statuses: a status is four bytes that do not say what they report.      *)
(*                                                                         *)
(* A call is the client's half of a job.  No connection breaks by itself   *)
(* here; the upload a client makes before its command is left out: it      *)
(* would read what an earlier call left, and leave as many statuses of its *)
(* own to the command.  The request of a job (req of SaveJobs) is what its *)
(* handler finds in the bytes it takes for the packet, which may be        *)
(* another call's.                                                         *)
(***************************************************************************)
EXTENDS SaveJobs

VARIABLES
    wire,      \* on each connection, the statuses sent and not yet read
    stream,    \* the headers and packets sent to the server and not yet read
    open,      \* whether the server's end of the connection is open
    call,      \* the client's function: not called, running, returned, or lost
    pos,       \* the status of its script it reads next
    asked,     \* what it has sent of the command
    clean,     \* whether every status it has read was READY
    misread    \* whether it took a status for another one, or another job's

cvars == <<wire, stream, open, call, pos, asked, clean, misread>>
dvars == <<vars, cvars>>

Lines == {Conn[j] : j \in Jobs}

On(c) == {j \in Jobs : Conn[j] = c}

\* What is left of a packet of which the first bytes were read with another.
Rest == <<NoJob, "rest">>

DialogueTypeOK ==
    /\ wire \in [Lines -> Seq(Jobs \X (Topics \X BOOLEAN))]
    /\ stream \in [Lines -> Seq((Jobs \union {NoJob}) \X {"header", "packet", "rest"})]
    /\ open \in [Lines -> BOOLEAN]
    /\ call \in [Jobs -> {"todo", "talk", "back", "lost"}]
    /\ \A j \in Jobs : pos[j] \in 0 .. Len(Script(Cmd(j)))
    /\ asked \in [Jobs -> {"nothing", "header", "packet"}]
    /\ clean \in [Jobs -> BOOLEAN]
    /\ misread \in [Jobs -> BOOLEAN]

\* Each of the three modules opens a connection of its own.
DialogueInit ==
    /\ Init
    /\ \A j, k \in Jobs : Conn[j] = Conn[k] => Cmd(j) = Cmd(k)
    /\ wire = [c \in Lines |-> << >>]
    /\ stream = [c \in Lines |-> << >>]
    /\ open = [c \in Lines |-> TRUE]
    /\ call = [j \in Jobs |-> "todo"]
    /\ pos = [j \in Jobs |-> 1]
    /\ asked = [j \in Jobs |-> "nothing"]
    /\ clean = [j \in Jobs |-> TRUE]
    /\ misread = [j \in Jobs |-> FALSE]

-----------------------------------------------------------------------------
(* The clients' scripts: which status is read after one that is not READY.  *)

Return == 0

\* receiveSave of generate.py goes on after a failed unmount and comes to the
\* deletion from every later failure.
GenerateOnFailure(p) ==
    CASE p \in 1 .. 3 -> Return
      [] p = 4        -> 5
      [] p \in 5 .. 9 -> 10
      [] OTHER        -> Return

\* receiveSaveDump of extract.py gives up, but for a file it is not sent.
\* Mutant of ExtractOnFailure: it goes on after a failed extraction.
ExtractOnFailureGoingOn(p) ==
    CASE p = 5        -> 6
      [] p \in 7 .. 9 -> 10
      [] OTHER        -> Return

ExtractOnFailure(p) == IF p \in 7 .. 9 THEN 10 ELSE Return

\* receiveResignedSave of resign.py goes on after a failed unmount of the new
\* save and after a failed mount of the unpacked one.
\* Mutants of ResignOnFailure: it returns when the save could not be unpacked;
\* it expects the zip after a failed unmount.
ResignOnFailureLeaving(p) ==
    CASE p \in {1, 2, 3, 5, 12} -> Return
      [] p \in {4, 6}           -> p + 1
      [] OTHER                  -> 12

ResignOnFailureZipping(p) ==
    CASE p \in {1, 2, 3, 12} -> Return
      [] p \in {4, 6, 7}     -> p + 1
      [] OTHER               -> 12

ResignOnFailure(p) ==
    CASE p \in {1, 2, 3, 12} -> Return
      [] p \in {4, 6}        -> p + 1
      [] OTHER               -> 12

OnReady(cmd, p) == IF p = Len(Script(cmd)) THEN Return ELSE p + 1

OnFailure(cmd, p) ==
    CASE cmd = "gen"     -> GenerateOnFailure(p)
      [] cmd = "extract" -> ExtractOnFailure(p)
      [] cmd = "resign"  -> ResignOnFailure(p)

\* Mutants of Follow: the last status is not read; one too many is.
FollowShort(cmd, p, ready) ==
    IF ready THEN IF p + 1 < Len(Script(cmd)) THEN p + 1 ELSE Return
             ELSE OnFailure(cmd, p)

FollowLong(cmd, p, ready) == IF ready THEN p + 1 ELSE OnFailure(cmd, p)

Follow(cmd, p, ready) == IF ready THEN OnReady(cmd, p) ELSE OnFailure(cmd, p)

\* The number of files comes before the first status of a transfer and the name,
\* the size and the bytes after the last, so that a client at another place of
\* its script no longer reads whole statuses.
InTransfer(topic) == \E i \in DOMAIN TransferTopics : TransferTopics[i] = topic

Framed(expected, topic) ==
    expected = topic \/ ~(InTransfer(expected) \/ InTransfer(topic))

-----------------------------------------------------------------------------
(* The clients.                                                             *)

\* sendMagic, once the calls before it have returned.  generate.py makes one
\* call; do of extract.py and resign.py may be called again and again.
Ask(j) ==
    /\ call[j] = "todo"
    /\ \A k \in On(Conn[j]) :
           call[k] = "todo" \/ (call[k] = "back" /\ Cmd(k) # "gen")
    /\ call' = [call EXCEPT ![j] = "talk"]
    /\ asked' = [asked EXCEPT ![j] = "header"]
    /\ stream' = [stream EXCEPT ![Conn[j]] = Append(@, <<j, "header">>)]
    /\ UNCHANGED <<vars, wire, open, pos, clean, misread>>

\* getStatusCode and what the client makes of it; the packet is sent when the
\* command was acknowledged.
ReadStatus(j) ==
    LET c        == Conn[j]
        expected == Script(Cmd(j))[pos[j]]
        owner    == Head(wire[c])[1]
        status   == Head(wire[c])[2]
        next     == Follow(Cmd(j), pos[j], status[2])
    IN  /\ call[j] = "talk"
        /\ wire[c] # << >>
        /\ wire' = [wire EXCEPT ![c] = Tail(@)]
        /\ misread' = [misread EXCEPT ![j] = @ \/ owner # j \/ status[1] # expected]
        /\ IF Framed(expected, status[1])
           THEN /\ pos' = [pos EXCEPT ![j] = next]
                /\ call' = [call EXCEPT ![j] = IF next = Return THEN "back" ELSE @]
                /\ clean' = [clean EXCEPT ![j] = @ /\ status[2]]
                /\ asked' = [asked EXCEPT ![j] =
                       IF expected = "command" /\ status[2] THEN "packet" ELSE @]
           ELSE /\ call' = [call EXCEPT ![j] = "lost"]
                /\ UNCHANGED <<pos, clean, asked>>
        /\ stream' = [stream EXCEPT ![c] =
               IF asked'[j] = asked[j] THEN @ ELSE Append(@, <<j, "packet">>)]
        /\ UNCHANGED <<vars, open>>

\* The connection was closed by the server.
CutOff(j) ==
    /\ call[j] = "talk" /\ ~open[Conn[j]]
    /\ call' = [call EXCEPT ![j] = "lost"]
    /\ UNCHANGED <<vars, wire, stream, open, pos, asked, clean, misread>>

-----------------------------------------------------------------------------
(* The server.                                                              *)

\* The statuses a step adds to what is said go onto the wire.
Deliver(j) ==
    /\ wire' = [wire EXCEPT ![Conn[j]] = @ \o
           [i \in 1 .. Len(said'[j]) - Len(said[j]) |-> <<j, said'[j][Len(said[j]) + i]>>]]
    /\ UNCHANGED <<call, pos, asked, clean, misread>>

\* No command is being executed for connection c.
BetweenCommands(c) == \A k \in On(c) : pc[k] \in {"idle", "done"}

\* getPacketHeader.
ReadHeader(j) ==
    LET c == Conn[j]
    IN  /\ open[c] /\ stream[c] # << >> /\ Head(stream[c]) = <<j, "header">>
        /\ stream' = [stream EXCEPT ![c] = Tail(@)]
        /\ open' = open
        /\ Receive(j) /\ Deliver(j)

NoPacket(s) == \A i \in 1 .. Len(s) : s[i][2] # "packet"

\* The read of the packet takes as many bytes as a packet has, be they the
\* headers and the packet of later calls: as many bytes of that packet are left
\* as it had of the headers.
Remainder(s, n) ==
    (IF n = 1 THEN << >> ELSE <<Rest>>) \o SubSeq(s, n + 1, Len(s))

ReadPacket(j) ==
    LET c == Conn[j]
    IN  /\ \E n \in 1 .. Len(stream[c]) :
              /\ stream[c][n][2] = "packet" /\ \A i \in 1 .. n - 1 : stream[c][i][2] # "packet"
              /\ stream' = [stream EXCEPT ![c] = Remainder(@, n)]
        /\ open' = open
        /\ Accept(j) /\ Deliver(j)

\* A client that has returned from its last call closes the connection.
LosePacket(j) ==
    LET c == Conn[j]
    IN  /\ \A k \in On(c) : call[k] = "back"
        /\ NoPacket(stream[c])
        /\ stream' = [stream EXCEPT ![c] = << >>]
        /\ open' = open
        /\ Reject(j) /\ Deliver(j)

\* clientHandler closes the connection when the bytes it takes for a header do
\* not begin with PACKET_MAGIC: the end of a packet, a zip's name filled up with
\* zeros and a number, does not.
Astray(c) ==
    open[c] /\ stream[c] # << >> /\ Head(stream[c]) = Rest /\ BetweenCommands(c)

\* Mutant of HangUp: the thread ends and does not close the connection.
HangUpLeaving(c) == Astray(c) /\ UNCHANGED dvars

HangUp(c) ==
    /\ Astray(c)
    /\ open' = [open EXCEPT ![c] = FALSE]
    /\ UNCHANGED <<vars, wire, stream, call, pos, asked, clean, misread>>

Work(j)     == Step(j) /\ Deliver(j) /\ UNCHANGED <<stream, open>>
Transfer(j) == Send(j) /\ Deliver(j) /\ UNCHANGED <<stream, open>>

DialogueNext ==
    \/ \E j \in Jobs :
          \/ Ask(j) \/ ReadStatus(j) \/ CutOff(j)
          \/ ReadHeader(j) \/ ReadPacket(j) \/ LosePacket(j) \/ Work(j) \/ Transfer(j)
    \/ \E c \in Lines : HangUp(c)

\* On each connection something is done as long as anything can be: the client
\* that is called reads, the thread works, a transfer to a client that reads goes
\* on.  Nothing is assumed of a client that is lost.
GoesOn(c) ==
    \/ HangUp(c)
    \/ \E j \in On(c) :
          \/ ReadStatus(j) \/ CutOff(j)
          \/ ReadHeader(j) \/ ReadPacket(j) \/ LosePacket(j) \/ Work(j)
          \/ (\E k \in On(c) : call[k] = "talk") /\ Transfer(j)

DialogueFairness == \A c \in Lines : WF_dvars(GoesOn(c))

DialogueSpec == DialogueInit /\ [][DialogueNext]_dvars /\ DialogueFairness

-----------------------------------------------------------------------------
(* What the two sides may rely on.                                          *)

\* The thread of a connection is about to read what nobody has sent.
ServerWaits(c) ==
    /\ open[c]
    /\ \/ stream[c] = << >> /\ BetweenCommands(c)
       \/ NoPacket(stream[c]) /\ \E k \in On(c) : pc[k] = "packet"

BothWait(j) ==
    call[j] = "talk" /\ wire[Conn[j]] = << >> /\ ServerWaits(Conn[j])

LastWord(j) == said[j][Len(said[j])]

\* An extraction whose client returned at the zip, with two statuses to come.
LeftAtZip(j) == Cmd(j) = "extract" /\ Heard(j, Failed("zip"))

\* A client that read nothing but READY up to the end of its script has had its
\* command done in full: no status of another step, or another job, passed for
\* one of its own; but for a third call after one that returned at the zip, which
\* may read the statuses that the second has left.
NoFalseSuccess ==
    \A j \in Jobs : call[j] = "back" /\ clean[j] =>
        \/ Succeeded(j)
        \/ \E k \in On(Conn[j]) \ {j} : LeftAtZip(k)

\* A client takes a status for another in two cases only: resign.py, which after
\* a failed mount takes the deletion's status for the unmount's, and extract.py
\* after a call that returned at the zip.
MisreadOnly ==
    \A j \in Jobs : misread[j] =>
        \/ Cmd(j) = "resign" /\ Heard(j, Failed("mount"))
        \/ \E k \in On(Conn[j]) \ {j} : LeftAtZip(k)

\* A call that returned has left no status of its job unread, so that the next
\* one on the connection starts with its own; but for the calls just named.
NoLeftover ==
    \A j \in Jobs : call[j] = "back" /\ ~misread[j] /\ ~LeftAtZip(j) =>
        \A i \in DOMAIN wire[Conn[j]] : wire[Conn[j]][i][1] # j

\* Client and server come to wait for each other only where the client's script
\* has a status more than the server's: generate.py after a failed unmount, zip
\* or start of the transfer, extract.py after the dump of a save that was not
\* mounted, resign.py after a failed unmount of the new save and, since it takes
\* the deletion's status for the unmount's, after a failed mount of the unpacked
\* one; or after an extraction whose client returned at the zip.
StuckOnly ==
    \A j \in Jobs : BothWait(j) =>
        \/ \E k \in On(Conn[j]) \ {j} : LeftAtZip(k)
        \/ CASE Cmd(j) = "gen" ->
                  LastWord(j) \in {Failed("umount"), Failed("zip"), Failed("open"),
                                   Failed("seekEnd"), Failed("seekSet")}
             [] Cmd(j) = "extract" -> InTransfer(LastWord(j)[1])
             [] Cmd(j) = "resign"  ->
                  \/ LastWord(j) = Failed("umount")
                  \/ Heard(j, Failed("mount")) /\ LastWord(j)[1] = "delete"

\* Every call returns, loses its place, or comes to wait for a server that waits:
\* again and again there is a time when every client still in a call is one of the
\* last kind.
CallEnds == []<>(\A j \in Jobs : call[j] = "talk" => BothWait(j))

\* The clients read a status for the deletion whatever failed before it, as if
\* the server sent one: neither side then waits for the other.
NeverBothWait == \A j \in Jobs : ~BothWait(j)

=============================================================================
