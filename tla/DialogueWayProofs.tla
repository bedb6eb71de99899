------------------------- MODULE DialogueWayProofs -------------------------
(***************************************************************************)
(* Proofs about SaveJobs and the scripts of Dialogue: where a client's     *)
(* script leads when it reads all that its handler sends, and where the    *)
(* two part.                                                               *)
(***************************************************************************)
EXTENDS Dialogue, SaveContentProofs

\* F is the way of a client through its script: F[i] is the status it expects
\* after the first i statuses of the sequence s, for i up to L.  Up to there
\* each status is the one it expects, and as long as all were READY it goes
\* through the script in order.
Way(cmd, s, F, L) ==
    /\ L \in 0 .. Len(s)
    /\ F[0] = 1
    /\ \A i \in 1 .. L :
          /\ F[i - 1] # Return
          /\ s[i][1] = Script(cmd)[F[i - 1]]
          /\ F[i] = Follow(cmd, F[i - 1], s[i][2])
    /\ \A i \in 0 .. L :
          (\A h \in 1 .. i : s[h][2]) =>
              F[i] = OnReady(cmd, i)

\* The words after which a client may wait for a status that never comes.
Stuck(cmd, word) ==
    \/ cmd = "gen" /\ word \in {Failed("umount"), Failed("zip"), Failed("open"),
                               Failed("seekEnd"), Failed("seekSet")}
    \/ cmd = "extract" /\ InTransfer(word[1])
    \/ cmd = "resign" /\ word = Failed("umount")

\* The client that has read everything up to word expects p, which a handler at
\* label l is about to send, unless it is over.
OnWay(cmd, l, word, p) ==
    /\ l = "tClean" => p = Return /\ word = Failed("mount")
    /\ l = "done" => p = Return \/ Stuck(cmd, word)
    /\ l \notin {"tClean", "done"} => p = Place(cmd, l) + 1
    /\ cmd = "resign" => l # "rClean"
    /\ cmd = "extract" /\ l \in {"unlink", "rClean"} => InTransfer(word[1])

\* An extraction goes on after its client has returned at the zip.
AfterZip(j, L, p) ==
    /\ Cmd(j) = "extract" /\ p = Return
    /\ L > 0 /\ said[j][L] = Failed("zip")
    /\ pc[j] \in {"unlink", "rUmount", "rClean", "del", "done"}

\* A resign whose second mount failed sends a deletion where its client expects
\* an unmount.
AfterMount(j, L, p) ==
    /\ Cmd(j) = "resign" /\ p = 7
    /\ L > 0 /\ said[j][L] = Failed("mount")
    /\ \/ Len(said[j]) = L /\ pc[j] \in {"rClean", "del"}
       \/ Len(said[j]) = L + 1 /\ pc[j] = "done" /\ said[j][L + 1][1] = "delete"

Here(j, L, p) ==
    \/ L = Len(said[j]) /\ OnWay(Cmd(j), pc[j], LastWord(j), p)
    \/ AfterZip(j, L, p)
    \/ AfterMount(j, L, p)

-----------------------------------------------------------------------------
(* Where the scripts lead.                                                  *)

LEMMA FollowedTypes ==
    /\ \A cmd \in Commands : Len(Script(cmd)) \in 10 .. 12
    /\ \A cmd \in Commands, p \in 1 .. 12, b \in BOOLEAN :
          p <= Len(Script(cmd)) => Follow(cmd, p, b) \in 0 .. Len(Script(cmd))
<1>1. \A cmd \in Commands : Len(Script(cmd)) \in 10 .. 12
  BY Scripts DEF Commands
<1>2. ASSUME NEW cmd \in Commands, NEW p \in 1 .. 12, NEW b \in BOOLEAN,
             p <= Len(Script(cmd))
      PROVE  Follow(cmd, p, b) \in 0 .. Len(Script(cmd))
  <2>1. CASE b
    BY <1>1, <1>2, <2>1 DEF Follow, OnReady, Return
  <2>2. CASE ~b
    <3>1. CASE cmd = "gen"
      BY <1>2, <2>2, <3>1, Scripts DEF Follow, OnFailure, GenerateOnFailure, Return
    <3>2. CASE cmd = "extract"
      BY <1>2, <2>2, <3>2, Scripts DEF Follow, OnFailure, ExtractOnFailure, Return
    <3>3. CASE cmd = "resign"
      BY <1>2, <2>2, <3>3, Scripts DEF Follow, OnFailure, ResignOnFailure, Return
    <3>q. QED BY <3>1, <3>2, <3>3 DEF Commands
  <2>q. QED BY <2>1, <2>2
<1>q. QED BY <1>1, <1>2

\* A way stays one when more is said.
LEMMA WayStays ==
    ASSUME NEW cmd, NEW s \in Statuses, NEW t \in Statuses, NEW F, NEW L,
           Way(cmd, s, F, L)
    PROVE  Way(cmd, s \o t, F, L)
<1>1. /\ Len(s) \in Nat /\ Len(t) \in Nat /\ Len(s \o t) = Len(s) + Len(t)
      /\ \A i \in 1 .. Len(s) : (s \o t)[i] = s[i]
  BY DEF Statuses
<1> DEFINE u == s \o t
<1> HIDE DEF u
<1>2. L \in 0 .. Len(u) /\ \A i \in 1 .. L : u[i] = s[i]
  BY <1>1 DEF Way, u
<1>3. \A i \in 0 .. L : \A h \in 1 .. i : h \in 1 .. L
  BY <1>2
<1>4. Way(cmd, u, F, L)
  BY <1>2, <1>3 DEF Way
<1>q. QED BY <1>4 DEF u

\* The statuses of t are those of the script from p on, all but the last READY.
Runs(cmd, p, t) ==
    /\ p \in Nat \ {0} /\ Len(t) > 0 /\ p + Len(t) - 1 <= Len(Script(cmd))
    /\ \A i \in 1 .. Len(t) : t[i][1] = Script(cmd)[p + i - 1]
    /\ \A i \in 1 .. Len(t) - 1 : t[i][2] = TRUE
    /\ t[Len(t)][2] \in BOOLEAN

\* The status the client expects after them.
After(cmd, p, t) == Follow(cmd, p + Len(t) - 1, t[Len(t)][2])

Leads(cmd, s, F, L, p) == Way(cmd, s, F, L) /\ F[L] = p

Prolongs(G, F, L) == \A i \in 0 .. L : G[i] = F[i]

\* A way goes on with statuses the script expects.
LEMMA WayOn ==
    ASSUME NEW cmd \in Commands, NEW s \in Statuses, NEW t \in Statuses,
           NEW F, NEW p, Leads(cmd, s, F, Len(s), p), Runs(cmd, p, t)
    PROVE  \E G : /\ Leads(cmd, s \o t, G, Len(s) + Len(t), After(cmd, p, t))
                  /\ Prolongs(G, F, Len(s))
<1> DEFINE m == Len(s)
           n == Len(t)
           u == s \o t
           q == p + n - 1
           G == [i \in 0 .. m + n |->
                    IF i <= m THEN F[i]
                    ELSE IF i < m + n THEN p + (i - m)
                    ELSE Follow(cmd, q, t[n][2])]
<1>1. /\ m \in Nat /\ n \in Nat \ {0} /\ p \in Nat \ {0} /\ Len(u) = m + n
      /\ \A i \in 1 .. m : u[i] = s[i]
      /\ \A i \in 1 .. n : u[m + i] = t[i]
  BY DEF Statuses, Runs
<1>2. q \in Nat \ {0} /\ q <= Len(Script(cmd)) /\ Len(Script(cmd)) \in Nat
  BY <1>1, FollowedTypes DEF Runs
<1>3. /\ \A i \in 0 .. m : G[i] = F[i]
      /\ \A k \in 1 .. n - 1 : G[m + k] = p + k
      /\ G[m + n] = Follow(cmd, q, t[n][2])
  <2>1. \A i \in 0 .. m : i \in 0 .. m + n
    BY <1>1
  <2>2. \A k \in 1 .. n - 1 :
           m + k \in 0 .. m + n /\ m + k > m /\ m + k < m + n /\ (m + k) - m = k
    BY <1>1
  <2>3. m + n \in 0 .. m + n /\ m + n > m
    BY <1>1
  <2> HIDE DEF m, n, u, q
  <2>q. QED BY <2>1, <2>2, <2>3, <1>1
<1> HIDE DEF G
<1>w. /\ F[0] = 1
      /\ \A i \in 1 .. m : /\ F[i - 1] # Return
                           /\ s[i][1] = Script(cmd)[F[i - 1]]
                           /\ F[i] = Follow(cmd, F[i - 1], s[i][2])
      /\ \A i \in 0 .. m : (\A h \in 1 .. i : s[h][2]) =>
            F[i] = OnReady(cmd, i)
  BY DEF Leads, Way
<1>t. /\ \A i \in 1 .. n : t[i][1] = Script(cmd)[p + i - 1]
      /\ \A i \in 1 .. n - 1 : t[i][2] = TRUE
      /\ t[n][2] \in BOOLEAN /\ F[m] = p
  BY DEF Runs, Leads
<1> HIDE DEF m, n, u, q
<1>4. ASSUME NEW k \in 0 .. n - 1 PROVE G[m + k] = p + k
  <2>1. CASE k = 0
    BY <1>1, <1>3, <1>t, <2>1
  <2>2. CASE k # 0
    BY <1>3, <2>2
  <2>q. QED BY <2>1, <2>2
<1>5. ASSUME NEW i \in 1 .. m + n
      PROVE  /\ G[i - 1] # Return
             /\ u[i][1] = Script(cmd)[G[i - 1]]
             /\ G[i] = Follow(cmd, G[i - 1], u[i][2])
  <2>1. CASE i <= m
    <3>1. i \in 1 .. m /\ i \in 0 .. m /\ i - 1 \in 0 .. m
      BY <1>1, <2>1
    <3>q. QED BY <3>1, <1>1, <1>3, <1>w
  <2>2. CASE i > m
    <3> DEFINE k == i - m
    <3>1. /\ k \in 1 .. n /\ m + k = i /\ k - 1 \in 0 .. n - 1 /\ m + (k - 1) = i - 1
          /\ p + (k - 1) = p + k - 1
      BY <1>1, <2>2
    <3> HIDE DEF k
    <3>2. G[i - 1] = p + k - 1 /\ G[i - 1] # Return /\ u[i] = t[k]
      <4>1. G[m + (k - 1)] = p + (k - 1)
        BY <3>1, <1>4
      <4>2. u[m + k] = t[k]
        BY <3>1, <1>1
      <4>3. p + k - 1 \in Nat \ {0}
        BY <3>1, <1>1
      <4>q. QED BY <3>1, <4>1, <4>2, <4>3 DEF Return
    <3>3. G[i] = Follow(cmd, G[i - 1], t[k][2])
      <4>1. CASE k = n
        <5>1. G[i - 1] = q
          BY <3>2, <4>1 DEF q
        <5>q. QED BY <3>1, <4>1, <5>1, <1>3
      <4>2. CASE k # n
        <5>1. k \in 1 .. n - 1 /\ k \in 0 .. n - 1
          BY <3>1, <4>2, <1>1
        <5>2. t[k][2] = TRUE /\ G[i] = p + k
          BY <3>1, <5>1, <1>4, <1>t
        <5>3. p + k - 1 < Len(Script(cmd)) /\ (p + k - 1) + 1 = p + k
          BY <5>1, <1>2, <1>1 DEF q
        <5>q. QED BY <3>2, <5>2, <5>3 DEF Follow, OnReady
      <4>q. QED BY <4>1, <4>2
    <3>q. QED BY <3>1, <3>2, <3>3, <1>t
  <2>q. QED BY <1>1, <2>1, <2>2
<1>6. ASSUME NEW i \in 0 .. m + n, \A h \in 1 .. i : u[h][2]
      PROVE  G[i] = OnReady(cmd, i)
  <2>1. CASE i <= m
    <3>1. i \in 0 .. m /\ \A h \in 1 .. i : s[h][2]
      BY <1>1, <1>6, <2>1
    <3>q. QED BY <3>1, <1>3, <1>w
  <2>2. CASE i > m
    <3>1. \A h \in 1 .. m : s[h][2]
      BY <1>1, <1>6, <2>2
    <3>2. p = m + 1
      <4>1. F[m] = IF m = Len(Script(cmd)) THEN Return ELSE m + 1
        BY <3>1, <1>1, <1>w DEF OnReady
      <4>q. QED BY <4>1, <1>1, <1>t DEF Return
    <3>3. CASE i < m + n
      <4>1. i - m \in 0 .. n - 1 /\ m + (i - m) = i /\ p + (i - m) = i + 1
        BY <1>1, <2>2, <3>2, <3>3
      <4>2. i < Len(Script(cmd))
        BY <1>1, <1>2, <2>2, <3>2, <3>3 DEF q
      <4>3. G[m + (i - m)] = p + (i - m)
        BY <4>1, <1>4
      <4>q. QED BY <4>1, <4>2, <4>3 DEF OnReady
    <3>4. CASE i = m + n
      <4>1. q = i
        BY <1>1, <3>2, <3>4 DEF q
      <4>2. t[n][2] = TRUE
        <5>1. i \in 1 .. i /\ u[i] = t[n]
          BY <1>1, <3>4
        <5>q. QED BY <5>1, <1>6, <1>t
      <4>q. QED BY <1>2, <1>3, <3>4, <4>1, <4>2 DEF Follow, OnReady
    <3>q. QED BY <1>1, <3>3, <3>4
  <2>q. QED BY <1>1, <2>1, <2>2
<1>7. G[0] = 1 /\ m + n \in 0 .. Len(u)
  BY <1>1, <1>3, <1>w
<1>8. Way(cmd, u, G, m + n)
  BY <1>5, <1>6, <1>7 DEF Way
<1>9. G[m + n] = After(cmd, p, t)
  BY <1>3 DEF q, n, After
<1>q. QED BY <1>3, <1>8, <1>9 DEF m, n, u, Leads, Prolongs

-----------------------------------------------------------------------------
(* The handlers keep their clients' way.                                    *)

\* The way goes on, by no status or by some, to where the handler then is.
Onward(j, F, L) ==
    \E M \in Nat : \E G :
        /\ L <= M
        /\ Prolongs(G, F, L)
        /\ Way(Cmd(j), said[j], G, M)'
        /\ Here(j, M, G[M])'

\* Job j says t, for which its client, expecting p, then expects q.
SaysRun(j, F, L, p, t, q, M) ==
    /\ L = Len(said[j]) /\ M = L + Len(t)
    /\ Leads(Cmd(j), said[j], F, L, p)
    /\ Say(j, t) /\ Runs(Cmd(j), p, t) /\ q = After(Cmd(j), p, t)

\* The last of the M statuses job j has then said.
NowLast(j, M, word) ==
    Len(said'[j]) = M /\ LastWord(j)' = word /\ said'[j][M] = word

\* A run of statuses of which only the last may not be READY.
LEMMA SayOnward ==
    ASSUME TypeOK, NEW j \in Jobs, Cmd(j)' = Cmd(j), NEW F, NEW L \in Nat, NEW p,
           NEW t \in Statuses, NEW q, NEW M \in Nat, SaysRun(j, F, L, p, t, q, M)
    PROVE  /\ NowLast(j, M, t[Len(t)])
           /\ Here(j, M, q)' => Onward(j, F, L)
<1> USE DEF SaysRun
<1>1. /\ Len(t) \in Nat /\ Len(said'[j]) = L + Len(t)
      /\ \A i \in 1 .. Len(t) : said'[j][L + i] = t[i]
  BY SayIndexes
<1>2. said'[j] = said[j] \o t /\ said[j] \in Statuses /\ Cmd(j) \in Commands
  BY DEF Say, TypeOK, Statuses, Cmd
<1>3. LastWord(j)' = t[Len(t)] /\ said'[j][M] = t[Len(t)]
  <2>1. Len(t) \in 1 .. Len(t)
    BY <1>1 DEF Runs
  <2>q. QED BY <1>1, <2>1 DEF LastWord
<1>4. \E G : /\ Leads(Cmd(j), said[j] \o t, G, M, q)
             /\ Prolongs(G, F, L)
  BY <1>2, WayOn
<1>5. ASSUME Here(j, M, q)'
      PROVE  Onward(j, F, L)
  <2>1. PICK G : /\ Leads(Cmd(j), said'[j], G, M, q)
                 /\ Prolongs(G, F, L)
    BY <1>2, <1>4
  <2>2. Way(Cmd(j), said[j], G, M)'
    BY <2>1 DEF Leads
  <2>3. Here(j, M, G[M])'
    BY <1>5, <2>1 DEF Leads
  <2>4. M \in Nat /\ L <= M
    BY <1>1
  <2>q. QED BY <2>1, <2>2, <2>3, <2>4 DEF Onward
<1>q. QED BY <1>1, <1>3, <1>5 DEF NowLast

\* The same of one status.
SaysOne(j, F, L, p, topic, b, q, M) ==
    /\ L = Len(said[j]) /\ M = L + 1
    /\ Leads(Cmd(j), said[j], F, L, p)
    /\ Say(j, << <<topic, b>> >>)
    /\ p <= Len(Script(Cmd(j))) /\ Script(Cmd(j))[p] = topic
    /\ q = Follow(Cmd(j), p, b)

LEMMA SayOneOnward ==
    ASSUME TypeOK, NEW j \in Jobs, Cmd(j)' = Cmd(j), NEW F, NEW L \in Nat,
           NEW p \in Nat \ {0}, NEW topic \in Topics, NEW b \in BOOLEAN,
           NEW q, NEW M \in Nat, SaysOne(j, F, L, p, topic, b, q, M)
    PROVE  /\ NowLast(j, M, <<topic, b>>)
           /\ Here(j, M, q)' => Onward(j, F, L)
<1> USE DEF SaysOne
<1> DEFINE x == <<topic, b>>
<1>1. x \in Topics \X BOOLEAN /\ x[1] = topic /\ x[2] = b /\ Say(j, <<x>>)
  OBVIOUS
<1>2. PICK t \in Statuses : Len(t) = 1 /\ t[1] = x /\ Say(j, t)
  <2> HIDE DEF x
  <2>q. QED BY <1>1, StatusOne
<1>3. Runs(Cmd(j), p, t)
  <2>1. p + Len(t) - 1 = p /\ Len(t) > 0
    BY <1>2
  <2>2. \A i \in 1 .. Len(t) : i = 1 /\ p + i - 1 = p
    BY <1>2
  <2>3. \A i \in 1 .. Len(t) : t[i][1] = Script(Cmd(j))[p + i - 1]
    BY <2>2, <1>1, <1>2
  <2>4. \A i \in 1 .. Len(t) - 1 : t[i][2] = TRUE
    BY <1>2
  <2>q. QED BY <1>1, <1>2, <2>1, <2>3, <2>4 DEF Runs
<1>4. 1 \in 1 .. Len(t) /\ Len(t) = 1 /\ t[1] = <<topic, b>>
  BY <1>1, <1>2
<1>5. q = After(Cmd(j), p, t)
  <2>1. p + Len(t) - 1 = p /\ t[Len(t)][2] = b
    BY <1>4
  <2>q. QED BY <2>1 DEF After, Follow
<1>6. SaysRun(j, F, L, p, t, q, M)
  BY <1>2, <1>3, <1>4, <1>5 DEF SaysRun
<1>7. /\ NowLast(j, M, t[Len(t)])
      /\ Here(j, M, q)' => Onward(j, F, L)
  <2> HIDE DEF SaysOne
  <2>q. QED BY <1>6, SayOnward
<1>q. QED BY <1>4, <1>7

\* One status that leads on.
LEMMA SayOneOnWay ==
    ASSUME TypeOK, NEW j \in Jobs, Cmd(j)' = Cmd(j), NEW F, NEW L \in Nat,
           NEW p \in Nat \ {0}, NEW topic \in Topics, NEW b \in BOOLEAN,
           SaysOne(j, F, L, p, topic, b, Follow(Cmd(j), p, b), L + 1),
           OnWay(Cmd(j), pc'[j], <<topic, b>>, Follow(Cmd(j), p, b))
    PROVE  Onward(j, F, L)
<1>1. PICK M \in Nat : M = L + 1
  OBVIOUS
<1>0. PICK q : q = Follow(Cmd(j), p, b)
  OBVIOUS
<1>2. SaysOne(j, F, L, p, topic, b, q, M)
  BY <1>0, <1>1
<1>3. /\ NowLast(j, M, <<topic, b>>)
      /\ Here(j, M, q)' => Onward(j, F, L)
  BY <1>2, SayOneOnward
<1>4. OnWay(Cmd(j), pc[j], LastWord(j), q)'
  <2>1. PICK cmd, l, w : cmd = Cmd(j) /\ l = pc'[j] /\ w = <<topic, b>>
    OBVIOUS
  <2>2. cmd = Cmd(j)' /\ l = pc'[j] /\ w = LastWord(j)' /\ OnWay(cmd, l, w, q)
    BY <2>1, <1>0, <1>3 DEF NowLast
  <2>q. QED BY <2>2
<1>q. QED BY <1>3, <1>4 DEF Here, NowLast

LEMMA SilentOnward ==
    ASSUME NEW j \in Jobs, Cmd(j)' = Cmd(j), Silent, NEW F, NEW L \in Nat,
           Way(Cmd(j), said[j], F, L), L = Len(said[j]),
           OnWay(Cmd(j), pc'[j], LastWord(j), F[L])
    PROVE  Onward(j, F, L)
<1>1. Way(Cmd(j), said[j], F, L)'
  BY DEF Silent
<1>2. PICK q : q = F[L]
  OBVIOUS
<1>3. OnWay(Cmd(j), pc[j], LastWord(j), q)'
  <2>1. LastWord(j)' = LastWord(j)
    BY DEF Silent, LastWord
  <2>q. QED BY <1>2, <2>1
<1>4. Here(j, L, q)'
  BY <1>3 DEF Here, Silent
<1>q. QED BY <1>1, <1>2, <1>4 DEF Onward, Prolongs

\* What is said behind the end of the way.
LEMMA LostOnward ==
    ASSUME TypeOK, NEW j \in Jobs, Cmd(j)' = Cmd(j), NEW F, NEW L \in Nat,
           Way(Cmd(j), said[j], F, L), NEW t \in Statuses, Say(j, t)
    PROVE  /\ \A i \in 1 .. L : said'[j][i] = said[j][i]
           /\ Here(j, L, F[L])' => Onward(j, F, L)
<1>1. /\ said'[j] = said[j] \o t /\ said[j] \in Statuses
      /\ \A i \in 1 .. Len(said[j]) : said'[j][i] = said[j][i]
      /\ Len(said[j]) \in Nat
  BY SayIndexes DEF Say, TypeOK, Statuses
<1>2. Way(Cmd(j), said[j], F, L)'
  BY <1>1, WayStays
<1>3. L <= Len(said[j])
  BY DEF Way
<1>q. QED BY <1>1, <1>2, <1>3 DEF Onward, Prolongs

\* A handler sends the status its client expects, and the client then expects
\* what a handler at label l is about to send.
FitsReady(cmd, p, topic, l) ==
    /\ p <= Len(Script(cmd)) /\ Script(cmd)[p] = topic
    /\ OnWay(cmd, l, Ready(topic), OnReady(cmd, p))

FitsFailed(cmd, p, topic, l) ==
    /\ p <= Len(Script(cmd)) /\ Script(cmd)[p] = topic
    /\ OnWay(cmd, l, Failed(topic), OnFailure(cmd, p))

LEMMA ReadyNext ==
    ASSUME NEW cmd \in Commands, NEW p \in 1 .. 9
    PROVE  OnReady(cmd, p) = p + 1 /\ p <= Len(Script(cmd))
<1>1. PICK n \in 10 .. 12 : n = Len(Script(cmd))
  BY FollowedTypes
<1>2. p <= n /\ p # n
  OBVIOUS
<1>q. QED BY <1>1, <1>2 DEF OnReady

LEMMA LateNext ==
    OnReady("extract", 10) = 11 /\ OnReady("resign", 11) = 12 /\ 11 <= Len(Script("resign"))
<1>1. OnReady("extract", 10) = 11
  BY Scripts DEF OnReady
<1>2. OnReady("resign", 11) = 12
  BY Scripts DEF OnReady
<1>3. 11 <= Len(Script("resign"))
  BY Scripts
<1>q. QED BY <1>1, <1>2, <1>3

LEMMA FittingReady ==
    /\ \A cmd \in Commands : FitsReady(cmd, 1, "command", "packet")
    /\ FitsReady("gen", 2, "packet", "gMount")
    /\ FitsReady("gen", 3, "mount", "account")
    /\ FitsReady("gen", 6, "zip", "send")
    /\ FitsReady("gen", 10, "delete", "done")
    /\ \A cmd \in {"extract", "resign"} :
          /\ FitsReady(cmd, 2, "packet", "tMount")
          /\ FitsReady(cmd, 3, "mount", "tUmount")
          /\ FitsReady(cmd, 4, "umount", "unzipBin")
          /\ FitsReady(cmd, 5, "unzip", "rMount")
    /\ FitsReady("extract", 6, "zip", "send")
    /\ FitsReady("extract", 10, "umount", "del")
    /\ FitsReady("extract", 11, "delete", "done")
    /\ FitsReady("resign", 6, "mount", "account")
    /\ FitsReady("resign", 7, "umount", "zipBin")
    /\ FitsReady("resign", 8, "zip", "send")
    /\ FitsReady("resign", 12, "delete", "done")
<1>1. \A cmd \in Commands : \A w :
         /\ OnWay(cmd, "packet", w, 2) /\ OnWay(cmd, "gMount", w, 3)
         /\ OnWay(cmd, "tMount", w, 3) /\ OnWay(cmd, "tUmount", w, 4)
         /\ OnWay(cmd, "unzipBin", w, 5) /\ OnWay(cmd, "rMount", w, 6)
  BY Places DEF OnWay
<1>g. \A w : OnWay("gen", "account", w, 4) /\ OnWay("gen", "send", w, 7)
  BY Places DEF OnWay, Patches
<1>e. \A w : OnWay("extract", "send", w, 7) /\ OnWay("extract", "del", w, 11)
  BY Places DEF OnWay
<1>f. \A w : /\ OnWay("resign", "account", w, 7) /\ OnWay("resign", "zipBin", w, 8)
             /\ OnWay("resign", "send", w, 9)
  BY Places DEF OnWay
<1>2. \A cmd, w : OnWay(cmd, "done", w, Return)
  BY DEF OnWay
<1>r. ASSUME NEW cmd \in Commands, NEW p \in 1 .. 9 PROVE OnReady(cmd, p) = p + 1
  BY ReadyNext
<1>s. ASSUME NEW cmd PROVE OnReady(cmd, Len(Script(cmd))) = Return
  BY DEF OnReady
<1>4. ASSUME NEW cmd \in Commands PROVE FitsReady(cmd, 1, "command", "packet")
  BY <1>1, <1>r, Scripts, FollowedTypes DEF FitsReady, Commands
<1>5. /\ FitsReady("gen", 2, "packet", "gMount") /\ FitsReady("gen", 3, "mount", "account")
      /\ FitsReady("gen", 6, "zip", "send")
  BY <1>1, <1>g, <1>r, Scripts, SMTT(30) DEF FitsReady, Commands
<1>6. /\ FitsReady("gen", 10, "delete", "done") /\ FitsReady("extract", 11, "delete", "done")
      /\ FitsReady("resign", 12, "delete", "done")
  <2>1. /\ OnReady("gen", 10) = Return /\ OnReady("extract", 11) = Return
        /\ OnReady("resign", 12) = Return
    BY <1>s, Scripts, ZenonT(30)
  <2>2. 10 <= Len(Script("gen")) /\ 11 <= Len(Script("extract")) /\ 12 <= Len(Script("resign"))
    BY Scripts, SMTT(30)
  <2>q. QED BY <1>2, <2>1, <2>2, Scripts DEF FitsReady
<1>7. ASSUME NEW cmd \in {"extract", "resign"}
      PROVE  /\ FitsReady(cmd, 2, "packet", "tMount")
             /\ FitsReady(cmd, 3, "mount", "tUmount")
             /\ FitsReady(cmd, 4, "umount", "unzipBin")
             /\ FitsReady(cmd, 5, "unzip", "rMount")
  <2>1. \A p \in 1 .. 9 : OnReady(cmd, p) = p + 1
    BY <1>r DEF Commands
  <2>2. /\ OnReady(cmd, 2) = 3 /\ OnReady(cmd, 3) = 4
        /\ OnReady(cmd, 4) = 5 /\ OnReady(cmd, 5) = 6
    BY <2>1
  <2>3. /\ Script(cmd)[2] = "packet" /\ Script(cmd)[3] = "mount"
        /\ Script(cmd)[4] = "umount" /\ Script(cmd)[5] = "unzip"
        /\ Len(Script(cmd)) \in 10 .. 12
    BY Scripts, FollowedTypes DEF Commands
  <2>q. QED BY <1>1, <2>2, <2>3 DEF FitsReady, Commands
<1>8. FitsReady("extract", 6, "zip", "send") /\ FitsReady("extract", 10, "umount", "del")
  BY <1>e, <1>r, LateNext, Scripts, SMTT(30) DEF FitsReady, Commands
<1>9. /\ FitsReady("resign", 6, "mount", "account")
      /\ FitsReady("resign", 7, "umount", "zipBin") /\ FitsReady("resign", 8, "zip", "send")
  BY <1>f, <1>r, Scripts DEF FitsReady, Commands
<1>q. QED BY <1>4, <1>5, <1>6, <1>7, <1>8, <1>9

LEMMA FittingFailed ==
    /\ \A cmd \in Commands : FitsFailed(cmd, 2, "packet", "done")
    /\ FitsFailed("gen", 3, "mount", "done")
    /\ FitsFailed("gen", 4, "umount", "done")
    /\ FitsFailed("gen", 6, "zip", "done")
    /\ FitsFailed("gen", 10, "delete", "done")
    /\ \A cmd \in {"extract", "resign"} :
          /\ FitsFailed(cmd, 3, "mount", "tClean")
          /\ FitsFailed(cmd, 4, "umount", "done")
    /\ FitsFailed("extract", 5, "unzip", "done")
    /\ FitsFailed("extract", 10, "umount", "done")
    /\ FitsFailed("extract", 11, "delete", "done")
    /\ FitsFailed("resign", 5, "unzip", "del")
    /\ FitsFailed("resign", 7, "umount", "del")
    /\ FitsFailed("resign", 8, "zip", "del")
    /\ FitsFailed("resign", 12, "delete", "done")
<1>1. \A cmd, w, p : OnWay(cmd, "done", w, p) <=> p = Return \/ Stuck(cmd, w)
  BY DEF OnWay
<1>2. \A cmd : OnWay(cmd, "tClean", Failed("mount"), Return)
  BY DEF OnWay
<1>3. \A w : OnWay("resign", "del", w, 12)
  BY Places DEF OnWay
<1>4. \A p \in {1, 2, 3, 10} : OnFailure("gen", p) = Return
  BY DEF OnFailure, GenerateOnFailure
<1>5. \A p \in 1 .. 5 \cup {10, 11} : OnFailure("extract", p) = Return
  BY DEF OnFailure, ExtractOnFailure
<1>6. /\ \A p \in {1, 2, 3, 12} : OnFailure("resign", p) = Return
      /\ \A p \in {5, 7, 8} : OnFailure("resign", p) = 12
  BY DEF OnFailure, ResignOnFailure
<1>7. /\ Stuck("gen", Failed("umount")) /\ Stuck("gen", Failed("zip"))
      /\ Stuck("resign", Failed("umount"))
  BY DEF Stuck
<1>8. ASSUME NEW cmd \in Commands PROVE FitsFailed(cmd, 2, "packet", "done")
  <2>1. OnFailure(cmd, 2) = Return
    BY <1>4, <1>5, <1>6 DEF Commands
  <2>q. QED BY <1>1, <2>1, Scripts DEF FitsFailed, Commands
<1>9. FitsFailed("gen", 3, "mount", "done") /\ FitsFailed("gen", 10, "delete", "done")
  BY <1>1, <1>4, Scripts DEF FitsFailed, Commands
<1>10. FitsFailed("gen", 4, "umount", "done") /\ FitsFailed("gen", 6, "zip", "done")
  BY <1>1, <1>7, Scripts DEF FitsFailed, Commands
<1>11. ASSUME NEW cmd \in {"extract", "resign"} PROVE FitsFailed(cmd, 3, "mount", "tClean")
  BY <1>2, <1>5, <1>6, Scripts, SMTT(30) DEF FitsFailed, Commands
<1>12. ASSUME NEW cmd \in {"extract", "resign"} PROVE FitsFailed(cmd, 4, "umount", "done")
  BY <1>1, <1>5, <1>7, Scripts, SMTT(30) DEF FitsFailed, Commands
<1>13. /\ FitsFailed("extract", 5, "unzip", "done")
       /\ FitsFailed("extract", 10, "umount", "done")
       /\ FitsFailed("extract", 11, "delete", "done")
  BY <1>1, <1>5, Scripts DEF FitsFailed
<1>14. /\ FitsFailed("resign", 5, "unzip", "del") /\ FitsFailed("resign", 7, "umount", "del")
       /\ FitsFailed("resign", 8, "zip", "del")
  BY <1>3, <1>6, Scripts DEF FitsFailed
<1>15. FitsFailed("resign", 12, "delete", "done")
  BY <1>1, <1>6, Scripts DEF FitsFailed
<1>q. QED
  BY <1>8, <1>9, <1>10, <1>11, <1>12, <1>13, <1>14, <1>15

\* A status that is READY leads on, and so does one that is not.
LEMMA ReadyOnward ==
    ASSUME TypeOK, NEW j \in Jobs, Cmd(j)' = Cmd(j), NEW F, NEW L \in Nat,
           Way(Cmd(j), said[j], F, L), L = Len(said[j]),
           NEW topic \in Topics, F[L] \in Nat \ {0}, Say(j, <<Ready(topic)>>),
           FitsReady(Cmd(j), F[L], topic, pc'[j])
    PROVE  Onward(j, F, L)
<1>1. PICK p \in Nat \ {0} : p = F[L]
  OBVIOUS
<1>2. PICK b \in BOOLEAN : b = TRUE
  OBVIOUS
<1>3. Ready(topic) = <<topic, b>> /\ Follow(Cmd(j), p, b) = OnReady(Cmd(j), p)
  BY <1>2 DEF Ready, Follow
<1>4. SaysOne(j, F, L, p, topic, b, Follow(Cmd(j), p, b), L + 1)
  <2>1. Leads(Cmd(j), said[j], F, L, p)
    BY <1>1 DEF Leads
  <2>2. Say(j, << <<topic, b>> >>)
    BY <1>3
  <2>3. p <= Len(Script(Cmd(j))) /\ Script(Cmd(j))[p] = topic
    BY <1>1 DEF FitsReady
  <2>q. QED BY <2>1, <2>2, <2>3 DEF SaysOne
<1>5. OnWay(Cmd(j), pc'[j], <<topic, b>>, Follow(Cmd(j), p, b))
  BY <1>1, <1>3 DEF FitsReady
<1>q. QED BY <1>4, <1>5, SayOneOnWay

LEMMA FailedOnward ==
    ASSUME TypeOK, NEW j \in Jobs, Cmd(j)' = Cmd(j), NEW F, NEW L \in Nat,
           Way(Cmd(j), said[j], F, L), L = Len(said[j]),
           NEW topic \in Topics, F[L] \in Nat \ {0}, Say(j, <<Failed(topic)>>),
           FitsFailed(Cmd(j), F[L], topic, pc'[j])
    PROVE  Onward(j, F, L)
<1>1. PICK p \in Nat \ {0} : p = F[L]
  OBVIOUS
<1>2. PICK b \in BOOLEAN : b = FALSE
  OBVIOUS
<1>3. Failed(topic) = <<topic, b>> /\ Follow(Cmd(j), p, b) = OnFailure(Cmd(j), p)
  BY <1>2 DEF Failed, Follow
<1>4. SaysOne(j, F, L, p, topic, b, Follow(Cmd(j), p, b), L + 1)
  <2>1. Leads(Cmd(j), said[j], F, L, p)
    BY <1>1 DEF Leads
  <2>2. Say(j, << <<topic, b>> >>)
    BY <1>3
  <2>3. p <= Len(Script(Cmd(j))) /\ Script(Cmd(j))[p] = topic
    BY <1>1 DEF FitsFailed
  <2>q. QED BY <2>1, <2>2, <2>3 DEF SaysOne
<1>5. OnWay(Cmd(j), pc'[j], <<topic, b>>, Follow(Cmd(j), p, b))
  BY <1>1, <1>3 DEF FitsFailed
<1>q. QED BY <1>4, <1>5, SayOneOnWay

\* Several statuses.
LEMMA RunOnward ==
    ASSUME TypeOK, NEW j \in Jobs, Cmd(j)' = Cmd(j), NEW F, NEW L \in Nat,
           Way(Cmd(j), said[j], F, L), L = Len(said[j]),
           NEW t \in Statuses, Say(j, t), Runs(Cmd(j), F[L], t),
           OnWay(Cmd(j), pc'[j], t[Len(t)], After(Cmd(j), F[L], t))
    PROVE  Onward(j, F, L)
<1>1. PICK p : p = F[L]
  OBVIOUS
<1>2. PICK M \in Nat : M = L + Len(t)
  BY DEF Statuses
<1>3. PICK q : q = After(Cmd(j), p, t)
  OBVIOUS
<1>4. SaysRun(j, F, L, p, t, q, M)
  BY <1>1, <1>2, <1>3 DEF SaysRun, Leads
<1>5. NowLast(j, M, t[Len(t)]) /\ (Here(j, M, q)' => Onward(j, F, L))
  BY <1>4, SayOnward
<1>6. OnWay(Cmd(j), pc[j], LastWord(j), q)'
  <2>1. PICK cmd, l, w : cmd = Cmd(j) /\ l = pc'[j] /\ w = t[Len(t)]
    OBVIOUS
  <2>2. cmd = Cmd(j)' /\ l = pc'[j] /\ w = LastWord(j)' /\ OnWay(cmd, l, w, q)
    BY <2>1, <1>1, <1>3, <1>5 DEF NowLast
  <2>q. QED BY <2>2
<1>q. QED BY <1>5, <1>6 DEF Here, NowLast

\* The two statuses of the generator's unmount.
LEMMA UmountOnward ==
    ASSUME TypeOK, NEW j \in Jobs, Cmd(j)' = Cmd(j), NEW F, NEW L \in Nat,
           Way(Cmd(j), said[j], F, L), L = Len(said[j]), Cmd(j) = "gen", F[L] = 4,
           Say(j, <<Ready("umount"), <<"modify", modified[j]>> >>),
           pc'[j] = (IF modified[j] THEN "zipBin" ELSE "del")
    PROVE  Onward(j, F, L)
<1>1. PICK b \in BOOLEAN : b = modified[j]
  BY DEF TypeOK
<1> DEFINE x == Ready("umount")
           y == <<"modify", b>>
<1>2. /\ x \in Topics \X BOOLEAN /\ y \in Topics \X BOOLEAN
      /\ x[1] = "umount" /\ x[2] = TRUE /\ y[1] = "modify" /\ y[2] = b
      /\ Say(j, <<x, y>>)
  BY <1>1 DEF Ready, Topics
<1> HIDE DEF x, y
<1>3. PICK t \in Statuses : Len(t) = 2 /\ t[1] = x /\ t[2] = y /\ Say(j, t)
  BY <1>2, StatusPairs
<1>4. Runs("gen", 4, t)
  <2>1. Script("gen")[4] = "umount" /\ Script("gen")[5] = "modify" /\ 5 <= Len(Script("gen"))
    BY Scripts DEF Commands
  <2>2. \A i \in 1 .. Len(t) : i = 1 \/ i = 2
    BY <1>3
  <2>3. \A i \in 1 .. Len(t) : t[i][1] = Script("gen")[4 + i - 1]
    BY <1>2, <1>3, <2>1, <2>2
  <2>4. \A i \in 1 .. Len(t) - 1 : t[i][2] = TRUE
    <3>1. \A i \in 1 .. Len(t) - 1 : i = 1
      BY <1>3
    <3>q. QED BY <1>2, <1>3, <3>1
  <2>q. QED BY <1>2, <1>3, <2>1, <2>3, <2>4 DEF Runs
<1>5. After("gen", 4, t) = Follow("gen", 5, b)
  <2>1. 4 + Len(t) - 1 = 5 /\ t[Len(t)][2] = b
    BY <1>2, <1>3
  <2>q. QED BY <2>1 DEF After
<1>6. OnWay("gen", pc'[j], t[Len(t)], After("gen", 4, t))
  <2>1. CASE b
    <3>1. Follow("gen", 5, b) = 6
      <4>1. OnReady("gen", 5) = 6
        BY ReadyNext DEF Commands
      <4>q. QED BY <2>1, <4>1 DEF Follow
    <3>2. \A w : OnWay("gen", "zipBin", w, 6)
      BY Places DEF OnWay
    <3>3. pc'[j] = "zipBin"
      BY <1>1, <2>1
    <3>q. QED BY <1>5, <3>1, <3>2, <3>3
  <2>2. CASE ~b
    <3>1. Follow("gen", 5, b) = 10
      BY <2>2 DEF Follow, OnFailure, GenerateOnFailure
    <3>2. \A w : OnWay("gen", "del", w, 10)
      BY Places DEF OnWay
    <3>3. pc'[j] = "del"
      BY <1>1, <2>2
    <3>q. QED BY <1>5, <3>1, <3>2, <3>3
  <2>q. QED BY <2>1, <2>2
<1>q. QED BY <1>3, <1>4, <1>6, RunOnward

\* A transfer, to its end or up to the first of its statuses that is not READY.
LEMMA TransferOnward ==
    ASSUME TypeOK, NEW j \in Jobs, Cmd(j)' = Cmd(j), NEW F, NEW L \in Nat,
           Way(Cmd(j), said[j], F, L), L = Len(said[j]), At(j, "send"),
           Cmd(j) \in Commands,
           F[L] = (IF Cmd(j) = "resign" THEN 9 ELSE 7), NEW ok \in BOOLEAN,
           NEW n \in 1 .. 3, ok => n = 3,
           NEW t \in [1 .. n -> Topics \X BOOLEAN], Say(j, t),
           \A i \in 1 .. n : t[i][1] = TransferTopics[i],
           \A i \in 1 .. n : t[i][2] = (i < n \/ ok),
           pc'[j] = AfterSend(j, ok)
    PROVE  Onward(j, F, L)
<1>1. t \in Statuses /\ Len(t) = n
  BY TransferTypes
<1>2. PICK p \in {7, 9} : p = F[L] /\ (p = 9 <=> Cmd(j) = "resign")
  OBVIOUS
<1>3. /\ Script(Cmd(j))[p] = "open" /\ Script(Cmd(j))[p + 1] = "seekEnd"
      /\ Script(Cmd(j))[p + 2] = "seekSet" /\ p + 2 <= Len(Script(Cmd(j)))
      /\ OnReady(Cmd(j), p + 2) = p + 3
  <2>1. CASE Cmd(j) # "resign"
    <3>1. p = 7 /\ p + 1 = 8 /\ p + 2 = 9 /\ p + 3 = 10 /\ Cmd(j) \in {"gen", "extract"}
      BY <1>2, <2>1 DEF Commands
    <3>2. OnReady(Cmd(j), 9) = 10 /\ 9 <= Len(Script(Cmd(j)))
      <4>1. 9 + 1 = 10 /\ 9 \in 1 .. 9 /\ Cmd(j) \in Commands
        OBVIOUS
      <4>q. QED BY <4>1, ReadyNext
    <3>3. \A cmd \in {"gen", "extract"} :
             Script(cmd)[7] = "open" /\ Script(cmd)[8] = "seekEnd" /\ Script(cmd)[9] = "seekSet"
      BY Scripts
    <3>q. QED BY <3>1, <3>2, <3>3
  <2>2. CASE Cmd(j) = "resign"
    <3>1. p = 9 /\ p + 1 = 10 /\ p + 2 = 11 /\ p + 3 = 12
      BY <1>2, <2>2
    <3>q. QED BY <2>2, <3>1, LateNext, Scripts
  <2>q. QED BY <2>1, <2>2
<1>4. Runs(Cmd(j), p, t)
  <2>1. \A i \in 1 .. n : i = 1 \/ i = 2 \/ i = 3
    OBVIOUS
  <2>2. /\ p + 1 - 1 = p /\ p + 2 - 1 = p + 1 /\ p + 3 - 1 = p + 2
        /\ p + n - 1 <= Len(Script(Cmd(j)))
    BY <1>2, <1>3, FollowedTypes
  <2>3. \A i \in 1 .. n : t[i][1] = Script(Cmd(j))[p + i - 1]
    BY <1>3, <2>1, <2>2, TransferTypes, SMTT(30)
  <2>4. \A i \in 1 .. n - 1 : i \in 1 .. n /\ i < n
    OBVIOUS
  <2>5. n \in 1 .. n /\ t[n][2] \in BOOLEAN
    OBVIOUS
  <2>q. QED BY <1>1, <1>2, <2>2, <2>3, <2>4, <2>5 DEF Runs
<1>5. After(Cmd(j), p, t) = IF ok THEN p + 3 ELSE OnFailure(Cmd(j), p + n - 1)
  <2>1. n \in 1 .. n /\ t[n][2] = ok /\ p + n - 1 = p + n - 1
    OBVIOUS
  <2>2. After(Cmd(j), p, t) = Follow(Cmd(j), p + n - 1, ok)
    BY <1>1, <2>1 DEF After
  <2>3. CASE ok
    <3>1. p + n - 1 = p + 2 /\ (p + 2) + 1 = p + 3
      BY <1>2, <2>3
    <3>q. QED BY <1>3, <2>2, <2>3, <3>1 DEF Follow
  <2>4. CASE ~ok
    BY <2>2, <2>4 DEF Follow
  <2>q. QED BY <2>3, <2>4
<1>6. InTransfer(t[n][1]) /\ t[n] = <<TransferTopics[n], ok>>
  <2>1. n \in 1 .. n /\ t[n][1] = TransferTopics[n] /\ t[n][2] = ok
    OBVIOUS
  <2>2. n \in DOMAIN TransferTopics
    BY DEF TransferTopics
  <2>3. t[n] = <<t[n][1], t[n][2]>>
    OBVIOUS
  <2>q. QED BY <2>1, <2>2, <2>3 DEF InTransfer
<1>7. OnWay(Cmd(j), pc'[j], t[Len(t)], After(Cmd(j), p, t))
  <2>1. CASE Cmd(j) = "gen" /\ ok
    <3>1. After(Cmd(j), p, t) = 10 /\ pc'[j] = "del"
      BY <1>2, <1>5, <2>1 DEF AfterSend
    <3>2. \A w : OnWay("gen", "del", w, 10)
      BY Places DEF OnWay
    <3>3. OnWay("gen", "del", t[Len(t)], 10)
      BY <3>2
    <3>q. QED BY <2>1, <3>1, <3>3
  <2>2. CASE Cmd(j) = "gen" /\ ~ok
    <3>1. pc'[j] = "done"
      BY <2>2 DEF AfterSend
    <3>2. t[n] \in {Failed("open"), Failed("seekEnd"), Failed("seekSet")}
      <4>1. n = 1 \/ n = 2 \/ n = 3
        OBVIOUS
      <4>2. t[n] = <<TransferTopics[n], FALSE>>
        BY <1>6, <2>2
      <4>q. QED BY <4>1, <4>2, TransferTypes DEF Failed
    <3>3. Stuck("gen", t[n])
      BY <3>2 DEF Stuck
    <3>q. QED BY <1>1, <2>2, <3>1, <3>3 DEF OnWay
  <2>3. CASE Cmd(j) = "extract"
    <3>1. pc'[j] = "unlink"
      BY <2>3 DEF AfterSend
    <3>2. After("extract", p, t) = 10
      BY <1>2, <1>5, <2>3 DEF OnFailure, ExtractOnFailure
    <3>3. Place("extract", "unlink") = 9
      BY Places
    <3>q. QED BY <1>1, <1>6, <2>3, <3>1, <3>2, <3>3 DEF OnWay
  <2>4. CASE Cmd(j) = "resign"
    <3>1. pc'[j] = "unlink"
      BY <2>4 DEF AfterSend
    <3>2. After("resign", p, t) = 12
      BY <1>2, <1>5, <2>4 DEF OnFailure, ResignOnFailure
    <3>3. \A w : OnWay("resign", "unlink", w, 12)
      BY Places DEF OnWay
    <3>q. QED BY <2>4, <3>1, <3>2, <3>3
  <2>q. QED BY <2>1, <2>2, <2>3, <2>4 DEF Commands
<1>q. QED BY <1>1, <1>2, <1>4, <1>7, RunOnward

\* The way of a job whose client has returned at the zip, or whose second mount
\* failed, while its thread goes on.
LEMMA BehindOwn ==
    ASSUME TypeOK, OwnLabels, NEW j \in Jobs, JobStep(j), NEW F, NEW L \in Nat,
           Way(Cmd(j), said[j], F, L),
           AfterZip(j, L, F[L]) \/ AfterMount(j, L, F[L])
    PROVE  Onward(j, F, L)
<1>1. Cmd(j)' = Cmd(j) /\ Cmd(j) \in Commands /\ Speaks(j)
  BY JobStepEffect DEF Effect, Cmd, TypeOK
<1>2. \A l : Goto(j, l) => pc'[j] = l
  BY DEF Goto, TypeOK
<1>3. PICK t \in Statuses : Say(j, t)
  BY <1>1 DEF Speaks
<1>4. \A i \in 1 .. L : said'[j][i] = said[j][i]
  BY <1>1, <1>3, LostOnward
<1>5. PICK p : p = F[L]
  OBVIOUS
<1>6. Here(j, L, p)' => Onward(j, F, L)
  BY <1>1, <1>3, <1>5, LostOnward
<1>7. /\ pc[j] \in {"unlink", "rUmount", "rClean", "del", "done"}
      /\ Cmd(j) = "extract" \/ (Cmd(j) = "resign" /\ pc[j] \in {"rClean", "del", "done"})
  BY DEF AfterZip, AfterMount
<1>8. \/ Unlink(j) \/ RealUmount(j) \/ UmountBusy(j) \/ Del(j)
      \/ pc[j] = "rClean" /\ Clean(j)
  BY <1>7 DEF JobStep, Step, Receive, Accept, Reject, Send, GenMount, GenPatch, GenUmount,
     TempMount, TempUmount, Clean, UnzipBin, UnzipImg, RealMount, ResignPatch, Dump,
     ZipBin, ZipImg, At, Patches
<1>9. CASE AfterZip(j, L, p)
  <2>1. pc'[j] \in {"unlink", "rUmount", "rClean", "del", "done"}
    BY <1>2, <1>7, <1>8, <1>9 DEF AfterZip, Unlink, AfterUnlink, AfterDump, RealUmount, Umount,
       UmountBusy, Del, Clean, At
  <2>2. L \in 1 .. L /\ said'[j][L] = said[j][L]
    BY <1>4, <1>9 DEF AfterZip
  <2>3. AfterZip(j, L, p)'
    BY <1>1, <1>9, <2>1, <2>2 DEF AfterZip, Failed
  <2>q. QED BY <1>6, <2>3 DEF Here
<1>10. CASE AfterMount(j, L, p)
  <2>1. L \in 1 .. L /\ said'[j][L] = said[j][L] /\ Cmd(j) = "resign" /\ p = 7
    BY <1>4, <1>10 DEF AfterMount
  <2>2. CASE pc[j] = "rClean"
    <3>1. pc'[j] = "del" /\ Silent /\ Len(said[j]) = L
      <4>1. Clean(j)
        BY <1>8, <2>2 DEF Unlink, RealUmount, UmountBusy, Del, At
      <4>2. Silent /\ Goto(j, "del")
        BY <2>1, <2>2, <4>1 DEF Clean, At
      <4>3. Len(said[j]) = L
        BY <1>10, <2>2 DEF AfterMount
      <4>q. QED BY <1>2, <4>2, <4>3
    <3>2. AfterMount(j, L, p)'
      BY <1>1, <1>10, <2>1, <3>1 DEF AfterMount, Failed, Silent
    <3>q. QED BY <1>6, <3>2 DEF Here
  <2>3. CASE pc[j] = "del"
    <3>1. /\ pc'[j] = "done" /\ Len(said[j]) = L
          /\ Say(j, << <<"delete", TRUE>> >>) \/ Say(j, << <<"delete", FALSE>> >>)
      BY <1>2, <1>8, <1>10, <2>1, <2>3
         DEF AfterMount, Clean, Unlink, RealUmount, UmountBusy, Del, At, Ready, Failed
    <3>2. PICK x \in Topics \X BOOLEAN : x[1] = "delete" /\ Say(j, <<x>>)
      BY <3>1 DEF Topics
    <3>3. Len(said'[j]) = L + 1 /\ said'[j][L + 1] = x
      <4>1. PICK u \in Statuses : Len(u) = 1 /\ u[1] = x /\ Say(j, u)
        BY <3>2, StatusOne
      <4>2. 1 \in 1 .. Len(u)
        BY <4>1
      <4>q. QED BY <3>1, <4>1, <4>2, SayIndexes
    <3>4. AfterMount(j, L, p)'
      BY <1>1, <1>10, <2>1, <3>1, <3>2, <3>3 DEF AfterMount, Failed
    <3>q. QED BY <1>6, <3>4 DEF Here
  <2>4. CASE pc[j] = "done"
    BY <1>8, <2>4 DEF Unlink, RealUmount, UmountBusy, Del, At
  <2>q. QED BY <1>10, <2>2, <2>3, <2>4 DEF AfterMount
<1>q. QED BY <1>5, <1>9, <1>10

\* Where the way of a client and the thread of its job meet.
Meets(j, F, L) ==
    /\ L = Len(said[j])
    /\ Way(Cmd(j), said[j], F, L)
    /\ OnWay(Cmd(j), pc[j], LastWord(j), F[L])

\* The job's own step: the first half of its actions.
LEMMA EarlyOwn ==
    ASSUME TypeOK, OwnLabels, NEW j \in Jobs, NEW F, NEW L \in Nat, Meets(j, F, L),
           Cmd(j)' = Cmd(j), Cmd(j) \in Commands,
           \/ Receive(j) \/ Accept(j) \/ Reject(j)
           \/ GenMount(j) \/ (\E p \in Patches : GenPatch(j, p)) \/ GenUmount(j)
           \/ TempMount(j) \/ TempUmount(j) \/ UmountBusy(j) \/ Clean(j)
    PROVE  Onward(j, F, L)
<1>1. \A l : Goto(j, l) => pc'[j] = l
  BY DEF Goto, TypeOK
<1>2. L = Len(said[j]) /\ Way(Cmd(j), said[j], F, L)
  BY DEF Meets
<1>3. \A l : l \notin {"tClean", "done"} /\ At(j, l) => F[L] = Place(Cmd(j), l) + 1
  BY DEF Meets, OnWay, At
<1>r. ASSUME NEW topic \in Topics, F[L] \in Nat \ {0}, Say(j, <<Ready(topic)>>),
             FitsReady(Cmd(j), F[L], topic, pc'[j])
      PROVE  Onward(j, F, L)
  BY <1>r, <1>2, ReadyOnward
<1>f. ASSUME NEW topic \in Topics, F[L] \in Nat \ {0}, Say(j, <<Failed(topic)>>),
             FitsFailed(Cmd(j), F[L], topic, pc'[j])
      PROVE  Onward(j, F, L)
  BY <1>f, <1>2, FailedOnward
<1>s. ASSUME Silent, OnWay(Cmd(j), pc'[j], LastWord(j), F[L]) PROVE Onward(j, F, L)
  BY <1>s, <1>2, SilentOnward
<1>t. /\ "command" \in Topics /\ "packet" \in Topics /\ "mount" \in Topics
      /\ "umount" \in Topics /\ "unzip" \in Topics
  BY DEF Topics
<1>4. CASE Receive(j)
  <2>1. At(j, "idle") /\ Say(j, <<Ready("command")>>) /\ pc'[j] = "packet"
    BY <1>1, <1>4 DEF Receive
  <2>2. F[L] = 1
    BY <1>3, <2>1, Places
  <2>q. QED BY <1>r, <1>t, <2>1, <2>2, FittingReady
<1>5. CASE Accept(j)
  <2>1. /\ At(j, "packet") /\ Say(j, <<Ready("packet")>>)
        /\ pc'[j] = IF Cmd(j) = "gen" THEN "gMount" ELSE "tMount"
    BY <1>1, <1>5 DEF Accept
  <2>2. F[L] = 2
    BY <1>3, <2>1, Places
  <2>3. CASE Cmd(j) = "gen"
    BY <1>r, <1>t, <2>1, <2>2, <2>3, FittingReady
  <2>4. CASE Cmd(j) # "gen"
    <3>1. Cmd(j) \in {"extract", "resign"}
      BY <2>4 DEF Commands
    <3>q. QED BY <1>r, <1>t, <2>1, <2>2, <2>4, <3>1, FittingReady
  <2>q. QED BY <2>3, <2>4
<1>6. CASE Reject(j)
  <2>1. At(j, "packet") /\ Say(j, <<Failed("packet")>>) /\ pc'[j] = "done"
    BY <1>1, <1>6 DEF Reject
  <2>2. F[L] = 2
    BY <1>3, <2>1, Places
  <2>q. QED BY <1>f, <1>t, <2>1, <2>2, FittingFailed
<1>7. CASE GenMount(j)
  <2>1. /\ At(j, "gMount")
        /\ \/ Say(j, <<Ready("mount")>>) /\ pc'[j] = "account"
           \/ Say(j, <<Failed("mount")>>) /\ pc'[j] = "done"
    BY <1>1, <1>7 DEF GenMount
  <2>2. F[L] = 3 /\ Cmd(j) = "gen"
    BY <1>3, <2>1, Places DEF OwnLabels, LabelsOf, Commands, At
  <2>q. QED BY <1>r, <1>f, <1>t, <2>1, <2>2, FittingReady, FittingFailed
<1>8. CASE \E p \in Patches : GenPatch(j, p)
  <2>1. /\ Cmd(j) = "gen" /\ pc[j] \in Patches /\ Silent
        /\ pc'[j] \in Patches \cup {"gUmount"}
    BY <1>1, <1>8 DEF GenPatch, AfterPatch, NextPatch, At, Patches
  <2>2. F[L] = 4
    BY <1>3, <2>1, Places DEF At, Patches
  <2>3. \A w, l : l \in Patches \cup {"gUmount"} => OnWay("gen", l, w, 4)
    BY Places DEF OnWay, Patches
  <2>q. QED BY <1>s, <2>1, <2>2, <2>3
<1>9. CASE GenUmount(j)
  <2>1. At(j, "gUmount") /\ Cmd(j) = "gen"
    BY <1>9 DEF GenUmount, OwnLabels, LabelsOf, Commands, At
  <2>2. F[L] = 4
    BY <1>3, <2>1, Places
  <2>3. CASE Say(j, <<Failed("umount")>>) /\ pc'[j] = "done"
    BY <1>f, <1>t, <2>1, <2>2, <2>3, FittingFailed
  <2>4. CASE /\ Say(j, <<Ready("umount"), <<"modify", modified[j]>> >>)
             /\ pc'[j] = (IF modified[j] THEN "zipBin" ELSE "del")
    BY <1>2, <2>1, <2>2, <2>4, UmountOnward
  <2>q. QED BY <1>1, <1>9, <2>3, <2>4 DEF GenUmount
<1>10. CASE TempMount(j)
  <2>1. /\ At(j, "tMount")
        /\ \/ Say(j, <<Ready("mount")>>) /\ pc'[j] = "tUmount"
           \/ Say(j, <<Failed("mount")>>) /\ pc'[j] = "tClean"
    BY <1>1, <1>10 DEF TempMount
  <2>2. F[L] = 3 /\ Cmd(j) \in {"extract", "resign"}
    BY <1>3, <2>1, Places DEF OwnLabels, LabelsOf, Commands, At
  <2>q. QED BY <1>r, <1>f, <1>t, <2>1, <2>2, FittingReady, FittingFailed
<1>11. CASE TempUmount(j)
  <2>1. /\ At(j, "tUmount")
        /\ \/ Say(j, <<Ready("umount")>>) /\ pc'[j] = "unzipBin"
           \/ Say(j, <<Failed("umount")>>) /\ pc'[j] = "done"
    BY <1>1, <1>11 DEF TempUmount, Umount
  <2>2. F[L] = 4 /\ Cmd(j) \in {"extract", "resign"}
    BY <1>3, <2>1, Places DEF OwnLabels, LabelsOf, Commands, At
  <2>q. QED BY <1>r, <1>f, <1>t, <2>1, <2>2, FittingReady, FittingFailed
<1>12. CASE UmountBusy(j)
  <2>1. Silent /\ pc' = pc
    BY <1>12 DEF UmountBusy
  <2>q. QED BY <1>s, <2>1 DEF Meets
<1>13. CASE Clean(j)
  <2>1. CASE At(j, "tClean") /\ pc'[j] = "done" /\ Silent
    <3>1. F[L] = Return
      BY <2>1 DEF Meets, OnWay, At
    <3>q. QED BY <1>s, <2>1, <3>1 DEF OnWay
  <2>2. CASE At(j, "xClean") /\ pc'[j] = "done" /\ Say(j, <<Failed("unzip")>>)
    <3>1. F[L] = 5 /\ Cmd(j) = "extract"
      BY <1>3, <2>2, Places DEF OwnLabels, LabelsOf, Commands, At
    <3>q. QED BY <1>f, <1>t, <2>2, <3>1, FittingFailed
  <2>3. CASE /\ At(j, "rClean") /\ Silent
             /\ pc'[j] = IF Cmd(j) = "extract" THEN "done" ELSE "del"
    <3>1. Cmd(j) = "extract" /\ InTransfer(LastWord(j)[1])
      BY <2>3 DEF OwnLabels, LabelsOf, Commands, At, Meets, OnWay
    <3>q. QED BY <1>s, <2>3, <3>1 DEF OnWay, Stuck
  <2>q. QED BY <1>1, <1>13, <2>1, <2>2, <2>3 DEF Clean
<1>q. QED BY <1>4, <1>5, <1>6, <1>7, <1>8, <1>9, <1>10, <1>11, <1>12, <1>13

\* The second half.
LEMMA LateOwn ==
    ASSUME TypeOK, OwnLabels, NEW j \in Jobs, NEW F, NEW L \in Nat, Meets(j, F, L),
           Cmd(j)' = Cmd(j), Cmd(j) \in Commands,
           \/ UnzipBin(j) \/ UnzipImg(j)
           \/ RealMount(j) \/ (\E p \in {"account", "title"} : ResignPatch(j, p))
           \/ Dump(j) \/ RealUmount(j) \/ ZipBin(j) \/ ZipImg(j) \/ Unlink(j) \/ Del(j)
    PROVE  Onward(j, F, L)
<1>1. \A l : Goto(j, l) => pc'[j] = l
  BY DEF Goto, TypeOK
<1>2. L = Len(said[j]) /\ Way(Cmd(j), said[j], F, L)
  BY DEF Meets
<1>3. \A l : l \notin {"tClean", "done"} /\ At(j, l) => F[L] = Place(Cmd(j), l) + 1
  BY DEF Meets, OnWay, At
<1>r. ASSUME NEW topic \in Topics, F[L] \in Nat \ {0}, Say(j, <<Ready(topic)>>),
             FitsReady(Cmd(j), F[L], topic, pc'[j])
      PROVE  Onward(j, F, L)
  BY <1>r, <1>2, ReadyOnward
<1>f. ASSUME NEW topic \in Topics, F[L] \in Nat \ {0}, Say(j, <<Failed(topic)>>),
             FitsFailed(Cmd(j), F[L], topic, pc'[j])
      PROVE  Onward(j, F, L)
  BY <1>f, <1>2, FailedOnward
<1>s. ASSUME Silent, OnWay(Cmd(j), pc'[j], LastWord(j), F[L]) PROVE Onward(j, F, L)
  BY <1>s, <1>2, SilentOnward
<1>t. /\ "mount" \in Topics /\ "umount" \in Topics /\ "unzip" \in Topics
      /\ "zip" \in Topics /\ "delete" \in Topics
  BY DEF Topics
<1>l. ASSUME NEW p \in Nat \ {0}, NEW topic \in Topics, NEW b \in BOOLEAN,
             p = F[L], p <= Len(Script(Cmd(j))), Script(Cmd(j))[p] = topic,
             Say(j, << <<topic, b>> >>),
             NEW q, q = Follow(Cmd(j), p, b), NEW M \in Nat, M = L + 1
      PROVE  /\ NowLast(j, M, <<topic, b>>)
             /\ Here(j, M, q)' => Onward(j, F, L)
  <2>1. SaysOne(j, F, L, p, topic, b, q, M)
    BY <1>l, <1>2 DEF SaysOne, Leads
  <2>q. QED BY <2>1, SayOneOnward
<1>4. CASE UnzipBin(j) \/ UnzipImg(j)
  <2>1. /\ pc[j] \in {"unzipBin", "unzipImg"}
        /\ \/ Silent /\ pc'[j] = "unzipImg"
           \/ Silent /\ pc'[j] = "xClean" /\ Cmd(j) = "extract"
           \/ Say(j, <<Failed("unzip")>>) /\ pc'[j] = "del" /\ Cmd(j) # "extract"
           \/ Say(j, <<Ready("unzip")>>) /\ pc'[j] = "rMount"
    BY <1>1, <1>4 DEF UnzipBin, UnzipImg, UnzipFails, At
  <2>2. F[L] = 5 /\ Cmd(j) \in {"extract", "resign"}
    BY <1>3, <2>1, Places DEF OwnLabels, LabelsOf, Commands, At
  <2>3. OnWay(Cmd(j), "unzipImg", LastWord(j), 5) /\ OnWay(Cmd(j), "xClean", LastWord(j), 5)
    BY Places DEF OnWay
  <2>q. QED BY <1>r, <1>f, <1>s, <1>t, <2>1, <2>2, <2>3, FittingReady, FittingFailed
<1>5. CASE RealMount(j)
  <2>1. At(j, "rMount") /\ F[L] = 6
    BY <1>3, <1>5, Places DEF RealMount
  <2>2. CASE Cmd(j) = "extract" /\ Silent /\ pc'[j] = "dump"
    <3>1. OnWay("extract", "dump", LastWord(j), 6)
      BY Places DEF OnWay, Commands
    <3>q. QED BY <1>s, <2>1, <2>2, <3>1
  <2>3. CASE Cmd(j) = "resign" /\ Say(j, <<Ready("mount")>>) /\ pc'[j] = "account"
    BY <1>r, <1>t, <2>1, <2>3, FittingReady
  <2>4. CASE Cmd(j) = "resign" /\ Say(j, <<Failed("mount")>>) /\ pc'[j] = "rClean"
    <3>1. PICK p \in Nat \ {0} : p = 6
      OBVIOUS
    <3>2. PICK b \in BOOLEAN : b = FALSE
      OBVIOUS
    <3>3. PICK M \in Nat : M = L + 1
      OBVIOUS
    <3>4. Follow(Cmd(j), p, b) = 7 /\ Failed("mount") = <<"mount", b>>
      <4>1. OnFailure("resign", 6) = 7
        BY DEF OnFailure, ResignOnFailure
      <4>2. Failed("mount") = <<"mount", b>>
        BY <3>2 DEF Failed
      <4>q. QED BY <2>4, <3>1, <3>2, <4>1, <4>2 DEF Follow
    <3>5. p <= Len(Script(Cmd(j))) /\ Script(Cmd(j))[p] = "mount"
      BY <2>4, <3>1, Scripts
    <3>6. PICK q : q = Follow(Cmd(j), p, b)
      OBVIOUS
    <3>7. /\ NowLast(j, M, <<"mount", b>>)
          /\ Here(j, M, q)' => Onward(j, F, L)
      BY <1>l, <1>t, <2>1, <2>4, <3>1, <3>3, <3>4, <3>5, <3>6
    <3>8. AfterMount(j, M, q)'
      <4>1. said'[j][M] = Failed("mount") /\ Len(said'[j]) = M /\ M > 0 /\ q = 7
        BY <3>3, <3>4, <3>6, <3>7 DEF NowLast
      <4>q. QED BY <2>4, <4>1 DEF AfterMount
    <3>q. QED BY <3>7, <3>8 DEF Here
  <2>q. QED BY <1>1, <1>5, <2>2, <2>3, <2>4 DEF RealMount
<1>6. CASE \E p \in {"account", "title"} : ResignPatch(j, p)
  <2>1. /\ Cmd(j) = "resign" /\ pc[j] \in {"account", "title"} /\ Silent
        /\ pc'[j] \in {"title", "rUmount"}
    BY <1>1, <1>6 DEF ResignPatch, At
  <2>2. F[L] = 7
    BY <1>3, <2>1, Places DEF At
  <2>3. OnWay("resign", "title", LastWord(j), 7) /\ OnWay("resign", "rUmount", LastWord(j), 7)
    BY Places DEF OnWay
  <2>q. QED BY <1>s, <2>1, <2>2, <2>3
<1>7. CASE Dump(j)
  <2>1. At(j, "dump") /\ Cmd(j) = "extract"
    BY <1>7 DEF Dump, OwnLabels, LabelsOf, Commands, At
  <2>2. F[L] = 6
    BY <1>3, <2>1, Places
  <2>3. CASE Say(j, <<Ready("zip")>>) /\ pc'[j] = "send"
    BY <1>r, <1>t, <2>1, <2>2, <2>3, FittingReady
  <2>4. CASE Say(j, <<Failed("zip")>>) /\ pc'[j] = "unlink"
    <3>1. PICK p \in Nat \ {0} : p = 6
      OBVIOUS
    <3>2. PICK b \in BOOLEAN : b = FALSE
      OBVIOUS
    <3>3. PICK M \in Nat : M = L + 1
      OBVIOUS
    <3>4. Follow(Cmd(j), p, b) = Return /\ Failed("zip") = <<"zip", b>>
      <4>1. OnFailure("extract", 6) = Return
        BY DEF OnFailure, ExtractOnFailure
      <4>2. Failed("zip") = <<"zip", b>>
        BY <3>2 DEF Failed
      <4>q. QED BY <2>1, <3>1, <3>2, <4>1, <4>2 DEF Follow
    <3>5. p <= Len(Script(Cmd(j))) /\ Script(Cmd(j))[p] = "zip"
      BY <2>1, <3>1, Scripts
    <3>6. PICK q : q = Follow(Cmd(j), p, b)
      OBVIOUS
    <3>7. /\ NowLast(j, M, <<"zip", b>>)
          /\ Here(j, M, q)' => Onward(j, F, L)
      BY <1>l, <1>t, <2>2, <2>4, <3>1, <3>3, <3>4, <3>5, <3>6
    <3>8. AfterZip(j, M, q)'
      <4>1. said'[j][M] = Failed("zip") /\ Len(said'[j]) = M /\ M > 0 /\ q = Return
        BY <3>3, <3>4, <3>6, <3>7 DEF NowLast
      <4>q. QED BY <2>1, <2>4, <4>1 DEF AfterZip
    <3>q. QED BY <3>7, <3>8 DEF Here
  <2>q. QED BY <1>1, <1>7, <2>3, <2>4 DEF Dump
<1>8. CASE RealUmount(j)
  <2>1. At(j, "rUmount") /\ Cmd(j) \in {"extract", "resign"}
    BY <1>8 DEF RealUmount, OwnLabels, LabelsOf, Commands, At
  <2>2. \/ Say(j, <<Ready("umount")>>) /\ pc'[j] = (IF Cmd(j) = "extract" THEN "del" ELSE "zipBin")
        \/ Say(j, <<Failed("umount")>>) /\ pc'[j] = (IF Cmd(j) = "extract" THEN "done" ELSE "del")
    BY <1>1, <1>8 DEF RealUmount, Umount
  <2>3. CASE Cmd(j) = "extract"
    <3>1. F[L] = 10
      BY <1>3, <2>1, <2>3, Places
    <3>q. QED BY <1>r, <1>f, <1>t, <2>2, <2>3, <3>1, FittingReady, FittingFailed
  <2>4. CASE Cmd(j) = "resign"
    <3>1. F[L] = 7
      BY <1>3, <2>1, <2>4, Places
    <3>q. QED BY <1>r, <1>f, <1>t, <2>2, <2>4, <3>1, FittingReady, FittingFailed
  <2>q. QED BY <2>1, <2>3, <2>4
<1>9. CASE ZipBin(j) \/ ZipImg(j)
  <2>1. /\ pc[j] \in {"zipBin", "zipImg"} /\ Cmd(j) \in {"gen", "resign"}
        /\ \/ Silent /\ pc'[j] = "zipImg"
           \/ Say(j, <<Ready("zip")>>) /\ pc'[j] = "send"
           \/ Say(j, <<Failed("zip")>>) /\ pc'[j] = (IF Cmd(j) = "gen" THEN "done" ELSE "del")
    BY <1>1, <1>9 DEF ZipBin, ZipImg, ZipFails, OwnLabels, LabelsOf, Commands, At
  <2>2. CASE Cmd(j) = "gen"
    <3>1. F[L] = 6
      BY <1>3, <2>1, <2>2, Places DEF At
    <3>2. OnWay("gen", "zipImg", LastWord(j), 6)
      BY Places DEF OnWay
    <3>q. QED BY <1>r, <1>f, <1>s, <1>t, <2>1, <2>2, <3>1, <3>2, FittingReady, FittingFailed
  <2>3. CASE Cmd(j) = "resign"
    <3>1. F[L] = 8
      BY <1>3, <2>1, <2>3, Places DEF At
    <3>2. OnWay("resign", "zipImg", LastWord(j), 8)
      BY Places DEF OnWay
    <3>q. QED BY <1>r, <1>f, <1>s, <1>t, <2>1, <2>3, <3>1, <3>2, FittingReady, FittingFailed
  <2>q. QED BY <2>1, <2>2, <2>3
<1>10. CASE Unlink(j)
  <2>1. /\ At(j, "unlink") /\ Silent /\ Cmd(j) \in {"extract", "resign"}
        /\ pc'[j] = AfterUnlink(j)
    BY <1>1, <1>10 DEF Unlink, OwnLabels, LabelsOf, Commands, At
  <2>2. CASE Cmd(j) = "resign"
    <3>1. F[L] = 12 /\ pc'[j] = "del"
      BY <1>3, <2>1, <2>2, Places DEF AfterUnlink
    <3>2. OnWay("resign", "del", LastWord(j), 12)
      BY Places DEF OnWay
    <3>q. QED BY <1>s, <2>1, <2>2, <3>1, <3>2
  <2>3. CASE Cmd(j) = "extract"
    <3>1. F[L] = 10 /\ pc'[j] \in {"rUmount", "rClean"}
      BY <1>3, <2>1, <2>3, Places DEF AfterUnlink, AfterDump
    <3>2. InTransfer(LastWord(j)[1])
      BY <2>1, <2>3 DEF Meets, OnWay, At
    <3>3. Place("extract", "rUmount") = 9 /\ Place("extract", "rClean") = 9
      BY Places DEF Place, Patches
    <3>4. OnWay("extract", "rUmount", LastWord(j), 10) /\ OnWay("extract", "rClean", LastWord(j), 10)
      BY <3>2, <3>3 DEF OnWay
    <3>q. QED BY <1>s, <2>1, <2>3, <3>1, <3>4
  <2>q. QED BY <2>1, <2>2, <2>3
<1>11. CASE Del(j)
  <2>1. /\ At(j, "del") /\ pc'[j] = "done"
        /\ Say(j, <<Ready("delete")>>) \/ Say(j, <<Failed("delete")>>)
    BY <1>1, <1>11 DEF Del
  <2>2. CASE Cmd(j) = "gen"
    <3>1. F[L] = 10
      BY <1>3, <2>1, <2>2, Places
    <3>q. QED BY <1>r, <1>f, <1>t, <2>1, <2>2, <3>1, FittingReady, FittingFailed
  <2>3. CASE Cmd(j) = "extract"
    <3>1. F[L] = 11
      BY <1>3, <2>1, <2>3, Places
    <3>q. QED BY <1>r, <1>f, <1>t, <2>1, <2>3, <3>1, FittingReady, FittingFailed
  <2>4. CASE Cmd(j) = "resign"
    <3>1. F[L] = 12
      BY <1>3, <2>1, <2>4, Places
    <3>q. QED BY <1>r, <1>f, <1>t, <2>1, <2>4, <3>1, FittingReady, FittingFailed
  <2>q. QED BY <2>2, <2>3, <2>4 DEF Commands
<1>q. QED BY <1>4, <1>5, <1>6, <1>7, <1>8, <1>9, <1>10, <1>11

\* A transfer.
LEMMA SendOwn ==
    ASSUME TypeOK, NEW j \in Jobs, NEW F, NEW L \in Nat, Meets(j, F, L),
           Cmd(j)' = Cmd(j), Cmd(j) \in Commands, Send(j)
    PROVE  Onward(j, F, L)
<1>1. \A l : Goto(j, l) => pc'[j] = l
  BY DEF Goto, TypeOK
<1>2. L = Len(said[j]) /\ Way(Cmd(j), said[j], F, L) /\ At(j, "send")
  BY DEF Meets, Send
<1>3. F[L] = Place(Cmd(j), "send") + 1
  BY <1>2 DEF Meets, OnWay, At
<1>4. F[L] = (IF Cmd(j) = "resign" THEN 9 ELSE 7)
  BY <1>3, Places DEF Commands
<1>5. ASSUME NEW ok \in BOOLEAN, NEW n \in 1 .. 3, ok => n = 3,
             NEW t \in [1 .. n -> Topics \X BOOLEAN], Say(j, t),
             \A i \in 1 .. n : t[i][1] = TransferTopics[i],
             \A i \in 1 .. n : t[i][2] = (i < n \/ ok),
             pc'[j] = AfterSend(j, ok)
      PROVE  Onward(j, F, L)
  BY <1>2, <1>4, <1>5, TransferOnward
<1>6. CASE /\ Say(j, [i \in 1 .. 3 |-> Ready(TransferTopics[i])])
           /\ Goto(j, AfterSend(j, TRUE))
  <2>1. PICK ok \in BOOLEAN : ok = TRUE
    OBVIOUS
  <2> DEFINE t == [i \in 1 .. 3 |-> Ready(TransferTopics[i])]
  <2>2. /\ t \in [1 .. 3 -> Topics \X BOOLEAN]
        /\ \A i \in 1 .. 3 : t[i][1] = TransferTopics[i]
        /\ \A i \in 1 .. 3 : t[i][2] = TRUE
    BY TransferTypes DEF Ready
  <2>3. Say(j, t) /\ pc'[j] = AfterSend(j, ok)
    BY <1>1, <1>6, <2>1
  <2> HIDE DEF t
  <2>4. \A i \in 1 .. 3 : t[i][2] = (i < 3 \/ ok)
    BY <2>1, <2>2
  <2>5. 3 \in 1 .. 3
    OBVIOUS
  <2>q. QED BY <1>5, <2>2, <2>3, <2>4, <2>5
<1>7. ASSUME NEW n \in 1 .. 3, Say(j, [i \in 1 .. n |-> <<TransferTopics[i], i < n>>]),
             Goto(j, AfterSend(j, FALSE))
      PROVE  Onward(j, F, L)
  <2>1. PICK ok \in BOOLEAN : ok = FALSE
    OBVIOUS
  <2> DEFINE t == [i \in 1 .. n |-> <<TransferTopics[i], i < n>>]
  <2>2. \A i \in 1 .. n : i \in 1 .. 3 /\ (i < n) \in BOOLEAN
    OBVIOUS
  <2>3. t \in [1 .. n -> Topics \X BOOLEAN]
    BY <2>2, TransferTypes
  <2>4. \A i \in 1 .. n : t[i][1] = TransferTopics[i]
    OBVIOUS
  <2>5. \A i \in 1 .. n : t[i][2] = (i < n)
    OBVIOUS
  <2>6. Say(j, t) /\ pc'[j] = AfterSend(j, ok)
    BY <1>1, <1>7, <2>1
  <2> HIDE DEF t
  <2>7. \A i \in 1 .. n : t[i][2] = (i < n \/ ok)
    BY <2>1, <2>5
  <2>q. QED BY <1>5, <2>1, <2>3, <2>4, <2>6, <2>7
<1>q. QED BY <1>6, <1>7 DEF Send

\* One step of the job's own.
LEMMA HereOwn ==
    ASSUME TypeOK, OwnLabels, NEW j \in Jobs, JobStep(j), NEW F, NEW L \in Nat,
           Way(Cmd(j), said[j], F, L), Here(j, L, F[L])
    PROVE  Onward(j, F, L)
<1>1. Cmd(j)' = Cmd(j) /\ Cmd(j) \in Commands
  BY JobStepEffect DEF Effect, Cmd, TypeOK
<1>2. CASE AfterZip(j, L, F[L]) \/ AfterMount(j, L, F[L])
  BY <1>2, BehindOwn
<1>3. CASE L = Len(said[j]) /\ OnWay(Cmd(j), pc[j], LastWord(j), F[L])
  <2>1. Meets(j, F, L)
    BY <1>3 DEF Meets
  <2>q. QED BY <1>1, <2>1, EarlyOwn, LateOwn, SendOwn DEF JobStep, Step
<1>q. QED BY <1>2, <1>3 DEF Here

-----------------------------------------------------------------------------
(* The invariant.                                                           *)

\* What a handler has sent leads its client's script to where the handler is,
\* but for an extraction behind its client's return at the zip and a resign
\* behind a failed second mount.
OnCourse(j, L, F) == Way(Cmd(j), said[j], F, L) /\ Here(j, L, F[L])

WayInv == \A j \in Jobs : \E L \in Nat : \E F : OnCourse(j, L, F)

LEMMA WayBegins ==
    ASSUME Init, NEW j \in Jobs
    PROVE  \E F : OnCourse(j, 0, F) /\ F[0] = 1
<1>1. pc[j] = "idle" /\ Cmd(j) \in Commands /\ said[j] = << >> /\ Len(said[j]) = 0
  BY DEF Init, Cmd
<1>2. PICK F : F = [i \in {0} |-> 1]
  OBVIOUS
<1>3. F[0] = 1 /\ OnReady(Cmd(j), 0) = 1
  <2>1. PICK n \in 10 .. 12 : n = Len(Script(Cmd(j)))
    BY <1>1, FollowedTypes
  <2>q. QED BY <1>2, <2>1 DEF OnReady
<1>4. Way(Cmd(j), said[j], F, 0)
  <2>1. \A i \in 0 .. 0 : i = 0
    OBVIOUS
  <2>q. QED BY <1>1, <1>3, <2>1 DEF Way
<1>5. OnWay(Cmd(j), "idle", LastWord(j), 1)
  BY <1>1, Places DEF OnWay
<1>q. QED BY <1>1, <1>3, <1>4, <1>5 DEF Here, OnCourse

\* A step of another job.
LEMMA CourseKept ==
    ASSUME NEW j \in Jobs, said'[j] = said[j], pc'[j] = pc[j], Cmd(j)' = Cmd(j),
           NEW L, NEW F, OnCourse(j, L, F)
    PROVE  OnCourse(j, L, F)'
  BY DEF OnCourse, Here, AfterZip, AfterMount, LastWord, Failed

LEMMA WayStep ==
    ASSUME TypeOK, OwnLabels, WayInv, [Next]_vars
    PROVE  WayInv'
<1> SUFFICES ASSUME NEW k \in Jobs
             PROVE  (\E L \in Nat : \E F : OnCourse(k, L, F))'
  BY DEF WayInv
<1>1a. PICK L \in Nat : \E F : OnCourse(k, L, F)
  BY DEF WayInv
<1>1. PICK F : OnCourse(k, L, F)
  BY <1>1a
<1>2. CASE UNCHANGED vars
  BY <1>1, <1>2, CourseKept DEF vars, jvars, Cmd
<1>3. ASSUME NEW j \in Jobs \ {k}, JobStep(j)
      PROVE  (\E M \in Nat : \E G : OnCourse(k, M, G))'
  <2>1. k \in Jobs \ {j} /\ j \in Jobs
    OBVIOUS
  <2>2. said'[k] = said[k] /\ pc'[k] = pc[k] /\ Cmd(k)' = Cmd(k)
    BY <1>3, <2>1, OthersKeep DEF Cmd
  <2>q. QED BY <1>1, <2>2, CourseKept
<1>4. CASE JobStep(k)
  <2>1. Onward(k, F, L)
    BY <1>1, <1>4, HereOwn DEF OnCourse
  <2>q. QED BY <2>1 DEF Onward, OnCourse
<1>q. QED BY <1>2, <1>3, <1>4 DEF Next, JobStep

\* The statuses of the three handlers and the scripts of their clients keep
\* step, whatever fails: at every program point the client that has read all that
\* was sent expects just what the handler sends next, or is over, or waits for
\* what never comes after one of the words of Stuck; but for the two cases of
\* AfterZip and AfterMount.
THEOREM WayInvariance == Spec => [](TypeOK /\ OwnLabels /\ WayInv)
<1>1. Init => TypeOK /\ OwnLabels /\ WayInv
  BY TypeInit, ScriptInit, WayBegins DEF WayInv, ScriptInv
<1>2. TypeOK /\ OwnLabels /\ WayInv /\ [Next]_vars => TypeOK' /\ OwnLabels' /\ WayInv'
  <2>1. ASSUME TypeOK, OwnLabels, [Next]_vars PROVE OwnLabels'
    <3>1. CASE UNCHANGED vars
      BY <2>1, <3>1 DEF vars, jvars, OwnLabels, Cmd
    <3>q. QED BY <2>1, <3>1, LabelsStep DEF Next, JobStep
  <2>q. QED BY <2>1, TypeStep, WayStep
<1>q. QED BY <1>1, <1>2, PTL DEF Spec

=============================================================================
