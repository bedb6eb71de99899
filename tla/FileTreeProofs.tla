--------------------------- MODULE FileTreeProofs ---------------------------
(***************************************************************************)
(* Proofs about FileTree, for any tree, any call and any file the system   *)
(* lets it down on: the five promises of the helpers.  The induction is    *)
(* over the steps of the walk, not over the tree.                          *)
(***************************************************************************)
EXTENDS FileTree, TLAPS

-----------------------------------------------------------------------------
(* The inductive invariant.                                                 *)

Paths == folders \cup DOMAIN files

Within(d, p) == p = d \/ Under(d, p)

\* The walk has yet to come to p.
Ahead(p) == \E q \in todo : Within(q, p)

CallInv ==
    /\ call.dir \in Seq(Names) /\ call.to \in Seq(Names)
    /\ before.folders \subseteq Seq(Names)
    /\ DOMAIN before.files \subseteq Seq(Names) \ {Root}
    /\ Tree(before.folders, before.files)
    /\ state = "none" <=> call.op = "none"
    /\ state = "zip" => call.op = "zip"
    /\ state = "walk" => call.op \in {"list", "zip", "delete", "copy"}
    /\ state = "make" => call.op \in {"copy", "mkdir"}
    /\ state = "write" => call.op = "copy"
    /\ call.op = "none" => list = << >> /\ dump = << >>

\* The call is in its recursion.
InTree == state \in {"walk", "make", "write"} /\ call.op # "mkdir"

\* The walk has entered visible folders only, and what it has found lies below a
\* folder it is in and not on its way.
WalkInv ==
    InTree =>
        /\ at \in folders /\ Within(call.dir, at) /\ ~ HiddenIn(call.dir, at)
        /\ todo \subseteq Paths
        /\ \A q \in todo :
               /\ Under(call.dir, q) /\ ~ HiddenIn(call.dir, q)
               /\ ~ Within(q, at) /\ Within(Parent(q), at)
               /\ q \in DOMAIN files => Parent(q) = at

\* A file has been told, under its last two names, or is ahead.
ListInv ==
    call.op \in {"list", "zip"} =>
        /\ folders = before.folders /\ files = before.files
        /\ state \in {"zip", "ok"} => todo = {}
        /\ list \in Seq(Seq(Names))
        /\ \A p \in VisibleFiles :
               Ahead(p) \/ \E i \in 1 .. Len(list) : list[i] = LastTwo(call.dir, p)
        /\ \A i \in 1 .. Len(list) :
               \E p \in VisibleFiles : ~ Ahead(p) /\ list[i] = LastTwo(call.dir, p)
        /\ Shallow => \A i, k \in 1 .. Len(list) : list[i] = list[k] => i = k

\* What is in the dump of a call that has not failed was found.
ZipInv ==
    call.op = "zip" =>
        /\ dump \in Seq([name : Seq(Names), content : {Cut} \cup {files[p] : p \in DOMAIN files}])
        /\ state = "walk" => dump = << >>
        /\ state \in {"zip", "ok"} =>
               /\ Len(dump) <= Len(list)
               /\ \A i \in 1 .. Len(dump) :
                      /\ call.dir \o list[i] \in DOMAIN files
                      /\ dump[i] = Entry(list[i], files[call.dir \o list[i]])
        /\ state = "ok" => Len(dump) = Len(list)
        /\ state = "failed" /\ Shallow => fault \cap (VisibleFiles \cup {Root}) # {}

\* What is left of the folder is hidden, ahead or on the way.
DeleteInv ==
    call.op = "delete" =>
        /\ DeletesAll
        /\ call.dir # Root
        /\ state = "walk" =>
               \A p \in Paths :
                   Under(call.dir, p) =>
                       HiddenIn(call.dir, p) \/ Ahead(p) \/ Within(p, at)

Beside == ~ Within(call.dir, call.to) /\ ~ Under(call.to, call.dir)

Copied(p) == Place(p) \in DOMAIN files /\ files[Place(p)] = before.files[p]

AsBefore(p) ==
    /\ Place(p) \in DOMAIN files <=> Place(p) \in DOMAIN before.files
    /\ Place(p) \in DOMAIN files => files[Place(p)] = before.files[Place(p)]

\* The source is what it was, and what is not ahead has been copied, but for the
\* file that is open.
CopyInv ==
    call.op = "copy" =>
        /\ ~ Within(call.dir, call.to)
        /\ before.folders \subseteq folders
        /\ state \in {"walk", "write"} => Place(at) \in folders
        /\ state = "write" =>
               /\ open \in DOMAIN files /\ Place(open) \in DOMAIN files
               /\ Under(call.dir, open) /\ ~ HiddenIn(call.dir, open)
        /\ Beside =>
               /\ CopiesAll
               /\ \A p \in DOMAIN files \cup DOMAIN before.files :
                      Within(call.dir, p) =>
                          /\ p \in DOMAIN files /\ p \in DOMAIN before.files
                          /\ files[p] = before.files[p]
               /\ \A p \in folders : Within(call.dir, p) => p \in before.folders
               /\ InTree =>
                      \A p \in VisibleFiles :
                          \/ Copied(p) \/ (Ahead(p) /\ AsBefore(p))
                          \/ state = "write" /\ p = open

\* A file is in the way of p, or the system would not make a folder on it.
Blocked(p) ==
    \E q \in Seq(Names) : q \in DOMAIN files \cup fault /\ Within(q, p)

\* What the loop of _mkdir has passed is there or could not be.
MakeInv ==
    /\ state = "make" => made \in Nat /\ made <= Len(Place(at)) /\ Place(at) \in Seq(Names)
    /\ call.op = "mkdir" =>
           /\ MakesPath
           /\ state = "make" =>
                  /\ call.to = call.dir /\ at = call.dir
                  /\ \A p \in Seq(Names) :
                         Within(p, call.dir) /\ Len(p) <= made => p \in folders \/ Blocked(p)

IInv ==
    TypeOK /\ CallInv /\ WalkInv /\ ListInv /\ ZipInv /\ DeleteInv /\ CopyInv /\ MakeInv

-----------------------------------------------------------------------------
(* Paths.                                                                   *)

P == Seq(Names)

\* A path is its names.
LEMMA PathIs ==
    ASSUME NEW p \in P, NEW q \in P, Len(p) = Len(q), \A i \in 1 .. Len(p) : p[i] = q[i]
    PROVE  p = q
<1>1. p \in [1 .. Len(p) -> Names] /\ q \in [1 .. Len(q) -> Names]
  BY DEF P
<1>q. QED BY <1>1

LEMMA TwoIs ==
    ASSUME NEW p \in P, NEW q \in P, Len(p) = 2, Len(q) = 2, p[1] = q[1], p[2] = q[2]
    PROVE  p = q
<1>1. \A i \in 1 .. 2 : i = 1 \/ i = 2
  OBVIOUS
<1>q. QED BY <1>1, PathIs

LEMMA Lengths ==
    ASSUME NEW p \in P
    PROVE  /\ Len(p) \in Nat /\ (p = Root <=> Len(p) = 0)
           /\ \A i \in 1 .. Len(p) : p[i] \in Names
           /\ Root \in P /\ Len(Root) = 0
  BY DEF P, Root

\* A beginning of a path.
LEMMA Beginning ==
    ASSUME NEW p \in P, NEW n \in 0 .. Len(p)
    PROVE  /\ SubSeq(p, 1, n) \in P /\ Len(SubSeq(p, 1, n)) = n
           /\ \A i \in 1 .. n : SubSeq(p, 1, n)[i] = p[i]
  BY DEF P

LEMMA UnderIs ==
    ASSUME NEW d \in P, NEW p \in P
    PROVE  /\ Under(d, p) <=> Len(d) < Len(p) /\ \A i \in 1 .. Len(d) : d[i] = p[i]
           /\ d \in Above(p) <=> Under(d, p)
<1>0. Len(d) \in Nat /\ Len(p) \in Nat
  BY Lengths
<1>1. CASE Len(d) < Len(p)
  <2>1. Len(d) \in 0 .. Len(p) /\ Len(d) \in 0 .. Len(p) - 1
    BY <1>0, <1>1
  <2>2. /\ SubSeq(p, 1, Len(d)) \in P /\ Len(SubSeq(p, 1, Len(d))) = Len(d)
        /\ \A i \in 1 .. Len(d) : SubSeq(p, 1, Len(d))[i] = p[i]
    BY <2>1, Beginning
  <2>3. SubSeq(p, 1, Len(d)) = d <=> \A i \in 1 .. Len(d) : d[i] = p[i]
    BY <2>2, PathIs
  <2>4. ASSUME d \in Above(p) PROVE SubSeq(p, 1, Len(d)) = d
    <3>1. PICK n \in 0 .. Len(p) - 1 : d = SubSeq(p, 1, n)
      BY <2>4 DEF Above
    <3>2. n \in 0 .. Len(p)
      BY <1>0, <3>1
    <3>q. QED BY <3>1, <3>2, Beginning
  <2>5. ASSUME SubSeq(p, 1, Len(d)) = d PROVE d \in Above(p)
    BY <2>1, <2>5 DEF Above
  <2>q. QED BY <1>1, <2>3, <2>4, <2>5 DEF Under
<1>2. CASE ~ Len(d) < Len(p)
  <2>1. d \notin Above(p)
    <3>1. ASSUME d \in Above(p) PROVE FALSE
      <4>1. PICK n \in 0 .. Len(p) - 1 : d = SubSeq(p, 1, n)
        BY <3>1 DEF Above
      <4>2. n \in 0 .. Len(p)
        BY <1>0, <4>1
      <4>3. Len(d) = n
        BY <4>1, <4>2, Beginning
      <4>q. QED BY <1>0, <1>2, <4>1, <4>3
    <3>q. QED BY <3>1
  <2>q. QED BY <1>2, <2>1 DEF Under
<1>q. QED BY <1>1, <1>2

LEMMA AbovePaths ==
    ASSUME NEW p \in P
    PROVE  Above(p) \subseteq P
<1>1. ASSUME NEW n \in 0 .. Len(p) - 1 PROVE SubSeq(p, 1, n) \in P
  BY Lengths, Beginning
<1>q. QED BY <1>1 DEF Above

LEMMA ParentIs ==
    ASSUME NEW p \in P, p # Root
    PROVE  /\ Parent(p) \in P /\ Len(Parent(p)) = Len(p) - 1
           /\ \A i \in 1 .. Len(p) - 1 : Parent(p)[i] = p[i]
           /\ Name(p) = p[Len(p)] /\ Name(p) \in Names
           /\ Under(Parent(p), p) /\ Len(p) \in Nat \ {0}
<1>1. Len(p) \in Nat \ {0}
  BY Lengths
<1>2. Len(p) - 1 \in 0 .. Len(p)
  BY <1>1
<1>3. /\ Parent(p) \in P /\ Len(Parent(p)) = Len(p) - 1
      /\ \A i \in 1 .. Len(p) - 1 : Parent(p)[i] = p[i]
  BY <1>2, Beginning DEF Parent
<1>4. Name(p) = p[Len(p)] /\ Name(p) \in Names
  BY <1>1, Lengths DEF Name
<1>5. Under(Parent(p), p)
  BY <1>1, <1>3, UnderIs
<1>q. QED BY <1>1, <1>3, <1>4, <1>5

LEMMA UnderTrans ==
    ASSUME NEW p \in P, NEW q \in P, NEW r \in P, Under(p, q), Under(q, r)
    PROVE  Under(p, r)
<1>1. Len(p) \in Nat /\ Len(q) \in Nat /\ Len(r) \in Nat
  BY Lengths
<1>q. QED BY <1>1, UnderIs

\* What is above a path is its parent or above that.
LEMMA UnderParent ==
    ASSUME NEW p \in P, p # Root, NEW q \in P
    PROVE  Under(q, p) <=> Within(q, Parent(p))
<1>1. Len(p) \in Nat \ {0} /\ Len(q) \in Nat
  BY Lengths
<1>2. ASSUME Under(q, p), Len(q) = Len(p) - 1 PROVE q = Parent(p)
  BY <1>1, <1>2, ParentIs, UnderIs, PathIs
<1>3. ASSUME Under(q, p), Len(q) # Len(p) - 1 PROVE Under(q, Parent(p))
  BY <1>1, <1>3, ParentIs, UnderIs
<1>4. ASSUME Under(q, Parent(p)) PROVE Under(q, p)
  BY <1>4, ParentIs, UnderTrans
<1>q. QED BY <1>2, <1>3, <1>4, ParentIs DEF Within

\* On the way from a folder to what is below it lies an entry of the folder.
LEMMA ChildOn ==
    ASSUME NEW d \in P, NEW p \in P, Under(d, p)
    PROVE  \E c \in P : c # Root /\ Parent(c) = d /\ Within(c, p)
<1>1. Len(d) \in Nat /\ Len(p) \in Nat /\ Len(d) < Len(p)
  BY Lengths, UnderIs
<1>2. Len(d) + 1 \in 0 .. Len(p)
  BY <1>1
<1>3. PICK c \in P : /\ Len(c) = Len(d) + 1
                     /\ \A i \in 1 .. Len(d) + 1 : c[i] = p[i]
  BY <1>2, Beginning
<1>4. c # Root
  BY <1>1, <1>3, Lengths
<1>5. Parent(c) = d
  <2>1. Len(Parent(c)) = Len(d)
    BY <1>1, <1>3, <1>4, ParentIs
  <2>2. \A i \in 1 .. Len(d) : Parent(c)[i] = d[i]
    <3>1. \A i \in 1 .. Len(c) - 1 : Parent(c)[i] = c[i]
      BY <1>4, ParentIs
    <3>2. \A i \in 1 .. Len(d) : d[i] = p[i]
      BY UnderIs
    <3>q. QED BY <1>1, <1>3, <3>1, <3>2
  <2>q. QED BY <1>4, <2>1, <2>2, ParentIs, PathIs
<1>6. Within(c, p)
  <2>1. CASE Len(c) = Len(p)
    BY <1>1, <1>3, <2>1, PathIs DEF Within
  <2>2. CASE Len(c) # Len(p)
    BY <1>1, <1>3, <2>2, UnderIs DEF Within
  <2>q. QED BY <2>1, <2>2
<1>q. QED BY <1>4, <1>5, <1>6

\* Two paths above a third: one is the other or above it.
LEMMA Comparable ==
    ASSUME NEW p \in P, NEW q \in P, NEW r \in P, Within(q, p), Within(r, p)
    PROVE  Within(q, r) \/ Under(r, q)
<1>1. Len(p) \in Nat /\ Len(q) \in Nat /\ Len(r) \in Nat
  BY Lengths
<1>2. /\ Len(q) <= Len(p) /\ \A i \in 1 .. Len(q) : q[i] = p[i]
      /\ Len(r) <= Len(p) /\ \A i \in 1 .. Len(r) : r[i] = p[i]
  BY <1>1, UnderIs DEF Within
<1>3. CASE Len(q) < Len(r)
  BY <1>1, <1>2, <1>3, UnderIs DEF Within
<1>4. CASE Len(r) < Len(q)
  BY <1>1, <1>2, <1>4, UnderIs
<1>5. CASE Len(r) = Len(q)
  BY <1>1, <1>2, <1>5, PathIs DEF Within
<1>q. QED BY <1>1, <1>3, <1>4, <1>5

LEMMA WithinIs ==
    ASSUME NEW d \in P, NEW p \in P, Within(d, p)
    PROVE  /\ Len(d) \in Nat /\ Len(p) \in Nat /\ Len(d) <= Len(p)
           /\ \A i \in 1 .. Len(d) : p[i] = d[i]
  BY Lengths, UnderIs DEF Within

LEMMA NotBoth ==
    ASSUME NEW p \in P, NEW q \in P, Under(p, q)
    PROVE  ~ Within(q, p) /\ p # q
<1>1. Len(p) \in Nat /\ Len(q) \in Nat
  BY Lengths
<1>q. QED BY <1>1, UnderIs DEF Within

-----------------------------------------------------------------------------
(* Hidden names.                                                            *)

LEMMA HiddenOn ==
    ASSUME NEW d \in P, NEW p \in P, NEW q \in P, Within(p, q), HiddenIn(d, p)
    PROVE  HiddenIn(d, q)
<1>1. Len(p) \in Nat /\ Len(q) \in Nat /\ Len(d) \in Nat
  BY Lengths
<1>2. CASE p = q
  BY <1>2
<1>3. CASE Under(p, q)
  BY <1>1, <1>3, UnderIs DEF HiddenIn
<1>q. QED BY <1>2, <1>3 DEF Within

LEMMA HiddenLast ==
    ASSUME NEW d \in P, NEW p \in P, Under(d, p)
    PROVE  /\ p # Root
           /\ HiddenIn(d, p) <=> HiddenIn(d, Parent(p)) \/ Name(p) \in Hidden
<1>1. Len(p) \in Nat \ {0} /\ Len(d) \in Nat /\ Len(d) < Len(p)
  BY Lengths, UnderIs
<1>2. p # Root
  BY <1>1, Lengths
<1>3. Name(p) = p[Len(p)] /\ Len(Parent(p)) = Len(p) - 1
  BY <1>2, ParentIs
<1>4. \A i \in 1 .. Len(p) - 1 : Parent(p)[i] = p[i]
  BY <1>2, ParentIs
<1>5. ASSUME HiddenIn(d, Parent(p)) PROVE HiddenIn(d, p)
  BY <1>2, <1>5, ParentIs, HiddenOn DEF Within
<1>6. ASSUME Name(p) \in Hidden PROVE HiddenIn(d, p)
  BY <1>1, <1>3, <1>6 DEF HiddenIn
<1>7. ASSUME HiddenIn(d, p), Name(p) \notin Hidden PROVE HiddenIn(d, Parent(p))
  <2>1. PICK i \in Len(d) + 1 .. Len(p) : p[i] \in Hidden
    BY <1>7 DEF HiddenIn
  <2>2. i \in Len(d) + 1 .. Len(p) - 1
    BY <1>1, <1>3, <1>7, <2>1
  <2>3. i \in 1 .. Len(p) - 1
    BY <1>1, <2>2
  <2>q. QED BY <1>3, <1>4, <2>1, <2>2, <2>3 DEF HiddenIn
<1>q. QED BY <1>2, <1>5, <1>6, <1>7

LEMMA HiddenNot ==
    ASSUME NEW d \in P
    PROVE  ~ HiddenIn(d, d)
  BY Lengths DEF HiddenIn

-----------------------------------------------------------------------------
(* Names told, and places in the target.                                    *)

LEMMA RestIs ==
    ASSUME NEW d \in P, NEW p \in P, Within(d, p)
    PROVE  /\ Rest(d, p) \in P /\ Len(Rest(d, p)) = Len(p) - Len(d)
           /\ \A i \in 1 .. Len(p) - Len(d) : Rest(d, p)[i] = p[Len(d) + i]
<1>1. Len(d) \in Nat /\ Len(p) \in Nat /\ Len(d) <= Len(p)
  BY Lengths, UnderIs DEF Within
<1>q. QED BY <1>1 DEF Rest, P

LEMMA ConcatIs ==
    ASSUME NEW t \in P, NEW r \in P
    PROVE  /\ t \o r \in P /\ Len(t \o r) = Len(t) + Len(r)
           /\ \A i \in 1 .. Len(t) : (t \o r)[i] = t[i]
           /\ \A i \in 1 .. Len(r) : (t \o r)[Len(t) + i] = r[i]
  BY DEF P

\* Where p goes when the folder d goes to t.
To(t, d, p) == t \o Rest(d, p)

LEMMA PlaceIs ==
    ASSUME NEW t \in P, NEW d \in P, NEW p \in P, Within(d, p)
    PROVE  /\ To(t, d, p) \in P /\ Len(To(t, d, p)) = Len(t) + (Len(p) - Len(d))
           /\ \A i \in 1 .. Len(t) : To(t, d, p)[i] = t[i]
           /\ \A i \in 1 .. Len(p) - Len(d) : To(t, d, p)[Len(t) + i] = p[Len(d) + i]
           /\ Len(t) \in Nat /\ Len(d) \in Nat /\ Len(p) \in Nat /\ Len(d) <= Len(p)
<1>1. Len(t) \in Nat /\ Len(d) \in Nat /\ Len(p) \in Nat /\ Len(d) <= Len(p)
  BY Lengths, WithinIs
<1>2. PICK r \in P : /\ r = Rest(d, p) /\ Len(r) = Len(p) - Len(d)
                     /\ \A i \in 1 .. Len(p) - Len(d) : r[i] = p[Len(d) + i]
  BY RestIs
<1>3. /\ t \o r \in P /\ Len(t \o r) = Len(t) + Len(r)
      /\ \A i \in 1 .. Len(t) : (t \o r)[i] = t[i]
      /\ \A i \in 1 .. Len(r) : (t \o r)[Len(t) + i] = r[i]
  BY ConcatIs
<1>q. QED BY <1>1, <1>2, <1>3 DEF To

LEMMA PlaceTop ==
    ASSUME NEW t \in P, NEW d \in P
    PROVE  To(t, d, d) = t
<1>1. Within(d, d)
  BY DEF Within
<1>2. PICK q \in P : /\ q = To(t, d, d) /\ Len(q) = Len(t) + (Len(d) - Len(d))
                     /\ \A i \in 1 .. Len(t) : q[i] = t[i]
                     /\ Len(t) \in Nat /\ Len(d) \in Nat
  BY <1>1, PlaceIs
<1>q. QED BY <1>2, PathIs

LEMMA PlaceSelf ==
    ASSUME NEW d \in P, NEW p \in P, Within(d, p)
    PROVE  To(d, d, p) = p
<1>1. PICK q \in P : /\ q = To(d, d, p) /\ Len(q) = Len(d) + (Len(p) - Len(d))
                     /\ \A i \in 1 .. Len(d) : q[i] = d[i]
                     /\ \A i \in 1 .. Len(p) - Len(d) : q[Len(d) + i] = p[Len(d) + i]
  <2>1. To(d, d, p) \in P /\ Len(To(d, d, p)) = Len(d) + (Len(p) - Len(d))
    BY PlaceIs
  <2>2. \A i \in 1 .. Len(d) : To(d, d, p)[i] = d[i]
    BY PlaceIs
  <2>3. \A i \in 1 .. Len(p) - Len(d) : To(d, d, p)[Len(d) + i] = p[Len(d) + i]
    BY PlaceIs
  <2>q. QED BY <2>1, <2>2, <2>3
<1>2. /\ Len(d) \in Nat /\ Len(p) \in Nat /\ Len(d) <= Len(p)
      /\ \A i \in 1 .. Len(d) : p[i] = d[i]
  BY WithinIs
<1>3. ASSUME NEW i \in 1 .. Len(p), i \notin 1 .. Len(d) PROVE q[i] = p[i]
  <2>1. PICK k \in 1 .. Len(p) - Len(d) : k = i - Len(d)
    BY <1>2, <1>3
  <2>2. i = Len(d) + k
    BY <1>2, <2>1
  <2>q. QED BY <1>1, <2>2
<1>q. QED BY <1>1, <1>2, <1>3, PathIs

LEMMA PlaceOnce ==
    ASSUME NEW t \in P, NEW d \in P, NEW p \in P, NEW q \in P, Within(d, p), Within(d, q),
           Rest(d, p) = Rest(d, q) \/ To(t, d, p) = To(t, d, q)
    PROVE  p = q
<1>1. PICK r \in P : /\ r = Rest(d, p) /\ Len(r) = Len(p) - Len(d)
                     /\ \A i \in 1 .. Len(p) - Len(d) : r[i] = p[Len(d) + i]
  BY RestIs
<1>2. PICK u \in P : /\ u = Rest(d, q) /\ Len(u) = Len(q) - Len(d)
                     /\ \A i \in 1 .. Len(q) - Len(d) : u[i] = q[Len(d) + i]
  BY RestIs
<1>3. /\ Len(d) \in Nat /\ Len(p) \in Nat /\ Len(q) \in Nat
      /\ \A i \in 1 .. Len(d) : p[i] = d[i] /\ q[i] = d[i]
  BY WithinIs
<1>4. r = u
  <2>1. CASE t \o r = t \o u
    <3>1. /\ Len(t) + Len(r) = Len(t) + Len(u) /\ Len(t) \in Nat
          /\ Len(r) \in Nat /\ Len(u) \in Nat
      BY <2>1, ConcatIs, Lengths
    <3>2. \A i \in 1 .. Len(r) : r[i] = u[i]
      <4>1. \A i \in 1 .. Len(r) : (t \o r)[Len(t) + i] = r[i]
        BY ConcatIs
      <4>2. \A i \in 1 .. Len(u) : (t \o u)[Len(t) + i] = u[i]
        BY ConcatIs
      <4>q. QED BY <2>1, <3>1, <4>1, <4>2
    <3>q. QED BY <3>1, <3>2, PathIs
  <2>q. QED BY <1>1, <1>2, <2>1 DEF To
<1>5. Len(p) = Len(q)
  BY <1>1, <1>2, <1>3, <1>4
<1>6. ASSUME NEW i \in 1 .. Len(p), i \notin 1 .. Len(d) PROVE p[i] = q[i]
  <2>1. PICK k \in 1 .. Len(p) - Len(d) : k = i - Len(d)
    BY <1>3, <1>6
  <2>2. i = Len(d) + k
    BY <1>3, <2>1
  <2>q. QED BY <1>1, <1>2, <1>4, <1>5, <2>2
<1>q. QED BY <1>3, <1>5, <1>6, PathIs

LEMMA PlaceParent ==
    ASSUME NEW t \in P, NEW d \in P, NEW p \in P, Under(d, p)
    PROVE  /\ p # Root /\ Within(d, Parent(p))
           /\ To(t, d, p) # Root /\ Parent(To(t, d, p)) = To(t, d, Parent(p))
<1>1. p # Root /\ Within(d, Parent(p)) /\ Within(d, p)
  BY HiddenLast, UnderParent DEF Within
<1>2. PICK o \in P : /\ o = Parent(p) /\ Len(o) = Len(p) - 1
                     /\ \A i \in 1 .. Len(p) - 1 : o[i] = p[i]
  BY <1>1, ParentIs
<1>3. PICK q \in P : /\ q = To(t, d, p) /\ Len(q) = Len(t) + (Len(p) - Len(d))
                     /\ \A i \in 1 .. Len(t) : q[i] = t[i]
                     /\ \A i \in 1 .. Len(p) - Len(d) : q[Len(t) + i] = p[Len(d) + i]
  <2>1. To(t, d, p) \in P
    BY <1>1, PlaceIs
  <2>2. Len(To(t, d, p)) = Len(t) + (Len(p) - Len(d))
    BY <1>1, PlaceIs
  <2>3. \A i \in 1 .. Len(t) : To(t, d, p)[i] = t[i]
    BY <1>1, PlaceIs
  <2>4. \A i \in 1 .. Len(p) - Len(d) : To(t, d, p)[Len(t) + i] = p[Len(d) + i]
    BY <1>1, PlaceIs
  <2>q. QED BY <2>1, <2>2, <2>3, <2>4
<1>4. PICK r \in P : /\ r = To(t, d, o) /\ Len(r) = Len(t) + (Len(o) - Len(d))
                     /\ \A i \in 1 .. Len(t) : r[i] = t[i]
                     /\ \A i \in 1 .. Len(o) - Len(d) : r[Len(t) + i] = o[Len(d) + i]
  <2>1. Within(d, o)
    BY <1>1, <1>2
  <2>2. To(t, d, o) \in P /\ Len(To(t, d, o)) = Len(t) + (Len(o) - Len(d))
    BY <2>1, PlaceIs
  <2>3. \A i \in 1 .. Len(t) : To(t, d, o)[i] = t[i]
    BY <2>1, PlaceIs
  <2>4. \A i \in 1 .. Len(o) - Len(d) : To(t, d, o)[Len(t) + i] = o[Len(d) + i]
    BY <2>1, PlaceIs
  <2>q. QED BY <2>2, <2>3, <2>4
<1>5. Len(t) \in Nat /\ Len(d) \in Nat /\ Len(p) \in Nat /\ Len(d) < Len(p)
  BY Lengths, UnderIs
<1>6. q # Root
  BY <1>3, <1>5, Lengths
<1>7. PICK w \in P : /\ w = Parent(q) /\ Len(w) = Len(q) - 1
                     /\ \A i \in 1 .. Len(q) - 1 : w[i] = q[i]
  BY <1>6, ParentIs
<1>8. Len(w) = Len(r)
  BY <1>2, <1>3, <1>4, <1>5, <1>7
<1>9. ASSUME NEW i \in 1 .. Len(w), i \notin 1 .. Len(t) PROVE w[i] = r[i]
  <2>1. PICK k \in 1 .. Len(o) - Len(d) : k = i - Len(t)
    <3>1. i \in Nat /\ i > Len(t) /\ i <= Len(t) + (Len(o) - Len(d)) /\ Len(o) \in Nat
      BY <1>2, <1>4, <1>5, <1>8, <1>9
    <3>2. i - Len(t) \in 1 .. Len(o) - Len(d)
      BY <1>5, <3>1
    <3>q. QED BY <3>2
  <2>2. /\ i = Len(t) + k /\ k \in 1 .. Len(p) - Len(d)
        /\ Len(d) + k \in 1 .. Len(p) - 1 /\ i \in 1 .. Len(q) - 1
    BY <1>2, <1>3, <1>5, <2>1
  <2>3. w[i] = p[Len(d) + k]
    BY <1>3, <1>7, <2>2
  <2>4. r[i] = p[Len(d) + k]
    BY <1>2, <1>4, <2>1, <2>2
  <2>q. QED BY <2>3, <2>4
<1>10. \A i \in 1 .. Len(w) : w[i] = r[i]
  BY <1>3, <1>4, <1>5, <1>7, <1>9
<1>11. w = r
  BY <1>8, <1>10, PathIs
<1>q. QED BY <1>1, <1>2, <1>3, <1>4, <1>6, <1>7, <1>11

LEMMA PlaceBelow ==
    ASSUME NEW t \in P, NEW d \in P, NEW p \in P, Within(d, p)
    PROVE  Within(t, To(t, d, p))
<1>1. PICK q \in P : /\ q = To(t, d, p) /\ Len(q) = Len(t) + (Len(p) - Len(d))
                     /\ \A i \in 1 .. Len(t) : q[i] = t[i]
                     /\ Len(t) \in Nat /\ Len(d) \in Nat /\ Len(p) \in Nat
                     /\ Len(d) <= Len(p)
  BY PlaceIs
<1>2. CASE Len(p) = Len(d)
  BY <1>1, <1>2, PathIs DEF Within
<1>3. CASE Len(p) # Len(d)
  BY <1>1, <1>3, UnderIs DEF Within
<1>q. QED BY <1>1, <1>2, <1>3

\* Beside the source nothing is put into it.
LEMMA PlaceBeside ==
    ASSUME NEW t \in P, NEW d \in P, NEW p \in P, Within(d, p), ~ Within(d, t), ~ Under(t, d)
    PROVE  ~ Within(d, To(t, d, p))
<1>1. To(t, d, p) \in P
  BY PlaceIs
<1>q. QED BY <1>1, PlaceBelow, Comparable

\* What recursiveList tells of a file below the call's folder.
LEMMA ToldName ==
    ASSUME NEW d \in P, NEW p \in P, Under(d, p)
    PROVE  /\ LastTwo(d, p) \in P
           /\ Append(IF Parent(p) = d THEN << >> ELSE <<Name(Parent(p))>>, Name(p))
                  = LastTwo(d, p)
<1>1. p # Root /\ Within(d, Parent(p)) /\ Within(d, p)
  BY PlaceParent, HiddenLast DEF Within
<1>2. PICK o \in P : /\ o = Parent(p) /\ Len(o) = Len(p) - 1
                     /\ \A i \in 1 .. Len(p) - 1 : o[i] = p[i]
  BY <1>1, ParentIs
<1>3. Len(d) \in Nat /\ Len(p) \in Nat /\ Len(d) < Len(p)
  BY Lengths, UnderIs
<1>4. PICK x \in Names : x = Name(p) /\ x = p[Len(p)]
  BY <1>1, ParentIs
<1>5. CASE o = d
  <2>1. PICK r \in P : r = Rest(d, p) /\ Len(r) = 1 /\ r[1] = x
    <3>1. Rest(d, p) \in P /\ Len(Rest(d, p)) = Len(p) - Len(d)
      BY <1>1, RestIs
    <3>2. \A i \in 1 .. Len(p) - Len(d) : Rest(d, p)[i] = p[Len(d) + i]
      BY <1>1, RestIs
    <3>3. Len(p) - Len(d) = 1 /\ Len(d) + 1 = Len(p)
      BY <1>2, <1>3, <1>5
    <3>4. 1 \in 1 .. Len(p) - Len(d)
      BY <3>3
    <3>5. Rest(d, p)[1] = p[Len(d) + 1]
      BY <3>2, <3>4
    <3>q. QED BY <1>4, <3>1, <3>3, <3>5
  <2>2. r = <<x>>
    BY <2>1 DEF P
  <2>3. LastTwo(d, p) = r
    BY <1>2, <1>3, <1>5, <2>1 DEF LastTwo
  <2>4. Append(<< >>, x) = <<x>>
    OBVIOUS
  <2>q. QED BY <1>2, <1>4, <1>5, <2>1, <2>2, <2>3, <2>4
<1>6. CASE o # d
  <2>1. Under(d, o)
    BY <1>1, <1>2, <1>6 DEF Within
  <2>2. Len(d) < Len(o) /\ o # Root
    BY <2>1, UnderIs, HiddenLast
  <2>3. PICK y \in Names : y = Name(o) /\ y = o[Len(o)]
    BY <2>2, ParentIs
  <2>4. y = p[Len(p) - 1]
    <3>1. Len(o) \in 1 .. Len(p) - 1
      BY <1>2, <1>3, <2>2
    <3>q. QED BY <1>2, <2>3, <3>1
  <2>5. PICK r \in P : r = LastTwo(d, p) /\ Len(r) = 2 /\ r[1] = y /\ r[2] = x
    <3>1. CASE Len(p) <= Len(d) + 2
      <4>1. Rest(d, p) \in P /\ Len(Rest(d, p)) = Len(p) - Len(d)
        BY <1>1, RestIs
      <4>2. \A i \in 1 .. Len(p) - Len(d) : Rest(d, p)[i] = p[Len(d) + i]
        BY <1>1, RestIs
      <4>3. Len(p) - Len(d) = 2 /\ Len(d) + 1 = Len(p) - 1 /\ Len(d) + 2 = Len(p)
        BY <1>2, <1>3, <2>2, <3>1
      <4>4. Rest(d, p)[1] = y /\ Rest(d, p)[2] = x
        BY <1>4, <2>4, <4>2, <4>3
      <4>5. LastTwo(d, p) = Rest(d, p)
        BY <3>1 DEF LastTwo
      <4>q. QED BY <4>1, <4>3, <4>4, <4>5
    <3>2. CASE ~ Len(p) <= Len(d) + 2
      <4>1. PICK n \in Nat : n = Len(p) /\ n > 2
        BY <1>3, <3>2
      <4>2. SubSeq(p, n - 1, n) \in P /\ Len(SubSeq(p, n - 1, n)) = 2
        BY <4>1 DEF P
      <4>3. SubSeq(p, n - 1, n)[1] = p[n - 1] /\ SubSeq(p, n - 1, n)[2] = p[n]
        BY <4>1 DEF P
      <4>4. LastTwo(d, p) = SubSeq(p, n - 1, n)
        BY <3>2, <4>1 DEF LastTwo
      <4>q. QED BY <1>4, <2>4, <4>1, <4>2, <4>3, <4>4
    <3>q. QED BY <3>1, <3>2
  <2>6. r = <<y, x>>
    BY <2>5 DEF P
  <2>7. Append(<<y>>, x) = <<y, x>>
    <3>1. <<y>> \in Seq(Names) /\ Len(<<y>>) = 1
      OBVIOUS
    <3>2. Append(<<y>>, x) \in P /\ Len(Append(<<y>>, x)) = 2
      BY <3>1 DEF P
    <3>3. Append(<<y>>, x)[1] = y /\ Append(<<y>>, x)[2] = x
      BY <3>1
    <3>4. <<y, x>> \in P /\ Len(<<y, x>>) = 2 /\ <<y, x>>[1] = y /\ <<y, x>>[2] = x
      BY DEF P
    <3>q. QED BY <3>2, <3>3, <3>4, TwoIs
  <2>8. (IF Parent(p) = d THEN << >> ELSE <<Name(Parent(p))>>) = <<y>>
    BY <1>2, <1>6, <2>3
  <2>q. QED BY <1>4, <2>5, <2>6, <2>7, <2>8
<1>q. QED BY <1>5, <1>6

\* The file that a name told is looked for under: its own, or one with the same last
\* two names.
LEMMA ToldFile ==
    ASSUME NEW d \in P, NEW p \in P, Under(d, p)
    PROVE  /\ Len(p) <= Len(d) + 2 => d \o LastTwo(d, p) = p
           /\ ~ Len(p) <= Len(d) + 2 =>
                  \E q \in P : /\ q = d \o LastTwo(d, p) /\ q # p /\ Under(d, q)
                               /\ LastTwo(d, q) = LastTwo(d, p)
                               /\ HiddenIn(d, q) => HiddenIn(d, p)
<1>1. Within(d, p)
  BY DEF Within
<1>2. CASE Len(p) <= Len(d) + 2
  <2>1. d \o LastTwo(d, p) = To(d, d, p)
    BY <1>2 DEF LastTwo, To
  <2>q. QED BY <1>1, <1>2, <2>1, PlaceSelf
<1>3. CASE ~ Len(p) <= Len(d) + 2
  <2>1. PICK n \in Nat, m \in Nat : n = Len(p) /\ m = Len(d) /\ n > m + 2
    BY <1>3, Lengths
  <2>2. PICK r \in P : /\ r = LastTwo(d, p) /\ Len(r) = 2
                       /\ r[1] = p[n - 1] /\ r[2] = p[n]
    <3>1. SubSeq(p, n - 1, n) \in P /\ Len(SubSeq(p, n - 1, n)) = 2
      BY <2>1 DEF P
    <3>2. SubSeq(p, n - 1, n)[1] = p[n - 1] /\ SubSeq(p, n - 1, n)[2] = p[n]
      BY <2>1 DEF P
    <3>3. LastTwo(d, p) = SubSeq(p, n - 1, n)
      BY <1>3, <2>1 DEF LastTwo
    <3>q. QED BY <3>1, <3>2, <3>3
  <2>3. PICK q \in P : /\ q = d \o r /\ Len(q) = m + 2
                       /\ \A i \in 1 .. m : q[i] = d[i]
                       /\ \A i \in 1 .. 2 : q[m + i] = r[i]
    <3>1. d \o r \in P /\ Len(d \o r) = Len(d) + Len(r)
      BY ConcatIs
    <3>2. \A i \in 1 .. Len(d) : (d \o r)[i] = d[i]
      BY ConcatIs
    <3>3. \A i \in 1 .. Len(r) : (d \o r)[Len(d) + i] = r[i]
      BY ConcatIs
    <3>q. QED BY <2>1, <2>2, <3>1, <3>2, <3>3
  <2>4. q # p /\ Under(d, q)
    <3>1. Len(q) # Len(p) /\ Len(d) < Len(q)
      BY <2>1, <2>3
    <3>2. \A i \in 1 .. Len(d) : d[i] = q[i]
      BY <2>1, <2>3
    <3>q. QED BY <3>1, <3>2, UnderIs
  <2>5. LastTwo(d, q) = r
    <3>1. Within(d, q)
      BY <2>4 DEF Within
    <3>2. PICK u \in P : u = Rest(d, q) /\ Len(u) = 2 /\ \A i \in 1 .. 2 : u[i] = q[m + i]
      <4>1. Rest(d, q) \in P /\ Len(Rest(d, q)) = Len(q) - Len(d)
        BY <3>1, RestIs
      <4>2. \A i \in 1 .. Len(q) - Len(d) : Rest(d, q)[i] = q[Len(d) + i]
        BY <3>1, RestIs
      <4>3. Len(q) - Len(d) = 2
        BY <2>1, <2>3
      <4>4. \A i \in 1 .. 2 : Rest(d, q)[i] = q[m + i]
        BY <2>1, <4>2, <4>3
      <4>q. QED BY <4>1, <4>3, <4>4
    <3>3. u = r
      <4>1. u[1] = r[1] /\ u[2] = r[2]
        BY <2>3, <3>2
      <4>q. QED BY <2>2, <3>2, <4>1, TwoIs
    <3>4. LastTwo(d, q) = Rest(d, q)
      BY <2>1, <2>3 DEF LastTwo
    <3>q. QED BY <3>2, <3>3, <3>4
  <2>6. ASSUME HiddenIn(d, q) PROVE HiddenIn(d, p)
    <3>1. PICK i \in m + 1 .. m + 2 : q[i] \in Hidden
      BY <2>1, <2>3, <2>6 DEF HiddenIn
    <3>2. q[m + 1] = p[n - 1] /\ q[m + 2] = p[n]
      BY <2>2, <2>3
    <3>3. p[n - 1] \in Hidden \/ p[n] \in Hidden
      <4>1. i = m + 1 \/ i = m + 2
        BY <3>1
      <4>q. QED BY <3>1, <3>2, <4>1
    <3>4. n - 1 \in m + 1 .. n /\ n \in m + 1 .. n
      BY <2>1
    <3>q. QED BY <2>1, <3>3, <3>4 DEF HiddenIn
  <2>q. QED BY <1>3, <2>2, <2>3, <2>4, <2>5, <2>6
<1>q. QED BY <1>2, <1>3

-----------------------------------------------------------------------------
(* The tree.                                                                *)

\* TypeOK with what is above a path said by Under.
TreeInv ==
    /\ folders \subseteq P /\ DOMAIN files \subseteq P \ {Root}
    /\ Root \in folders
    /\ \A p \in DOMAIN files : p \notin folders
    /\ \A p \in Paths, q \in P : Under(q, p) => q \in folders

Flags ==
    /\ call.op \in {"none", "list", "zip", "delete", "copy", "mkdir"}
    /\ state \in {"none", "walk", "make", "write", "zip", "ok", "failed", "crashed"}

LEMMA TreeIs ==
    ASSUME NEW d \in SUBSET P, NEW f, DOMAIN f \subseteq P
    PROVE  Tree(d, f) <=>
               /\ Root \in d
               /\ \A p \in DOMAIN f : p \notin d
               /\ \A p \in d \cup DOMAIN f, q \in P : Under(q, p) => q \in d
<1>1. ASSUME NEW p \in d \cup DOMAIN f
      PROVE  Above(p) \subseteq d <=> \A q \in P : Under(q, p) => q \in d
  <2>1. p \in P
    OBVIOUS
  <2>2. Above(p) \subseteq P
    BY <2>1, AbovePaths
  <2>3. \A q \in P : q \in Above(p) <=> Under(q, p)
    BY <2>1, UnderIs
  <2>q. QED BY <2>2, <2>3
<1>2. (d \cap DOMAIN f = {}) <=> \A p \in DOMAIN f : p \notin d
  OBVIOUS
<1>q. QED BY <1>1, <1>2 DEF Tree

LEMMA TypeIs == TypeOK <=> TreeInv /\ Flags
<1>1. CASE folders \subseteq P /\ DOMAIN files \subseteq P
  BY <1>1, TreeIs DEF TypeOK, TreeInv, Flags, P, Paths
<1>q. QED BY <1>1 DEF TypeOK, TreeInv, P

LEMMA TypeIsNext == TypeOK' <=> TreeInv' /\ Flags'
  BY TypeIs, PTL

\* A folder made in a folder of the tree.
LEMMA MakeTree ==
    ASSUME TreeInv, NEW p \in P, CanMake(p), folders' = folders \cup {p}, UNCHANGED files
    PROVE  TreeInv'
<1>1. p # Root /\ p \notin folders /\ p \notin DOMAIN files /\ Parent(p) \in folders
  BY DEF CanMake, TreeInv
<1>2. ASSUME NEW r \in P, Under(r, p) PROVE r \in folders
  BY <1>1, <1>2, UnderParent, ParentIs DEF Within, TreeInv, Paths
<1>3. \A q \in Paths', r \in P : Under(r, q) => r \in folders'
  BY <1>2 DEF TreeInv, Paths
<1>q. QED BY <1>1, <1>3 DEF TreeInv

\* An occupied folder holds an entry on the way to anything below it.
LEMMA Occupation ==
    ASSUME TreeInv, NEW d \in P, NEW p \in Paths, Under(d, p)
    PROVE  \E c \in Paths : c # Root /\ Parent(c) = d /\ Within(c, p)
<1>1. p \in P
  BY DEF TreeInv, Paths
<1>2. PICK c \in P : c # Root /\ Parent(c) = d /\ Within(c, p)
  BY <1>1, ChildOn
<1>3. c \in Paths
  BY <1>1, <1>2 DEF Within, TreeInv, Paths
<1>q. QED BY <1>2, <1>3

-----------------------------------------------------------------------------
(* The walk.                                                                *)

\* What the steps of the walk assume.
Walking == TreeInv /\ CallInv /\ WalkInv /\ InTree

LEMMA WalkIs ==
    ASSUME Walking
    PROVE  /\ at \in P /\ at \in folders /\ call.dir \in P /\ call.to \in P
           /\ Within(call.dir, at) /\ ~ HiddenIn(call.dir, at)
           /\ \A q \in todo :
                  /\ q \in Paths /\ q \in P /\ q # Root /\ Parent(q) \in P
                  /\ Under(call.dir, q) /\ ~ HiddenIn(call.dir, q)
                  /\ ~ Within(q, at) /\ Within(Parent(q), at)
                  /\ q \in DOMAIN files => Parent(q) = at
<1>1. /\ at \in P /\ at \in folders /\ call.dir \in P /\ call.to \in P
      /\ Within(call.dir, at) /\ ~ HiddenIn(call.dir, at)
  BY DEF Walking, TreeInv, CallInv, WalkInv, P
<1>2. ASSUME NEW q \in todo
      PROVE  /\ q \in Paths /\ q \in P
             /\ Under(call.dir, q) /\ ~ HiddenIn(call.dir, q)
             /\ ~ Within(q, at) /\ Within(Parent(q), at)
             /\ q \in DOMAIN files => Parent(q) = at
  BY DEF Walking, TreeInv, WalkInv, Paths
<1>3. ASSUME NEW q \in todo PROVE q # Root /\ Parent(q) \in P
  BY <1>1, <1>2, HiddenLast, ParentIs
<1>q. QED BY <1>1, <1>2, <1>3

\* No two entries that the walk has yet to take lie one below the other.
LEMMA Antichain ==
    ASSUME Walking, NEW p \in todo, Parent(p) = at, NEW q \in todo
    PROVE  ~ Under(q, p)
<1>1. p \in P /\ p # Root /\ q \in P
  BY WalkIs
<1>q. QED BY <1>1, WalkIs, UnderParent

\* When a file has been taken it is no more ahead, and everything else as before.
LEMMA AheadTake ==
    ASSUME Walking, NEW p \in todo, p \in DOMAIN files, todo' = todo \ {p},
           NEW r \in Paths
    PROVE  Ahead(r)' <=> Ahead(r) /\ r # p
<1>1. p \in P /\ Parent(p) = at /\ r \in P
  BY WalkIs DEF Walking, TreeInv, Paths
<1>2. Within(p, r) => p = r
  <2>1. Under(p, r) => p \in folders
    BY <1>1 DEF Walking, TreeInv
  <2>2. p \notin folders
    BY DEF Walking, TreeInv
  <2>q. QED BY <2>1, <2>2 DEF Within
<1>3. \A q \in todo \ {p} : ~ Within(q, p)
  BY <1>1, Antichain DEF Within
<1>4. Ahead(r)' <=> \E q \in todo \ {p} : Within(q, r)
  BY DEF Ahead, Within, Under
<1>q. QED BY <1>2, <1>3, <1>4 DEF Ahead

\* When a folder is entered its visible entries are ahead instead of it.
LEMMA AheadEnter ==
    ASSUME Walking, NEW p \in todo, p \in folders, Parent(p) = at,
           todo' = (todo \ {p}) \cup Entries(p),
           NEW r \in Paths, Under(call.dir, r), ~ HiddenIn(call.dir, r)
    PROVE  Ahead(r)' <=> Ahead(r) /\ r # p
<1>1. p \in P /\ p # Root /\ r \in P /\ call.dir \in P /\ Under(call.dir, p)
  BY WalkIs DEF Walking, TreeInv, Paths
<1>2. Ahead(r)' <=> \/ \E q \in todo \ {p} : Within(q, r)
                    \/ \E q \in Entries(p) : Within(q, r)
  BY DEF Ahead, Within, Under
<1>3. \A q \in todo \ {p} : ~ Within(q, p)
  BY Antichain DEF Within
<1>4. ASSUME NEW q \in Entries(p), Within(q, r) PROVE Under(p, r) /\ r # p
  <2>1. q \in P /\ q # Root /\ Parent(q) = p
    BY DEF Entries, Walking, TreeInv
  <2>2. Under(p, q)
    BY <2>1, ParentIs
  <2>3. Under(p, r)
    BY <1>1, <1>4, <2>1, <2>2, UnderTrans DEF Within
  <2>q. QED BY <1>1, <2>3, NotBoth
<1>5. ASSUME Under(p, r) PROVE \E q \in Entries(p) : Within(q, r)
  <2>1. PICK c \in Paths : c # Root /\ Parent(c) = p /\ Within(c, r)
    BY <1>1, <1>5, Occupation DEF Walking
  <2>2. c \in P
    BY DEF Walking, TreeInv, Paths
  <2>3. Under(call.dir, c)
    BY <1>1, <2>1, <2>2, ParentIs, UnderTrans
  <2>4. Name(c) \notin Hidden
    BY <1>1, <2>1, <2>2, <2>3, HiddenOn, HiddenLast
  <2>q. QED BY <2>1, <2>4 DEF Entries, Seen, Paths
<1>q. QED BY <1>2, <1>3, <1>4, <1>5 DEF Ahead, Within

\* At the start all that is visible is ahead.
LEMMA AheadStart ==
    ASSUME TreeInv, NEW d \in P, todo' = Entries(d),
           NEW r \in Paths, Under(d, r), ~ HiddenIn(d, r)
    PROVE  Ahead(r)'
<1>1. r \in P
  BY DEF TreeInv, Paths
<1>2. PICK c \in Paths : c # Root /\ Parent(c) = d /\ Within(c, r)
  BY Occupation
<1>3. c \in P
  BY DEF TreeInv, Paths
<1>4. Under(d, c)
  BY <1>2, <1>3, ParentIs
<1>5. Name(c) \notin Hidden
  BY <1>1, <1>2, <1>3, <1>4, HiddenOn, HiddenLast
<1>6. c \in Entries(d)
  BY <1>2, <1>5 DEF Entries, Seen, Paths
<1>7. Ahead(r)' <=> \E q \in todo' : Within(q, r)
  BY DEF Ahead, Within, Under
<1>q. QED BY <1>2, <1>6, <1>7

\* What readdir finds in a visible folder.
LEMMA EntriesAre ==
    ASSUME TreeInv, NEW d \in P, NEW p \in P, Within(d, p), ~ HiddenIn(d, p),
           NEW q \in Entries(p)
    PROVE  /\ q \in Paths /\ q \in P /\ q # Root /\ Parent(q) = p
           /\ Under(d, q) /\ ~ HiddenIn(d, q) /\ ~ Within(q, p)
<1>1. q \in Paths /\ q \in P /\ q # Root /\ Parent(q) = p /\ Name(q) \notin Hidden
  BY DEF Entries, Seen, TreeInv, Paths
<1>2. Under(p, q)
  BY <1>1, ParentIs
<1>3. Under(d, q)
  BY <1>1, <1>2, UnderTrans DEF Within
<1>4. ~ HiddenIn(d, q)
  BY <1>1, <1>3, HiddenLast
<1>5. ~ Within(q, p)
  BY <1>1, <1>2, NotBoth
<1>q. QED BY <1>1, <1>3, <1>4, <1>5

LEMMA WalkStart ==
    ASSUME TreeInv, NEW d \in P, d \in folders, call'.dir = d, at' = d, todo' = Entries(d),
           folders \subseteq folders', files' = files, TreeInv'
    PROVE  WalkInv'
<1>1. ~ HiddenIn(d, d) /\ Within(d, d)
  BY HiddenNot DEF Within
<1>2. ASSUME NEW q \in todo'
      PROVE  /\ q \in Paths' /\ Under(d, q) /\ ~ HiddenIn(d, q)
             /\ ~ Within(q, d) /\ Within(Parent(q), d)
             /\ q \in DOMAIN files' => Parent(q) = d
  BY <1>1, <1>2, EntriesAre DEF Paths, Within
<1>3. /\ d \in folders' /\ todo' \subseteq Paths'
  BY <1>2
<1>q. QED BY <1>1, <1>2, <1>3 DEF WalkInv, Within, Under, HiddenIn

LEMMA WalkTake ==
    ASSUME Walking, NEW p \in todo, todo' = todo \ {p}, UNCHANGED <<at, call, folders>>,
           \A q \in DOMAIN files : q = p \/ q \in DOMAIN files',
           \A q \in DOMAIN files' : q \in DOMAIN files \/ q \notin folders
    PROVE  WalkInv'
<1>1. ASSUME NEW q \in todo'
      PROVE  /\ q \in Paths' /\ Under(call.dir, q) /\ ~ HiddenIn(call.dir, q)
             /\ ~ Within(q, at) /\ Within(Parent(q), at)
             /\ q \in DOMAIN files' => Parent(q) = at
  BY WalkIs DEF Paths
<1>2. /\ at \in folders' /\ Within(call.dir, at) /\ ~ HiddenIn(call.dir, at)
  BY WalkIs
<1>3. todo' \subseteq Paths'
  BY <1>1
<1>q. QED BY <1>1, <1>2, <1>3 DEF WalkInv, Within, Under, HiddenIn

LEMMA WalkEnter ==
    ASSUME Walking, NEW p \in todo, p \in folders, Parent(p) = at,
           todo \cap DOMAIN files = {}, todo' = (todo \ {p}) \cup Entries(p), at' = p,
           UNCHANGED <<call, files>>, folders \subseteq folders'
    PROVE  WalkInv'
<1>1. p \in P /\ p # Root /\ Under(call.dir, p) /\ ~ HiddenIn(call.dir, p) /\ call.dir \in P
  BY WalkIs
<1>2. Within(call.dir, p)
  BY <1>1 DEF Within
<1>3. ASSUME NEW q \in Entries(p)
      PROVE  /\ q \in Paths' /\ Under(call.dir, q) /\ ~ HiddenIn(call.dir, q)
             /\ ~ Within(q, p) /\ Within(Parent(q), p)
             /\ q \in DOMAIN files' => Parent(q) = p
  BY <1>1, <1>2, <1>3, EntriesAre DEF Paths, Within, Walking
<1>4. ASSUME NEW q \in todo, q # p
      PROVE  /\ q \in Paths' /\ Under(call.dir, q) /\ ~ HiddenIn(call.dir, q)
             /\ ~ Within(q, p) /\ Within(Parent(q), p)
             /\ q \in DOMAIN files' => Parent(q) = p
  <2>1. q \in P /\ q # Root /\ Parent(q) \in P /\ Within(Parent(q), at) /\ q \in Paths
        /\ Under(call.dir, q) /\ ~ HiddenIn(call.dir, q)
    BY WalkIs
  <2>2. ~ Within(q, p)
    BY <1>4, Antichain DEF Within
  <2>3. Within(Parent(q), p)
    BY <1>1, <2>1, UnderParent DEF Within
  <2>4. q \in Paths' /\ q \notin DOMAIN files'
    BY <2>1 DEF Paths
  <2>q. QED BY <2>1, <2>2, <2>3, <2>4
<1>5. \A q \in todo' : q \in Entries(p) \/ (q \in todo /\ q # p)
  OBVIOUS
<1>6. p \in folders' /\ todo' \subseteq Paths'
  BY <1>3, <1>4, <1>5
<1>q. QED BY <1>1, <1>2, <1>3, <1>4, <1>5, <1>6 DEF WalkInv, Within, Under, HiddenIn

\* The walk that returns from a folder has nothing left to do there or below.
LEMMA WalkReturn ==
    ASSUME Walking, \A q \in todo : Parent(q) # at, at # call.dir, at' = Parent(at),
           UNCHANGED <<todo, call, files>>,
           \A q \in folders : q = at \/ q \in folders'
    PROVE  WalkInv'
<1>1. at \in P /\ at \in folders /\ call.dir \in P /\ Under(call.dir, at) /\ at # Root
  BY WalkIs, HiddenLast DEF Within
<1>2. /\ Parent(at) \in P /\ Under(Parent(at), at) /\ Within(call.dir, Parent(at))
      /\ Parent(at) # at
  BY <1>1, ParentIs, UnderParent, NotBoth
<1>3. Parent(at) \in folders'
  BY <1>1, <1>2 DEF Walking, TreeInv, Paths
<1>4. ~ HiddenIn(call.dir, Parent(at))
  BY <1>1, WalkIs, HiddenLast
<1>5. ASSUME NEW q \in todo'
      PROVE  /\ q \in Paths' /\ Under(call.dir, q) /\ ~ HiddenIn(call.dir, q)
             /\ ~ Within(q, Parent(at)) /\ Within(Parent(q), Parent(at))
             /\ q \in DOMAIN files' => Parent(q) = Parent(at)
  <2>1. q \in todo /\ q \in P /\ q \in Paths /\ Parent(q) \in P /\ ~ Within(q, at)
        /\ Under(call.dir, q) /\ ~ HiddenIn(call.dir, q)
        /\ Within(Parent(q), at) /\ (q \in DOMAIN files => Parent(q) = at)
    BY WalkIs
  <2>2. Parent(q) # at /\ q # at
    BY <2>1 DEF Within
  <2>3. ~ Within(q, Parent(at))
    BY <1>1, <2>1, UnderParent DEF Within
  <2>4. Within(Parent(q), Parent(at))
    BY <1>1, <2>1, <2>2, UnderParent DEF Within
  <2>5. q \in Paths' /\ q \notin DOMAIN files'
    BY <2>1, <2>2 DEF Paths
  <2>q. QED BY <2>1, <2>3, <2>4, <2>5
<1>6. todo' \subseteq Paths'
  BY <1>5
<1>q. QED BY <1>2, <1>3, <1>4, <1>5, <1>6 DEF WalkInv, Within, Under, HiddenIn

\* At the end of the first loop everything has been taken.
LEMMA WalkOver ==
    ASSUME Walking, \A q \in todo : Parent(q) # at, at = call.dir
    PROVE  todo = {}
<1>1. ASSUME NEW q \in todo PROVE FALSE
  <2>1. q \in P /\ q # Root /\ Parent(q) \in P /\ call.dir \in P
        /\ Under(call.dir, q) /\ Within(Parent(q), at) /\ Parent(q) # at
    BY WalkIs
  <2>2. Within(call.dir, Parent(q))
    BY <2>1, UnderParent
  <2>3. Under(Parent(q), call.dir)
    BY <2>1 DEF Within
  <2>q. QED BY <2>1, <2>2, <2>3, NotBoth
<1>q. QED BY <1>1

-----------------------------------------------------------------------------
(* The calls keep the invariant.                                            *)

LEMMA VisibleIs ==
    ASSUME NEW p
    PROVE  p \in VisibleFiles <=>
               p \in DOMAIN before.files /\ Under(call.dir, p) /\ ~ HiddenIn(call.dir, p)
  BY DEF VisibleFiles, Visible

\* A call that leaves the disk alone at first.
LEMMA BeginKeeps ==
    ASSUME IInv, NEW dir \in folders, NEW op \in {"list", "zip", "delete"},
           op = "delete" => dir # Root,
           Begin(op, dir, dir, "walk", Entries(dir))
    PROVE  IInv'
<1>0. TreeInv /\ dir \in P /\ TypeOK
  BY TypeIs DEF IInv, TreeInv
<1>1. /\ call'.op = op /\ call'.dir = dir /\ call'.to = dir
      /\ before'.folders = folders /\ before'.files = files
      /\ state' = "walk" /\ at' = dir /\ todo' = Entries(dir)
      /\ list' = << >> /\ dump' = << >> /\ fault' = fault
      /\ folders' = folders /\ files' = files
  BY DEF Begin, disk, IInv, CallInv
<1>2. TypeOK'
  <2>1. TreeInv'
    BY <1>0, <1>1 DEF TreeInv, Paths
  <2>2. Flags'
    BY <1>1 DEF Flags
  <2>q. QED BY <2>1, <2>2, TypeIsNext
<1>3. CallInv'
  BY <1>0, <1>1 DEF CallInv, TypeOK, P
<1>4. WalkInv'
  BY <1>0, <1>1, <1>2, TypeIsNext, WalkStart
<1>5. ASSUME NEW p \in Paths, Under(dir, p), ~ HiddenIn(dir, p) PROVE Ahead(p)'
  BY <1>0, <1>1, <1>5, AheadStart
<1>6. ListInv'
  <2>1. \A p \in VisibleFiles' : Ahead(p)'
    <3>1. ASSUME NEW p \in VisibleFiles' PROVE p \in DOMAIN files /\ Under(dir, p) /\ ~ HiddenIn(dir, p)
      BY <1>1 DEF VisibleFiles, Visible
    <3>q. QED BY <1>5, <3>1 DEF Paths
  <2>2. list' \in Seq(Seq(Names)) /\ Len(list') = 0
    BY <1>1
  <2>q. QED BY <1>1, <2>1, <2>2 DEF ListInv
<1>7. ZipInv'
  BY <1>1 DEF ZipInv
<1>8. DeleteInv'
  <2>1. \A p \in Paths' : Under(call'.dir, p) => HiddenIn(call'.dir, p) \/ Ahead(p)'
    BY <1>1, <1>5 DEF Paths
  <2>2. DeletesAll'
    BY <1>1 DEF DeletesAll
  <2>q. QED BY <1>1, <2>1, <2>2 DEF DeleteInv
<1>9. CopyInv' /\ MakeInv'
  BY <1>1 DEF CopyInv, MakeInv
<1>q. QED BY <1>2, <1>3, <1>4, <1>6, <1>7, <1>8, <1>9 DEF IInv

LEMMA CopyKeeps ==
    ASSUME IInv, NEW src \in folders, NEW dst \in P, RecursiveCopy(src, dst)
    PROVE  IInv'
<1>0. TreeInv /\ src \in P /\ TypeOK
  BY TypeIs DEF IInv, TreeInv
<1>1. /\ call'.op = "copy" /\ call'.dir = src /\ call'.to = dst
      /\ before'.folders = folders /\ before'.files = files
      /\ state' = "make" /\ made' = 0 /\ at' = src /\ todo' = Entries(src)
      /\ list' = << >> /\ dump' = << >> /\ ~ Within(src, dst)
      /\ UNCHANGED <<folders, files>>
  BY DEF RecursiveCopy, Begin, disk, IInv, CallInv, Within
<1>2. TreeInv'
  BY <1>0, <1>1 DEF TreeInv, Paths
<1>3. TypeOK'
  <2>1. Flags'
    BY <1>1 DEF Flags
  <2>q. QED BY <1>2, <2>1, TypeIsNext
<1>4. CallInv'
  BY <1>0, <1>1 DEF CallInv, TypeOK, P
<1>5. WalkInv'
  BY <1>0, <1>1, <1>2, WalkStart
<1>6. CopyInv'
  <2>1. ASSUME NEW p \in VisibleFiles'
        PROVE  p \in DOMAIN files /\ Ahead(p)' /\ AsBefore(p)'
    <3>1. p \in DOMAIN files /\ Under(src, p) /\ ~ HiddenIn(src, p)
      BY <1>1 DEF VisibleFiles, Visible
    <3>2. Ahead(p)'
      BY <1>0, <1>1, <3>1, AheadStart DEF Paths
    <3>q. QED BY <1>1, <3>1, <3>2 DEF AsBefore
  <2>2. CopiesAll'
    BY <1>1, <2>1 DEF CopiesAll, AsBefore
  <2>q. QED BY <1>1, <2>1, <2>2 DEF CopyInv
<1>7. MakeInv'
  <2>1. Place(at)' = dst
    <3>1. Place(at)' = To(dst, src, src)
      BY <1>1 DEF Place, To
    <3>q. QED BY <1>0, <3>1, PlaceTop
  <2>q. QED BY <1>1, <2>1, Lengths DEF MakeInv, P
<1>8. ListInv' /\ ZipInv' /\ DeleteInv'
  BY <1>1 DEF ListInv, ZipInv, DeleteInv
<1>q. QED BY <1>3, <1>4, <1>5, <1>6, <1>7, <1>8 DEF IInv

LEMMA MkdirKeeps ==
    ASSUME IInv, NEW p \in P, Mkdir(p)
    PROVE  IInv'
<1>0. TreeInv /\ TypeOK
  BY TypeIs DEF IInv
<1>1. /\ call'.op = "mkdir" /\ call'.dir = p /\ call'.to = p
      /\ before'.folders = folders /\ before'.files = files
      /\ state' = "make" /\ made' = 0 /\ at' = p
      /\ UNCHANGED <<folders, files>>
  BY DEF Mkdir, Begin, disk
<1>2. TypeOK'
  <2>1. TreeInv' /\ Flags'
    BY <1>0, <1>1 DEF TreeInv, Flags, Paths
  <2>q. QED BY <2>1, TypeIsNext
<1>3. CallInv'
  BY <1>0, <1>1 DEF CallInv, TypeOK, P
<1>4. MakeInv'
  <2>1. Place(at)' = p
    <3>1. Place(at)' = To(p, p, p)
      BY <1>1 DEF Place, To
    <3>q. QED BY <3>1, PlaceTop
  <2>2. MakesPath'
    BY <1>1 DEF MakesPath
  <2>3. ASSUME NEW q \in P, Len(q) <= 0 PROVE q \in folders
    BY <1>0, <2>3, Lengths DEF TreeInv
  <2>q. QED BY <1>1, <2>1, <2>2, <2>3, Lengths DEF MakeInv, P
<1>5. WalkInv' /\ ListInv' /\ ZipInv' /\ DeleteInv' /\ CopyInv'
  BY <1>1 DEF WalkInv, InTree, ListInv, ZipInv, DeleteInv, CopyInv
<1>q. QED BY <1>2, <1>3, <1>4, <1>5 DEF IInv

-----------------------------------------------------------------------------
(* The steps keep the invariant.                                            *)

LEMMA SameCall ==
    ASSUME UNCHANGED <<call, before>>
    PROVE  VisibleFiles' = VisibleFiles /\ Shallow' = Shallow
  BY DEF VisibleFiles, Visible, Shallow, Under, HiddenIn

\* What IInv says when the walk is on.
LEMMA InWalk ==
    ASSUME IInv, state = "walk"
    PROVE  Walking /\ TreeInv /\ Flags
  BY TypeIs DEF IInv, Walking, InTree, CallInv

LEMMA CallKeeps ==
    ASSUME CallInv, call.op # "none", state # "none", UNCHANGED <<call, before>>,
           state' # "none", state' = "zip" => call.op = "zip",
           state' = "walk" => call.op \in {"list", "zip", "delete", "copy"},
           state' = "make" => call.op \in {"copy", "mkdir"},
           state' = "write" => call.op = "copy"
    PROVE  CallInv'
  BY DEF CallInv

\* A file put into a folder of the tree.
LEMMA PutTree ==
    ASSUME TreeInv, NEW q \in P, q # Root, Parent(q) \in folders, q \notin folders,
           NEW what, files' = Put(q, what), UNCHANGED folders
    PROVE  /\ TreeInv' /\ DOMAIN files' = DOMAIN files \cup {q} /\ files'[q] = what
           /\ \A p \in DOMAIN files : p # q => files'[p] = files[p]
<1>1. /\ DOMAIN files' = DOMAIN files \cup {q} /\ files'[q] = what
      /\ \A p \in DOMAIN files : p # q => files'[p] = files[p]
  BY DEF Put
<1>2. ASSUME NEW r \in P, Under(r, q) PROVE r \in folders
  BY <1>2, UnderParent, ParentIs DEF Within, TreeInv, Paths
<1>3. \A p \in Paths', r \in P : Under(r, p) => r \in folders'
  BY <1>1, <1>2 DEF TreeInv, Paths
<1>q. QED BY <1>1, <1>3 DEF TreeInv

\* An empty folder removed from the tree.
LEMMA RmDirTree ==
    ASSUME TreeInv, NEW d \in P, d # Root, ~ Occupied(d), folders' = folders \ {d},
           UNCHANGED files
    PROVE  TreeInv' /\ \A p \in Paths : ~ Under(d, p)
<1>1. \A p \in Paths : ~ Under(d, p)
  BY Occupation DEF Occupied, Paths
<1>2. \A p \in Paths', r \in P : Under(r, p) => r \in folders'
  BY <1>1 DEF TreeInv, Paths
<1>q. QED BY <1>1, <1>2 DEF TreeInv

LEMMA ListFileKeeps ==
    ASSUME IInv, NEW p \in todo, ListFile(p)
    PROVE  IInv'
<1>1. /\ state = "walk" /\ p \in DOMAIN files /\ todo' = todo \ {p}
      /\ call.op \in {"list", "zip"}
      /\ UNCHANGED <<folders, files, call, before, state, at, dump, fault>>
      /\ list' = Append(list, Append(Base, Name(p)))
  BY DEF ListFile, Take, Goes, disk
<1>2. Walking /\ TreeInv /\ Flags
  BY <1>1, InWalk
<1>3. /\ p \in P /\ Parent(p) = at /\ Under(call.dir, p) /\ ~ HiddenIn(call.dir, p)
      /\ call.dir \in P /\ p \in Paths
  BY <1>1, <1>2, WalkIs
<1>4. TypeOK'
  <2>1. TreeInv' /\ Flags'
    BY <1>1, <1>2 DEF TreeInv, Flags, Paths
  <2>q. QED BY <2>1, TypeIsNext
<1>5. CallInv' /\ WalkInv'
  <2>1. CallInv'
    BY <1>1, CallKeeps DEF IInv
  <2>q. QED BY <1>1, <1>2, <2>1, WalkTake
<1>6. ListInv'
  <2>1. PICK n \in Nat : n = Len(list)
    BY <1>1 DEF IInv, ListInv
  <2>2. /\ list \in Seq(P) /\ LastTwo(call.dir, p) \in P
        /\ list' = Append(list, LastTwo(call.dir, p))
    <3>1. list \in Seq(P)
      BY <1>1 DEF IInv, ListInv, P
    <3>2. /\ LastTwo(call.dir, p) \in P
          /\ Append(IF Parent(p) = call.dir THEN << >> ELSE <<Name(Parent(p))>>, Name(p))
                 = LastTwo(call.dir, p)
      BY <1>3, ToldName
    <3>q. QED BY <1>1, <1>3, <3>1, <3>2 DEF Base
  <2>3. /\ list' \in Seq(P) /\ Len(list') = n + 1 /\ list'[n + 1] = LastTwo(call.dir, p)
        /\ \A i \in 1 .. n : list'[i] = list[i]
    BY <2>1, <2>2
  <2>4. VisibleFiles' = VisibleFiles /\ Shallow' = Shallow
    BY <1>1, SameCall
  <2>5. VisibleFiles \subseteq Paths /\ p \in VisibleFiles /\ VisibleFiles \subseteq P
    BY <1>1, <1>2, <1>3, VisibleIs DEF IInv, ListInv, Paths, TreeInv
  <2>6. \A r \in VisibleFiles : Ahead(r)' <=> Ahead(r) /\ r # p
    BY <1>1, <1>2, <2>5, AheadTake
  <2>7. ASSUME NEW r \in VisibleFiles
        PROVE  Ahead(r)' \/ \E i \in 1 .. n + 1 : list'[i] = LastTwo(call.dir, r)
    <3>1. CASE r = p
      <4>1. n + 1 \in 1 .. n + 1
        OBVIOUS
      <4>q. QED BY <2>3, <3>1, <4>1
    <3>2. CASE r # p
      <4>1. Ahead(r) \/ \E i \in 1 .. n : list[i] = LastTwo(call.dir, r)
        BY <1>1, <2>1 DEF IInv, ListInv
      <4>q. QED BY <2>3, <2>6, <3>2, <4>1
    <3>q. QED BY <3>1, <3>2
  <2>8. ASSUME NEW i \in 1 .. n + 1
        PROVE  \E r \in VisibleFiles :
                   /\ ~ Ahead(r)' /\ list'[i] = LastTwo(call.dir, r)
                   /\ i # n + 1 => ~ Ahead(r)
    <3>1. CASE i = n + 1
      BY <2>3, <2>5, <2>6, <3>1
    <3>2. CASE i # n + 1
      <4>1. i \in 1 .. n
        BY <3>2
      <4>2. PICK r \in VisibleFiles : ~ Ahead(r) /\ list[i] = LastTwo(call.dir, r)
        BY <1>1, <2>1, <4>1 DEF IInv, ListInv
      <4>q. QED BY <2>3, <2>6, <4>1, <4>2
    <3>q. QED BY <3>1, <3>2
  <2>9. ASSUME Shallow, NEW i \in 1 .. n PROVE list[i] # LastTwo(call.dir, p)
    <3>1. PICK r \in VisibleFiles : ~ Ahead(r) /\ list[i] = LastTwo(call.dir, r)
      BY <1>1, <2>1 DEF IInv, ListInv
    <3>2. Ahead(p)
      BY DEF Ahead, Within
    <3>3. LastTwo(call.dir, r) = Rest(call.dir, r) /\ LastTwo(call.dir, p) = Rest(call.dir, p)
      BY <2>5, <2>9 DEF Shallow, LastTwo
    <3>4. Within(call.dir, r) /\ Within(call.dir, p) /\ r \in P
      BY <1>3, <2>5, VisibleIs DEF Within
    <3>q. QED BY <1>3, <3>1, <3>2, <3>3, <3>4, PlaceOnce
  <2>10. ASSUME Shallow, NEW i \in 1 .. n + 1, NEW k \in 1 .. n + 1, list'[i] = list'[k]
         PROVE  i = k
    <3>1. \A l \in 1 .. n + 1 : l = n + 1 \/ l \in 1 .. n
      OBVIOUS
    <3>2. \A l, m \in 1 .. n : list[l] = list[m] => l = m
      BY <1>1, <2>1, <2>10 DEF IInv, ListInv
    <3>q. QED BY <2>3, <2>9, <2>10, <3>1, <3>2
  <2>11. folders' = before'.folders /\ files' = before'.files /\ state' = "walk"
    BY <1>1 DEF IInv, ListInv
  <2>12. /\ list' \in Seq(Seq(Names))
         /\ \A r \in VisibleFiles' :
                Ahead(r)' \/ \E i \in 1 .. Len(list') : list'[i] = LastTwo(call'.dir, r)
    BY <1>1, <2>3, <2>4, <2>7 DEF P
  <2>13. \A i \in 1 .. Len(list') :
             \E r \in VisibleFiles' : ~ Ahead(r)' /\ list'[i] = LastTwo(call'.dir, r)
    BY <1>1, <2>3, <2>4, <2>8
  <2>14. Shallow' => \A i, k \in 1 .. Len(list') : list'[i] = list'[k] => i = k
    BY <2>3, <2>4, <2>10
  <2>q. QED BY <2>11, <2>12, <2>13, <2>14 DEF ListInv
<1>7. ZipInv'
  BY <1>1 DEF IInv, ZipInv
<1>8. DeleteInv' /\ CopyInv' /\ MakeInv'
  BY <1>1 DEF DeleteInv, CopyInv, MakeInv
<1>q. QED BY <1>4, <1>5, <1>6, <1>7, <1>8 DEF IInv

LEMMA DeleteFileKeeps ==
    ASSUME IInv, NEW p \in todo, DeleteFile(p)
    PROVE  IInv'
<1>1. /\ state = "walk" /\ p \in DOMAIN files /\ todo' = todo \ {p} /\ call.op = "delete"
      /\ UNCHANGED <<folders, call, before, at, list, dump>>
      /\ \/ state' = "walk" /\ files' = [q \in DOMAIN files \ {p} |-> files[q]]
         \/ state' = "failed" /\ fault' = {p} /\ files' = files
  BY DEF DeleteFile, Take, Goes, Fails
<1>2. Walking /\ TreeInv /\ Flags
  BY <1>1, InWalk
<1>3. /\ p \in P /\ Under(call.dir, p) /\ ~ HiddenIn(call.dir, p)
      /\ call.dir \in P /\ p \in Paths
  BY <1>1, <1>2, WalkIs
<1>4. /\ DOMAIN files' \subseteq DOMAIN files
      /\ \A q \in DOMAIN files' : files'[q] = files[q]
      /\ \A q \in DOMAIN files : q # p => q \in DOMAIN files'
      /\ state' = "failed" => p \in DOMAIN files'
  BY <1>1
<1>5. TypeOK'
  <2>1. TreeInv'
    BY <1>1, <1>2, <1>4 DEF TreeInv, Paths
  <2>2. Flags'
    BY <1>1 DEF Flags
  <2>q. QED BY <2>1, <2>2, TypeIsNext
<1>6. CallInv'
  BY <1>1, CallKeeps DEF IInv
<1>7. WalkInv'
  BY <1>1, <1>2, <1>4, WalkTake
<1>8. DeleteInv'
  <2>1. DeletesAll /\ call.dir # Root
    BY <1>1 DEF IInv, DeleteInv
  <2>2. call.dir \in folders
    BY <1>2, <1>3 DEF TreeInv
  <2>3. DeletesAll'
    <3>1. /\ Paths' \subseteq Paths
          /\ \A q \in Paths : q = p \/ q \in Paths'
      BY <1>1, <1>4 DEF Paths
    <3>2. folders' \cup DOMAIN files' \subseteq before.folders \cup DOMAIN before.files
      BY <1>1, <1>4, <2>1 DEF DeletesAll
    <3>3. \A q \in DOMAIN files' : files'[q] = before.files[q]
      BY <1>1, <1>4, <2>1 DEF DeletesAll
    <3>4. \A q \in (before.folders \cup DOMAIN before.files) \ (folders' \cup DOMAIN files') :
              (q = call.dir \/ Under(call.dir, q)) /\ ~ HiddenIn(call.dir, q)
      BY <1>1, <1>3, <1>4, <2>1 DEF DeletesAll
    <3>5. state' = "failed" =>
              call.dir \in folders' /\ p \in DOMAIN files' /\ p \in fault'
      BY <1>1, <1>4, <2>2
    <3>q. QED BY <1>1, <1>3, <3>2, <3>3, <3>4, <3>5 DEF DeletesAll
  <2>4. ASSUME state' = "walk", NEW q \in Paths', Under(call.dir, q)
        PROVE  HiddenIn(call.dir, q) \/ Ahead(q)' \/ Within(q, at)
    <3>1. q \in Paths /\ q # p
      BY <1>1, <1>2, <2>4 DEF Paths, TreeInv
    <3>2. HiddenIn(call.dir, q) \/ Ahead(q) \/ Within(q, at)
      BY <1>1, <2>4, <3>1 DEF IInv, DeleteInv
    <3>3. Ahead(q)' <=> Ahead(q) /\ q # p
      BY <1>1, <1>2, <3>1, AheadTake
    <3>q. QED BY <3>1, <3>2, <3>3
  <2>q. QED BY <1>1, <2>1, <2>3, <2>4 DEF DeleteInv
<1>9. ListInv' /\ ZipInv' /\ CopyInv' /\ MakeInv'
  BY <1>1 DEF ListInv, ZipInv, CopyInv, MakeInv
<1>q. QED BY <1>5, <1>6, <1>7, <1>8, <1>9 DEF IInv

\* The place of an entry of the folder that the copy is in.
LEMMA PlaceTaken ==
    ASSUME IInv, call.op = "copy", state = "walk", NEW p \in todo, Parent(p) = at
    PROVE  Place(p) \in P /\ Place(p) # Root /\ Parent(Place(p)) \in folders
<1>1. Walking
  BY InWalk
<1>2. /\ p \in P /\ call.dir \in P /\ call.to \in P /\ Under(call.dir, p)
      /\ Within(call.dir, p)
  BY <1>1, WalkIs DEF Within
<1>3. \A r : Place(r) = To(call.to, call.dir, r)
  BY DEF Place, To
<1>4. Place(at) \in folders
  BY DEF IInv, CopyInv
<1>q. QED BY <1>2, <1>3, <1>4, PlaceIs, PlaceParent

\* What the source has, is visible and lies below the folder.
LEMMA SourceIs ==
    ASSUME IInv, call.op = "copy", Beside, NEW r \in VisibleFiles
    PROVE  /\ r \in P /\ r \in DOMAIN files /\ files[r] = before.files[r]
           /\ Under(call.dir, r) /\ ~ HiddenIn(call.dir, r) /\ Within(call.dir, r)
           /\ call.dir \in P /\ call.to \in P
<1>1. r \in DOMAIN before.files /\ Under(call.dir, r) /\ ~ HiddenIn(call.dir, r)
  BY VisibleIs
<1>2. Within(call.dir, r)
  BY <1>1 DEF Within
<1>3. r \in DOMAIN files /\ files[r] = before.files[r]
  BY <1>1, <1>2 DEF IInv, CopyInv
<1>4. r \in P /\ call.dir \in P /\ call.to \in P
  BY <1>1 DEF IInv, CallInv, P
<1>q. QED BY <1>1, <1>2, <1>3, <1>4

\* What is put in the place of one file disturbs neither the source, nor the place of
\* another file, nor the rest of the disk.
LEMMA PutBeside ==
    ASSUME IInv, call.op = "copy", Beside, NEW p \in VisibleFiles,
           UNCHANGED <<folders, call, before>>,
           DOMAIN files \subseteq DOMAIN files',
           DOMAIN files' \subseteq DOMAIN files \cup {Place(p)},
           \A q \in DOMAIN files : q # Place(p) => files'[q] = files[q]
    PROVE  /\ \A q \in DOMAIN files' \cup DOMAIN before.files :
                  Within(call.dir, q) =>
                      /\ q \in DOMAIN files' /\ q \in DOMAIN before.files
                      /\ files'[q] = before.files[q]
           /\ \A q \in folders' : Within(call.dir, q) => q \in before.folders
           /\ \A r \in VisibleFiles :
                  r # p => (Copied(r) => Copied(r)') /\ (AsBefore(r) => AsBefore(r)')
           /\ \A q \in DOMAIN files' \cup DOMAIN before.files :
                  \/ \E r \in VisibleFiles : q = Place(r)
                  \/ /\ q \in DOMAIN files' /\ q \in DOMAIN before.files
                     /\ files'[q] = before.files[q]
<1>1. \A r : Place(r) = To(call.to, call.dir, r)
  BY DEF Place, To
<1>2. ~ Within(call.dir, Place(p))
  BY <1>1, SourceIs, PlaceBeside DEF Beside
<1>3. \A q \in DOMAIN files' \cup DOMAIN before.files :
          Within(call.dir, q) =>
              /\ q \in DOMAIN files' /\ q \in DOMAIN before.files
              /\ files'[q] = before.files[q]
  BY <1>2 DEF IInv, CopyInv
<1>4. \A q \in folders' : Within(call.dir, q) => q \in before.folders
  BY DEF IInv, CopyInv
<1>5. ASSUME NEW r \in VisibleFiles, r # p
      PROVE  (Copied(r) => Copied(r)') /\ (AsBefore(r) => AsBefore(r)')
  <2>1. Place(r) # Place(p)
    BY <1>1, <1>5, SourceIs, PlaceOnce
  <2>2. Place(r)' = Place(r)
    BY DEF Place, Rest
  <2>3. ASSUME Copied(r) PROVE Copied(r)'
    BY <2>1, <2>2, <2>3 DEF Copied
  <2>4. ASSUME AsBefore(r) PROVE AsBefore(r)'
    BY <2>1, <2>2, <2>4 DEF AsBefore
  <2>q. QED BY <2>3, <2>4
<1>6. ASSUME NEW q \in DOMAIN files' \cup DOMAIN before.files, q # Place(p)
      PROVE  \/ \E r \in VisibleFiles : q = Place(r)
             \/ /\ q \in DOMAIN files' /\ q \in DOMAIN before.files
                /\ files'[q] = before.files[q]
  <2>1. CopiesAll /\ ~ Under(call.to, call.dir)
    BY DEF IInv, CopyInv, Beside
  <2>2. q \in DOMAIN files \cup DOMAIN before.files
    BY <1>6
  <2>3. \/ \E r \in VisibleFiles : q = Place(r)
        \/ /\ q \in DOMAIN files /\ q \in DOMAIN before.files
           /\ files[q] = before.files[q]
    BY <2>1, <2>2 DEF CopiesAll
  <2>q. QED BY <1>6, <2>3
<1>q. QED BY <1>3, <1>4, <1>5, <1>6

LEMMA OpenCopyKeeps ==
    ASSUME IInv, NEW p \in todo, OpenCopy(p)
    PROVE  IInv'
<1>1. /\ state = "walk" /\ p \in DOMAIN files /\ todo' = todo \ {p} /\ call.op = "copy"
      /\ UNCHANGED <<folders, call, before, at, list, dump>>
      /\ \/ state' = "failed" /\ files' = files
         \/ /\ Place(p) \notin folders /\ files' = Put(Place(p), Cut)
            /\ state' = "write" /\ open' = p
  BY DEF OpenCopy, Take, Fails
<1>2. Walking /\ TreeInv /\ Flags
  BY <1>1, InWalk
<1>3. /\ p \in P /\ Parent(p) = at /\ Under(call.dir, p) /\ ~ HiddenIn(call.dir, p)
      /\ p \in Paths
  BY <1>1, <1>2, WalkIs
<1>4. Place(p) \in P /\ Place(p) # Root /\ Parent(Place(p)) \in folders
  BY <1>1, <1>3, PlaceTaken
<1>5. /\ TreeInv'
      /\ DOMAIN files \subseteq DOMAIN files'
      /\ DOMAIN files' \subseteq DOMAIN files \cup {Place(p)}
      /\ \A q \in DOMAIN files : q # Place(p) => files'[q] = files[q]
      /\ Place(p) \notin folders \/ files' = files
      /\ state' = "write" => Place(p) \in DOMAIN files'
  <2>1. CASE files' = files /\ state' = "failed"
    BY <1>1, <1>2, <2>1 DEF TreeInv, Paths
  <2>2. CASE Place(p) \notin folders /\ state' = "write" /\ files' = Put(Place(p), Cut)
    BY <1>1, <1>2, <1>4, <2>2, PutTree
  <2>q. QED BY <1>1, <2>1, <2>2
<1>6. TypeOK'
  <2>1. Flags'
    BY <1>1 DEF Flags
  <2>q. QED BY <1>5, <2>1, TypeIsNext
<1>7. CallInv'
  BY <1>1, CallKeeps DEF IInv
<1>8. WalkInv'
  BY <1>1, <1>2, <1>5, WalkTake
<1>9. CopyInv'
  <2>1. VisibleFiles' = VisibleFiles /\ (Beside' <=> Beside) /\ \A r : Place(r)' = Place(r)
    BY <1>1, SameCall DEF Beside, Within, Under, Place, Rest
  <2>2. /\ Place(at)' \in folders' /\ before'.folders \subseteq folders'
        /\ ~ Within(call.dir, call.to)
    <3>1. Place(at)' = Place(at)
      BY <1>1 DEF Place, Rest
    <3>q. QED BY <1>1, <3>1 DEF IInv, CopyInv
  <2>3. state' = "write" =>
            /\ open' \in DOMAIN files' /\ Place(open)' \in DOMAIN files'
            /\ Under(call'.dir, open') /\ ~ HiddenIn(call'.dir, open')
    <3>1. ASSUME state' = "write" PROVE Place(open)' = Place(p)
      BY <1>1, <3>1 DEF Place, Rest
    <3>q. QED BY <1>1, <1>3, <1>5, <3>1
  <2>4. ASSUME Beside
        PROVE  /\ CopiesAll'
               /\ \A q \in DOMAIN files' \cup DOMAIN before.files :
                      Within(call.dir, q) =>
                          /\ q \in DOMAIN files' /\ q \in DOMAIN before.files
                          /\ files'[q] = before.files[q]
               /\ \A q \in folders' : Within(call.dir, q) => q \in before.folders
               /\ InTree' => \A r \in VisibleFiles :
                      \/ Copied(r)' \/ (Ahead(r)' /\ AsBefore(r)')
                      \/ state' = "write" /\ r = open'
    <3>1. p \in VisibleFiles
      <4>1. p \in DOMAIN before.files
        BY <1>1, <1>3, <2>4 DEF IInv, CopyInv, Within
      <4>q. QED BY <1>3, <4>1, VisibleIs
    <3>2. /\ \A q \in DOMAIN files' \cup DOMAIN before.files :
                 Within(call.dir, q) =>
                     /\ q \in DOMAIN files' /\ q \in DOMAIN before.files
                     /\ files'[q] = before.files[q]
          /\ \A q \in folders' : Within(call.dir, q) => q \in before.folders
          /\ \A r \in VisibleFiles :
                 r # p => (Copied(r) => Copied(r)') /\ (AsBefore(r) => AsBefore(r)')
          /\ \A q \in DOMAIN files' \cup DOMAIN before.files :
                 \/ \E r \in VisibleFiles : q = Place(r)
                 \/ /\ q \in DOMAIN files' /\ q \in DOMAIN before.files
                    /\ files'[q] = before.files[q]
      BY <1>1, <1>5, <2>4, <3>1, PutBeside
    <3>3. \A r \in VisibleFiles : Copied(r) \/ (Ahead(r) /\ AsBefore(r))
      BY <1>1, <1>2, <2>4 DEF IInv, CopyInv, Walking
    <3>4. ASSUME NEW r \in VisibleFiles, r # p
          PROVE  Copied(r)' \/ (Ahead(r)' /\ AsBefore(r)')
      <4>1. r \in Paths
        BY <1>1, <2>4, SourceIs DEF Paths
      <4>2. Ahead(r)' <=> Ahead(r)
        BY <1>1, <1>2, <3>4, <4>1, AheadTake
      <4>q. QED BY <3>2, <3>3, <3>4, <4>2
    <3>5. \/ state' = "write" /\ p = open'
          \/ state' = "failed" /\ (Copied(p)' \/ AsBefore(p)')
      <4>1. CASE files' = files /\ state' = "failed"
        BY <1>1, <2>1, <3>1, <3>3, <4>1 DEF Copied, AsBefore
      <4>q. QED BY <1>1, <4>1
    <3>6. CopiesAll'
      <4>1. \A r \in VisibleFiles :
                \/ Copied(r)'
                \/ state' # "ok" /\ state' = "write" /\ r = open'
                \/ state' # "ok" /\ AsBefore(r)'
        BY <1>1, <3>4, <3>5
      <4>q. QED BY <1>1, <2>1, <2>2, <3>2, <4>1 DEF CopiesAll, Copied, AsBefore
    <3>7. InTree' => \A r \in VisibleFiles :
              \/ Copied(r)' \/ (Ahead(r)' /\ AsBefore(r)')
              \/ state' = "write" /\ r = open'
      BY <3>4, <3>5 DEF InTree
    <3>q. QED BY <3>2, <3>6, <3>7
  <2>q. QED BY <1>1, <2>1, <2>2, <2>3, <2>4 DEF CopyInv
<1>10. ListInv' /\ ZipInv' /\ DeleteInv' /\ MakeInv'
  BY <1>1 DEF ListInv, ZipInv, DeleteInv, MakeInv
<1>q. QED BY <1>6, <1>7, <1>8, <1>9, <1>10 DEF IInv

LEMMA WriteCopyKeeps ==
    ASSUME IInv, WriteCopy
    PROVE  IInv'
<1>0. PICK g : g = open
  OBVIOUS
<1>1. /\ state = "write" /\ UNCHANGED <<folders, call, before, at, todo, list, dump>>
      /\ \/ state' = "walk" /\ files' = Put(Place(g), files[g])
         \/ state' = "failed" /\ fault' = {Place(g)} /\ files' = files
  BY <1>0 DEF WriteCopy, Fails
<1>2. /\ call.op = "copy" /\ InTree /\ TypeOK /\ TreeInv
      /\ g \in DOMAIN files /\ Place(g) \in DOMAIN files /\ Place(at) \in folders
      /\ Under(call.dir, g) /\ ~ HiddenIn(call.dir, g)
  BY <1>0, <1>1, TypeIs DEF IInv, CallInv, CopyInv, InTree
<1>3. /\ DOMAIN files' = DOMAIN files
      /\ \A q \in DOMAIN files : q # Place(g) => files'[q] = files[q]
      /\ state' = "walk" => files'[Place(g)] = files[g]
  BY <1>1, <1>2 DEF Put
<1>4. TypeOK'
  <2>1. TreeInv' /\ Flags'
    BY <1>1, <1>2, <1>3, TypeIs DEF TreeInv, Flags, Paths
  <2>q. QED BY <2>1, TypeIsNext
<1>5. CallInv'
  BY <1>1, <1>2, CallKeeps DEF IInv
<1>6. WalkInv'
  BY <1>1, <1>2, <1>3 DEF IInv, WalkInv, Paths, Within, Under, HiddenIn
<1>7. CopyInv'
  <2>1. /\ VisibleFiles' = VisibleFiles /\ (Beside' <=> Beside) /\ Place(at)' = Place(at)
        /\ \A r : Place(r)' = Place(r)
        /\ \A r : Ahead(r)' <=> Ahead(r)
    BY <1>1, SameCall DEF Beside, Within, Under, Place, Rest, Ahead
  <2>2. Place(at)' \in folders' /\ before'.folders \subseteq folders' /\ ~ Within(call.dir, call.to)
    BY <1>1, <1>2, <2>1 DEF IInv, CopyInv
  <2>3. ASSUME Beside
        PROVE  /\ CopiesAll'
               /\ \A q \in DOMAIN files' \cup DOMAIN before.files :
                      Within(call.dir, q) =>
                          /\ q \in DOMAIN files' /\ q \in DOMAIN before.files
                          /\ files'[q] = before.files[q]
               /\ \A q \in folders' : Within(call.dir, q) => q \in before.folders
               /\ state' = "walk" => \A r \in VisibleFiles :
                      Copied(r)' \/ (Ahead(r)' /\ AsBefore(r)')
    <3>1. g \in VisibleFiles
      <4>1. g \in DOMAIN before.files
        BY <1>2, <2>3 DEF IInv, CopyInv, Within
      <4>q. QED BY <1>2, <4>1, VisibleIs
    <3>2. /\ \A q \in DOMAIN files' \cup DOMAIN before.files :
                 Within(call.dir, q) =>
                     /\ q \in DOMAIN files' /\ q \in DOMAIN before.files
                     /\ files'[q] = before.files[q]
          /\ \A q \in folders' : Within(call.dir, q) => q \in before.folders
          /\ \A r \in VisibleFiles :
                 r # g => (Copied(r) => Copied(r)') /\ (AsBefore(r) => AsBefore(r)')
          /\ \A q \in DOMAIN files' \cup DOMAIN before.files :
                 \/ \E r \in VisibleFiles : q = Place(r)
                 \/ /\ q \in DOMAIN files' /\ q \in DOMAIN before.files
                    /\ files'[q] = before.files[q]
      BY <1>1, <1>2, <1>3, <2>3, <3>1, PutBeside
    <3>3. \A r \in VisibleFiles : r # g => Copied(r) \/ (Ahead(r) /\ AsBefore(r))
      BY <1>0, <1>2, <2>3 DEF IInv, CopyInv
    <3>4. state' = "walk" => Copied(g)'
      <4>1. files[g] = before.files[g]
        BY <1>2, <2>3, <3>1, SourceIs
      <4>q. QED BY <1>1, <1>2, <1>3, <2>1, <4>1 DEF Copied
    <3>5. CopiesAll'
      <4>1. \A r \in VisibleFiles :
                \/ Copied(r)'
                \/ state' # "ok" /\ Place(r) \in fault'
                \/ state' # "ok" /\ AsBefore(r)'
        BY <1>1, <3>2, <3>3, <3>4
      <4>q. QED BY <1>1, <2>1, <2>2, <3>2, <4>1 DEF CopiesAll, Copied, AsBefore
    <3>6. state' = "walk" =>
              \A r \in VisibleFiles : Copied(r)' \/ (Ahead(r)' /\ AsBefore(r)')
      BY <2>1, <3>2, <3>3, <3>4
    <3>q. QED BY <3>2, <3>5, <3>6
  <2>4. state' # "write" /\ (InTree' => state' = "walk")
    BY <1>1 DEF InTree
  <2>q. QED BY <1>1, <2>1, <2>2, <2>3, <2>4 DEF CopyInv
<1>8. ListInv' /\ ZipInv' /\ DeleteInv' /\ MakeInv'
  BY <1>1, <1>2 DEF ListInv, ZipInv, DeleteInv, MakeInv
<1>q. QED BY <1>4, <1>5, <1>6, <1>7, <1>8 DEF IInv

LEMMA EnterKeeps ==
    ASSUME IInv, NEW p \in todo, Enter(p)
    PROVE  IInv'
<1>1. /\ state = "walk" /\ p \in folders /\ Parent(p) = at /\ todo \cap DOMAIN files = {}
      /\ at' = p /\ todo' = (todo \ {p}) \cup Entries(p) /\ made' = 0
      /\ state' = IF call.op = "copy" THEN "make" ELSE "walk"
      /\ UNCHANGED <<folders, files, call, before, open, list, dump, fault>>
  BY DEF Enter, disk
<1>2. Walking /\ TreeInv /\ Flags /\ call.op \in {"list", "zip", "delete", "copy"}
  BY <1>1, InWalk DEF Walking, CallInv
<1>3. /\ p \in P /\ p # Root /\ Under(call.dir, p) /\ ~ HiddenIn(call.dir, p)
      /\ call.dir \in P /\ call.to \in P /\ Within(call.dir, p) /\ p \notin DOMAIN files
  BY <1>1, <1>2, WalkIs DEF Within, TreeInv
<1>4. \A r \in Paths : Under(call.dir, r) /\ ~ HiddenIn(call.dir, r) =>
          (Ahead(r)' <=> Ahead(r) /\ r # p)
  BY <1>1, <1>2, AheadEnter
<1>5. VisibleFiles' = VisibleFiles /\ Shallow' = Shallow
  BY <1>1, SameCall
<1>6. TypeOK'
  <2>1. TreeInv' /\ Flags'
    BY <1>1, <1>2 DEF TreeInv, Flags, Paths
  <2>q. QED BY <2>1, TypeIsNext
<1>7. CallInv'
  BY <1>1, <1>2, CallKeeps DEF IInv, CallInv
<1>8. WalkInv'
  BY <1>1, <1>2, WalkEnter
<1>9. ListInv'
  <2>1. CASE call.op \in {"list", "zip"}
    <3>1. files = before.files
      BY <2>1 DEF IInv, ListInv
    <3>2. \A r \in VisibleFiles : Ahead(r)' <=> Ahead(r)
      BY <1>3, <1>4, <3>1, VisibleIs DEF Paths
    <3>3. /\ \A r \in VisibleFiles :
                 Ahead(r)' \/ \E i \in 1 .. Len(list) : list[i] = LastTwo(call.dir, r)
          /\ \A i \in 1 .. Len(list) :
                 \E r \in VisibleFiles : ~ Ahead(r)' /\ list[i] = LastTwo(call.dir, r)
      BY <2>1, <3>2 DEF IInv, ListInv
    <3>4. /\ folders' = before'.folders /\ files' = before'.files /\ state' = "walk"
          /\ list' \in Seq(Seq(Names))
          /\ Shallow => \A i, k \in 1 .. Len(list) : list[i] = list[k] => i = k
      BY <1>1, <2>1 DEF IInv, ListInv
    <3>q. QED BY <1>1, <1>5, <3>3, <3>4 DEF ListInv
  <2>q. QED BY <1>1, <2>1 DEF ListInv
<1>10. ZipInv'
  BY <1>1 DEF IInv, ZipInv
<1>11. DeleteInv'
  <2>1. CASE call.op = "delete"
    <3>1. DeletesAll'
      BY <1>1, <2>1 DEF IInv, DeleteInv, DeletesAll, Under, HiddenIn
    <3>2. ASSUME NEW q \in Paths', Under(call.dir, q)
          PROVE  HiddenIn(call.dir, q) \/ Ahead(q)' \/ Within(q, p)
      <4>1. q \in Paths /\ q \in P
        BY <1>1, <1>2 DEF Paths, TreeInv
      <4>2. HiddenIn(call.dir, q) \/ Ahead(q) \/ Within(q, at)
        BY <1>1, <2>1, <3>2, <4>1 DEF IInv, DeleteInv
      <4>3. Within(q, at) => Within(q, p)
        BY <1>1, <1>3, <4>1, UnderParent DEF Within
      <4>q. QED BY <1>4, <3>2, <4>1, <4>2, <4>3 DEF Within
    <3>3. call'.dir = call.dir /\ call.dir # Root
      BY <1>1, <2>1 DEF IInv, DeleteInv
    <3>q. QED BY <1>1, <3>1, <3>2, <3>3 DEF DeleteInv
  <2>q. QED BY <1>1, <2>1 DEF DeleteInv
<1>12. CopyInv'
  <2>1. CASE call.op = "copy"
    <3>1. (Beside' <=> Beside) /\ \A r : Place(r)' = Place(r)
      BY <1>1 DEF Beside, Within, Under, Place, Rest
    <3>2. before'.folders \subseteq folders' /\ ~ Within(call.dir, call.to)
      BY <1>1, <2>1 DEF IInv, CopyInv
    <3>3. \A r : (Copied(r)' <=> Copied(r)) /\ (AsBefore(r)' <=> AsBefore(r))
      BY <1>1, <3>1 DEF Copied, AsBefore
    <3>4. ASSUME Beside, NEW r \in VisibleFiles
          PROVE  Copied(r)' \/ (Ahead(r)' /\ AsBefore(r)')
      <4>1. Copied(r) \/ (Ahead(r) /\ AsBefore(r))
        BY <1>1, <1>2, <2>1, <3>4 DEF IInv, CopyInv, Walking
      <4>2. r \in DOMAIN files /\ Under(call.dir, r) /\ ~ HiddenIn(call.dir, r)
        BY <2>1, <3>4, SourceIs
      <4>3. Ahead(r)' <=> Ahead(r)
        BY <1>3, <1>4, <4>2 DEF Paths
      <4>q. QED BY <3>3, <4>1, <4>3
    <3>5. ASSUME Beside PROVE CopiesAll'
      <4>1. CopiesAll /\ ~ Under(call.to, call.dir)
        BY <2>1, <3>5 DEF IInv, CopyInv, Beside
      <4>2. \A q \in DOMAIN files' \cup DOMAIN before.files :
                \/ \E r \in VisibleFiles : q = Place(r)
                \/ /\ q \in DOMAIN files' /\ q \in DOMAIN before.files
                   /\ files'[q] = before.files[q]
        BY <1>1, <2>1, <4>1 DEF CopiesAll
      <4>q. QED BY <1>1, <1>5, <3>1, <3>2, <3>4, <3>5, <4>2 DEF CopiesAll, Copied, AsBefore
    <3>6. ASSUME Beside
          PROVE  /\ \A q \in DOMAIN files' \cup DOMAIN before.files :
                        Within(call.dir, q) =>
                            /\ q \in DOMAIN files' /\ q \in DOMAIN before.files
                            /\ files'[q] = before.files[q]
                 /\ \A q \in folders' : Within(call.dir, q) => q \in before.folders
      BY <1>1, <2>1, <3>6 DEF IInv, CopyInv
    <3>q. QED BY <1>1, <1>5, <2>1, <3>1, <3>2, <3>4, <3>5, <3>6 DEF CopyInv
  <2>q. QED BY <1>1, <2>1 DEF CopyInv
<1>13. MakeInv'
  <2>1. CASE call.op = "copy"
    <3>1. Place(at)' = To(call.to, call.dir, p)
      BY <1>1 DEF Place, To
    <3>2. Place(at)' \in P /\ Len(Place(at)') \in Nat
      <4>1. To(call.to, call.dir, p) \in P
        BY <1>3, PlaceIs
      <4>q. QED BY <3>1, <4>1, Lengths
    <3>q. QED BY <1>1, <2>1, <3>2 DEF MakeInv, P
  <2>q. QED BY <1>1, <1>2, <2>1 DEF MakeInv
<1>q. QED BY <1>6, <1>7, <1>8, <1>9, <1>10, <1>11, <1>12, <1>13 DEF IInv

\* A folder of the path is made, is there, cannot be made, or is let down on.
LEMMA MakeNextKeeps ==
    ASSUME IInv, MakeNext
    PROVE  IInv'
<1>1. PICK t, n : t = Place(at) /\ n = made
  OBVIOUS
<1>2. /\ state = "make" /\ n < Len(t) /\ made' = n + 1 /\ n \in Nat /\ t \in P
      /\ UNCHANGED <<files, call, before, state, at, todo, open, list, dump>>
      /\ Place(at)' = t
  BY <1>1 DEF MakeNext, IInv, MakeInv, P, Place, Rest
<1>3. TreeInv /\ Flags /\ call.op \in {"copy", "mkdir"} /\ Len(t) \in Nat
  BY <1>2, TypeIs, Lengths DEF IInv, CallInv
<1>4. PICK p \in P : /\ p = SubSeq(t, 1, n + 1) /\ Len(p) = n + 1 /\ p # Root
                     /\ \A i \in 1 .. n + 1 : p[i] = t[i]
  <2>1. n + 1 \in 0 .. Len(t)
    BY <1>2, <1>3
  <2>2. /\ SubSeq(t, 1, n + 1) \in P /\ Len(SubSeq(t, 1, n + 1)) = n + 1
        /\ \A i \in 1 .. n + 1 : SubSeq(t, 1, n + 1)[i] = t[i]
    BY <1>2, <2>1, Beginning
  <2>3. SubSeq(t, 1, n + 1) # Root
    BY <1>2, <2>2, Lengths
  <2>q. QED BY <2>2, <2>3
<1>5. \/ CanMake(p) /\ folders' = folders \cup {p} /\ fault' = fault
      \/ folders' = folders /\ fault' = IF CanMake(p) THEN fault \cup {p} ELSE fault
  BY <1>1, <1>4 DEF MakeNext
<1>6. Within(p, t)
  <2>1. CASE Len(p) = Len(t)
    BY <1>2, <1>4, <2>1, PathIs DEF Within
  <2>2. CASE Len(p) # Len(t)
    <3>1. Len(p) < Len(t) /\ \A i \in 1 .. Len(p) : p[i] = t[i]
      BY <1>2, <1>3, <1>4, <2>2
    <3>q. QED BY <1>2, <3>1, UnderIs DEF Within
  <2>q. QED BY <2>1, <2>2
<1>7. TreeInv' /\ folders \subseteq folders' /\ folders' \subseteq folders \cup {p}
  <2>1. CASE CanMake(p) /\ folders' = folders \cup {p}
    BY <1>2, <1>3, <2>1, MakeTree
  <2>2. CASE folders' = folders
    BY <1>2, <1>3, <2>2 DEF TreeInv, Paths
  <2>q. QED BY <1>5, <2>1, <2>2
<1>8. TypeOK'
  <2>1. Flags'
    BY <1>2, <1>3 DEF Flags
  <2>q. QED BY <1>7, <2>1, TypeIsNext
<1>9. CallInv'
  BY <1>2, <1>3, CallKeeps DEF IInv, CallInv
<1>10. WalkInv'
  BY <1>2, <1>7 DEF IInv, WalkInv, InTree, Paths, Within, Under, HiddenIn
<1>11. ListInv' /\ ZipInv' /\ DeleteInv'
  BY <1>2, <1>3 DEF ListInv, ZipInv, DeleteInv
<1>12. CASE call.op = "copy"
  <2>1. /\ VisibleFiles' = VisibleFiles /\ (Beside' <=> Beside)
        /\ \A r : Place(r)' = Place(r)
        /\ \A r : Ahead(r)' <=> Ahead(r)
    BY <1>2, SameCall DEF Beside, Within, Under, Place, Rest, Ahead
  <2>2. \A r : (Copied(r)' <=> Copied(r)) /\ (AsBefore(r)' <=> AsBefore(r))
    BY <1>2, <2>1 DEF Copied, AsBefore
  <2>3. before'.folders \subseteq folders' /\ ~ Within(call.dir, call.to)
    BY <1>2, <1>7, <1>12 DEF IInv, CopyInv
  <2>4. ASSUME Beside, NEW q \in folders', Within(call.dir, q) PROVE q \in before.folders
    <3>1. ASSUME q = p PROVE FALSE
      <4>1. /\ call.dir \in P /\ call.to \in P /\ at \in P /\ Within(call.dir, at)
        BY <1>2, <1>3, <1>12 DEF IInv, CallInv, WalkInv, InTree, TreeInv, P
      <4>2. t = To(call.to, call.dir, at)
        BY <1>1 DEF Place, To
      <4>3. ~ Within(call.dir, t)
        BY <2>4, <4>1, <4>2, PlaceBeside DEF Beside
      <4>q. QED BY <1>2, <1>6, <2>4, <3>1, <4>1, <4>3, UnderTrans DEF Within
    <3>q. QED BY <1>7, <1>12, <2>4, <3>1 DEF IInv, CopyInv
  <2>5. ASSUME Beside
        PROVE  \A r \in VisibleFiles : Copied(r) \/ (Ahead(r) /\ AsBefore(r))
    BY <1>2, <1>12, <2>5 DEF IInv, CopyInv, InTree
  <2>6. ASSUME Beside PROVE CopiesAll'
    <3>1. CopiesAll /\ ~ Under(call.to, call.dir)
      BY <1>12, <2>6 DEF IInv, CopyInv, Beside
    <3>2. \A q \in DOMAIN files' \cup DOMAIN before.files :
              \/ \E r \in VisibleFiles : q = Place(r)
              \/ /\ q \in DOMAIN files' /\ q \in DOMAIN before.files
                 /\ files'[q] = before.files[q]
      BY <1>2, <1>12, <3>1 DEF CopiesAll
    <3>q. QED BY <1>2, <2>1, <2>2, <2>3, <2>5, <2>6, <3>2 DEF CopiesAll, Copied, AsBefore
  <2>7. ASSUME Beside
        PROVE  \A q \in DOMAIN files' \cup DOMAIN before.files :
                   Within(call.dir, q) =>
                       /\ q \in DOMAIN files' /\ q \in DOMAIN before.files
                       /\ files'[q] = before.files[q]
    BY <1>2, <1>12, <2>7 DEF IInv, CopyInv
  <2>8. CopyInv'
    BY <1>2, <2>1, <2>2, <2>3, <2>4, <2>5, <2>6, <2>7 DEF CopyInv
  <2>9. MakeInv'
    BY <1>2, <1>3, <1>12 DEF MakeInv, P
  <2>q. QED BY <1>8, <1>9, <1>10, <1>11, <2>8, <2>9 DEF IInv
<1>13. CASE call.op = "mkdir"
  <2>1. call.to = call.dir /\ at = call.dir /\ MakesPath /\ t = call.dir
    <3>1. call.to = call.dir /\ at = call.dir /\ MakesPath /\ call.dir \in P
      BY <1>2, <1>13 DEF IInv, MakeInv, CallInv, P
    <3>2. t = To(call.dir, call.dir, call.dir)
      BY <1>1, <3>1 DEF Place, To
    <3>q. QED BY <3>1, <3>2, PlaceTop
  <2>2. MakesPath'
    <3>1. p \in Above(call.dir) \cup {call.dir}
      BY <1>2, <1>6, <2>1, UnderIs DEF Within
    <3>q. QED BY <1>2, <1>7, <1>13, <2>1, <3>1 DEF MakesPath
  <2>3. ASSUME NEW q \in P, Within(q, t), Len(q) <= n + 1
        PROVE  q \in folders' \/ Blocked(q)'
    <3>1. \A r \in P : Within(r, t) /\ Len(r) <= n => r \in folders \/ Blocked(r)
      BY <1>1, <1>2, <1>13, <2>1 DEF IInv, MakeInv, P
    <3>2. \A r : Blocked(r) => Blocked(r)'
      BY <1>2, <1>5 DEF Blocked, Within, Under
    <3>3. CASE Len(q) <= n
      BY <1>7, <2>3, <3>1, <3>2, <3>3
    <3>4. CASE ~ Len(q) <= n
      <4>1. q = p
        <5>1. Len(q) = n + 1
          BY <1>2, <2>3, <3>4, Lengths
        <5>2. \A i \in 1 .. Len(q) : t[i] = q[i]
          BY <1>2, <2>3, WithinIs
        <5>q. QED BY <1>4, <5>1, <5>2, PathIs
      <4>2. CASE CanMake(p)
        BY <1>4, <1>5, <4>1, <4>2 DEF Blocked, Within, P
      <4>3. CASE p \in folders
        BY <1>7, <4>1, <4>3
      <4>4. CASE p \in DOMAIN files
        BY <1>2, <1>4, <4>1, <4>4 DEF Blocked, Within, P
      <4>5. CASE Parent(p) \notin folders
        <5>1. Parent(p) \in P /\ Len(Parent(p)) = n /\ Under(Parent(p), p)
          <6>1. Parent(p) \in P /\ Len(Parent(p)) = Len(p) - 1 /\ Under(Parent(p), p)
            BY <1>4, ParentIs
          <6>q. QED BY <1>2, <1>4, <6>1
        <5>2. Within(Parent(p), t)
          BY <1>2, <1>6, <5>1, UnderTrans DEF Within
        <5>3. Blocked(Parent(p))
          BY <1>2, <3>1, <4>5, <5>1, <5>2
        <5>4. PICK r \in P : r \in DOMAIN files \cup fault /\ Within(r, Parent(p))
          BY <5>3 DEF Blocked, P
        <5>5. Within(r, p)
          BY <1>4, <5>1, <5>4, UnderParent DEF Within
        <5>6. r \in DOMAIN files' \cup fault'
          BY <1>2, <1>5, <5>4
        <5>q. QED BY <4>1, <5>5, <5>6 DEF Blocked, Within, Under, P
      <4>q. QED BY <4>2, <4>3, <4>4, <4>5 DEF CanMake
    <3>q. QED BY <3>3, <3>4
  <2>4. MakeInv'
    BY <1>2, <1>3, <1>13, <2>1, <2>2, <2>3 DEF MakeInv, P
  <2>5. CopyInv'
    BY <1>2, <1>13 DEF CopyInv
  <2>q. QED BY <1>8, <1>9, <1>10, <1>11, <2>4, <2>5 DEF IInv
<1>q. QED BY <1>3, <1>12, <1>13

LEMMA MakeEndsKeeps ==
    ASSUME IInv, MakeEnds
    PROVE  IInv'
<1>1. /\ state = "make" /\ made = Len(Place(at))
      /\ state' \in {"ok", "walk", "crashed"}
      /\ call.op = "mkdir" <=> state' = "ok"
      /\ state' = "walk" => Place(at) \in folders
      /\ UNCHANGED <<folders, files, call, before, at, todo, open, list, dump, fault>>
  BY DEF MakeEnds, disk, copying
<1>2. TreeInv /\ Flags /\ call.op \in {"copy", "mkdir"}
  BY <1>1, TypeIs DEF IInv, CallInv
<1>3. TypeOK'
  <2>1. TreeInv' /\ Flags'
    BY <1>1, <1>2 DEF TreeInv, Flags, Paths
  <2>q. QED BY <2>1, TypeIsNext
<1>4. CallInv'
  BY <1>1, <1>2, CallKeeps DEF IInv, CallInv
<1>5. WalkInv'
  BY <1>1, <1>2 DEF IInv, WalkInv, InTree, Paths, Within, Under, HiddenIn
<1>6. ListInv' /\ ZipInv' /\ DeleteInv'
  BY <1>1, <1>2 DEF ListInv, ZipInv, DeleteInv
<1>7. CopyInv'
  <2>1. CASE call.op = "copy"
    <3>1. /\ VisibleFiles' = VisibleFiles /\ (Beside' <=> Beside) /\ Place(at)' = Place(at)
          /\ \A r : Place(r)' = Place(r)
          /\ \A r : Ahead(r)' <=> Ahead(r)
      BY <1>1, SameCall DEF Beside, Within, Under, Place, Rest, Ahead
    <3>2. \A r : (Copied(r)' <=> Copied(r)) /\ (AsBefore(r)' <=> AsBefore(r))
      BY <1>1, <3>1 DEF Copied, AsBefore
    <3>3. before'.folders \subseteq folders' /\ ~ Within(call.dir, call.to)
      BY <1>1, <2>1 DEF IInv, CopyInv
    <3>4. ASSUME Beside
          PROVE  \A r \in VisibleFiles : Copied(r) \/ (Ahead(r) /\ AsBefore(r))
      BY <1>1, <2>1, <3>4 DEF IInv, CopyInv, InTree
    <3>5. ASSUME Beside PROVE CopiesAll'
      <4>1. CopiesAll /\ ~ Under(call.to, call.dir)
        BY <2>1, <3>5 DEF IInv, CopyInv, Beside
      <4>2. \A q \in DOMAIN files' \cup DOMAIN before.files :
                \/ \E r \in VisibleFiles : q = Place(r)
                \/ /\ q \in DOMAIN files' /\ q \in DOMAIN before.files
                   /\ files'[q] = before.files[q]
        BY <1>1, <2>1, <4>1 DEF CopiesAll
      <4>q. QED BY <1>1, <2>1, <3>1, <3>2, <3>3, <3>4, <3>5, <4>2 DEF CopiesAll, Copied, AsBefore
    <3>6. ASSUME Beside
          PROVE  /\ \A q \in DOMAIN files' \cup DOMAIN before.files :
                        Within(call.dir, q) =>
                            /\ q \in DOMAIN files' /\ q \in DOMAIN before.files
                            /\ files'[q] = before.files[q]
                 /\ \A q \in folders' : Within(call.dir, q) => q \in before.folders
      BY <1>1, <2>1, <3>6 DEF IInv, CopyInv
    <3>q. QED BY <1>1, <2>1, <3>1, <3>2, <3>3, <3>4, <3>5, <3>6 DEF CopyInv
  <2>q. QED BY <1>1, <2>1 DEF CopyInv
<1>8. MakeInv'
  <2>1. CASE call.op = "mkdir"
    <3>1. /\ call.to = call.dir /\ at = call.dir /\ MakesPath /\ call.dir \in P
          /\ \A q \in P : Within(q, call.dir) /\ Len(q) <= made => q \in folders \/ Blocked(q)
      BY <1>1, <2>1 DEF IInv, MakeInv, CallInv, P
    <3>2. made = Len(call.dir)
      <4>1. Place(at) = To(call.dir, call.dir, call.dir)
        BY <3>1 DEF Place, To
      <4>q. QED BY <1>1, <3>1, <4>1, PlaceTop
    <3>3. ASSUME NEW q \in Above(call.dir) \cup {call.dir}
          PROVE  q \in folders \/ (Above(q) \cup {q}) \cap (DOMAIN files \cup fault) # {}
      <4>1. q \in P /\ Within(q, call.dir)
        BY <3>1, <3>3, AbovePaths, UnderIs DEF Within
      <4>2. Len(q) <= Len(call.dir)
        BY <3>1, <4>1, WithinIs
      <4>3. ASSUME Blocked(q) PROVE (Above(q) \cup {q}) \cap (DOMAIN files \cup fault) # {}
        <5>1. PICK r \in P : r \in DOMAIN files \cup fault /\ Within(r, q)
          BY <4>3 DEF Blocked, P
        <5>q. QED BY <4>1, <5>1, UnderIs DEF Within
      <4>q. QED BY <3>1, <3>2, <4>1, <4>2, <4>3
    <3>q. QED BY <1>1, <2>1, <3>1, <3>3 DEF MakeInv, MakesPath
  <2>q. QED BY <1>1, <1>2, <2>1 DEF MakeInv
<1>q. QED BY <1>3, <1>4, <1>5, <1>6, <1>7, <1>8 DEF IInv

LEMMA ReturnKeeps ==
    ASSUME IInv, Return
    PROVE  IInv'
<1>1. /\ state = "walk" /\ \A p \in todo : Parent(p) # at
      /\ call.op = "delete" => ~ Occupied(at) /\ folders' = folders \ {at}
      /\ call.op # "delete" => folders' = folders
      /\ UNCHANGED <<files, call, before, todo, list, dump, fault>>
      /\ at = call.dir => state' = (IF call.op = "zip" THEN "zip" ELSE "ok") /\ at' = at
      /\ at # call.dir => at' = Parent(at) /\ state' = "walk"
  BY DEF Return
<1>2. Walking /\ TreeInv /\ Flags /\ call.op \in {"list", "zip", "delete", "copy"}
  BY <1>1, InWalk DEF Walking, CallInv
<1>3. /\ at \in P /\ at \in folders /\ call.dir \in P /\ call.to \in P
      /\ Within(call.dir, at) /\ ~ HiddenIn(call.dir, at)
  BY <1>2, WalkIs
<1>4. at = call.dir => todo = {}
  BY <1>1, <1>2, WalkOver
<1>5. at # call.dir => Under(call.dir, at) /\ at # Root /\ Parent(at) \in P
  BY <1>3, HiddenLast, ParentIs DEF Within
<1>6. call.op = "delete" => TreeInv' /\ \A p \in Paths : ~ Under(at, p)
  <2>1. call.op = "delete" => at # Root
    BY <1>3, <1>5 DEF IInv, DeleteInv
  <2>q. QED BY <1>1, <1>2, <1>3, <2>1, RmDirTree
<1>7. TypeOK'
  <2>1. TreeInv'
    BY <1>1, <1>2, <1>6 DEF TreeInv, Paths
  <2>2. Flags'
    BY <1>1, <1>2 DEF Flags
  <2>q. QED BY <2>1, <2>2, TypeIsNext
<1>8. CallInv'
  BY <1>1, <1>2, CallKeeps DEF IInv
<1>9. WalkInv'
  <2>1. CASE at = call.dir
    BY <1>1, <2>1 DEF WalkInv, InTree
  <2>2. CASE at # call.dir
    <3>1. \A q \in folders : q = at \/ q \in folders'
      BY <1>1
    <3>q. QED BY <1>1, <1>2, <2>2, <3>1, WalkReturn
  <2>q. QED BY <2>1, <2>2
<1>10. VisibleFiles' = VisibleFiles /\ Shallow' = Shallow /\ \A r : Ahead(r)' <=> Ahead(r)
  BY <1>1, SameCall DEF Ahead
<1>11. ListInv'
  <2>1. CASE call.op \in {"list", "zip"}
    <3>1. folders' = before.folders /\ files' = before.files
      BY <1>1, <2>1 DEF IInv, ListInv
    <3>2. state' \in {"zip", "ok"} => todo' = {}
      BY <1>1, <1>4
    <3>3. /\ list \in Seq(Seq(Names))
          /\ \A r \in VisibleFiles :
                 Ahead(r) \/ \E i \in 1 .. Len(list) : list[i] = LastTwo(call.dir, r)
          /\ \A i \in 1 .. Len(list) :
                 \E r \in VisibleFiles : ~ Ahead(r) /\ list[i] = LastTwo(call.dir, r)
          /\ Shallow => \A i, k \in 1 .. Len(list) : list[i] = list[k] => i = k
      BY <2>1 DEF IInv, ListInv
    <3>q. QED BY <1>1, <1>10, <3>1, <3>2, <3>3 DEF ListInv
  <2>q. QED BY <1>1, <2>1 DEF ListInv
<1>12. ZipInv'
  <2>1. CASE call.op = "zip"
    <3>1. dump = << >> /\ Len(dump) = 0 /\ Len(list) \in Nat
      BY <1>1, <2>1 DEF IInv, ZipInv, ListInv
    <3>2. dump' \in Seq([name : Seq(Names), content : {Cut} \cup {files'[p] : p \in DOMAIN files'}])
      BY <1>1, <2>1 DEF IInv, ZipInv
    <3>q. QED BY <1>1, <2>1, <3>1, <3>2 DEF ZipInv
  <2>q. QED BY <1>1, <2>1 DEF ZipInv
<1>13. DeleteInv'
  <2>1. CASE call.op = "delete"
    <3>1. DeletesAll /\ call.dir # Root
      BY <2>1 DEF IInv, DeleteInv
    <3>2. Paths' = Paths \ {at}
      BY <1>1, <1>2, <1>3, <2>1 DEF Paths, TreeInv
    <3>3. DeletesAll'
      <4>1. folders' \cup DOMAIN files' \subseteq before.folders \cup DOMAIN before.files
        BY <1>1, <2>1, <3>1 DEF DeletesAll
      <4>2. \A q \in DOMAIN files' : files'[q] = before.files[q]
        BY <1>1, <2>1, <3>1 DEF DeletesAll
      <4>3. \A q \in (before.folders \cup DOMAIN before.files) \ (folders' \cup DOMAIN files') :
                (q = call.dir \/ Under(call.dir, q)) /\ ~ HiddenIn(call.dir, q)
        BY <1>1, <1>3, <2>1, <3>1 DEF DeletesAll, Within
      <4>4. state' = "ok" =>
                \A q \in folders' \cup DOMAIN files' : q # call.dir /\ ~ Under(call.dir, q)
        BY <1>1, <1>6, <2>1, <3>2 DEF Paths
      <4>5. state' # "failed"
        BY <1>1
      <4>q. QED BY <1>1, <4>1, <4>2, <4>3, <4>4, <4>5 DEF DeletesAll
    <3>4. ASSUME state' = "walk", NEW q \in Paths', Under(call.dir, q)
          PROVE  HiddenIn(call.dir, q) \/ Ahead(q)' \/ Within(q, at')
      <4>1. q \in Paths /\ q # at /\ q \in P
        BY <1>2, <3>2, <3>4 DEF Paths, TreeInv
      <4>2. HiddenIn(call.dir, q) \/ Ahead(q) \/ Within(q, at)
        BY <1>1, <2>1, <3>4, <4>1 DEF IInv, DeleteInv
      <4>3. at # call.dir
        BY <1>1, <2>1, <3>4
      <4>4. Within(q, at) => Within(q, Parent(at))
        BY <1>3, <1>5, <4>1, <4>3, UnderParent DEF Within
      <4>q. QED BY <1>1, <1>10, <4>2, <4>3, <4>4
    <3>q. QED BY <1>1, <3>1, <3>3, <3>4 DEF DeleteInv
  <2>q. QED BY <1>1, <2>1 DEF DeleteInv
<1>14. CopyInv'
  <2>1. CASE call.op = "copy"
    <3>1. (Beside' <=> Beside) /\ \A r : Place(r)' = Place(r)
      BY <1>1 DEF Beside, Within, Under, Place, Rest
    <3>2. state' = "walk" => Place(at)' \in folders'
      <4>1. ASSUME state' = "walk" PROVE Place(Parent(at)) \in folders
        <5>1. at # call.dir
          BY <1>1, <2>1, <4>1
        <5>2. \A r : Place(r) = To(call.to, call.dir, r)
          BY DEF Place, To
        <5>3. Place(at) \in folders
          BY <1>1, <2>1 DEF IInv, CopyInv
        <5>4. /\ Within(call.dir, Parent(at)) /\ Place(at) # Root
              /\ Parent(Place(at)) = Place(Parent(at))
          BY <1>3, <1>5, <5>1, <5>2, PlaceParent
        <5>5. Place(at) \in P
          BY <1>3, <5>2, PlaceIs
        <5>6. Parent(Place(at)) \in P /\ Under(Parent(Place(at)), Place(at))
          BY <5>4, <5>5, ParentIs
        <5>q. QED BY <1>2, <5>3, <5>4, <5>6 DEF TreeInv, Paths
      <4>2. ASSUME state' = "walk" PROVE Place(at)' = Place(Parent(at))
        BY <1>1, <2>1, <4>2 DEF Place, Rest
      <4>q. QED BY <1>1, <2>1, <4>1, <4>2
    <3>3. before'.folders \subseteq folders' /\ ~ Within(call.dir, call.to)
      BY <1>1, <2>1 DEF IInv, CopyInv
    <3>4. \A r : (Copied(r)' <=> Copied(r)) /\ (AsBefore(r)' <=> AsBefore(r))
      BY <1>1, <3>1 DEF Copied, AsBefore
    <3>5. ASSUME Beside PROVE CopiesAll'
      <4>1. \A r \in VisibleFiles : Copied(r) \/ (state' # "ok" /\ AsBefore(r))
        <5>1. \A r \in VisibleFiles : Copied(r) \/ (Ahead(r) /\ AsBefore(r))
          BY <1>1, <1>2, <2>1, <3>5 DEF IInv, CopyInv, Walking
        <5>2. state' = "ok" => \A r : ~ Ahead(r)
          BY <1>1, <1>4 DEF Ahead
        <5>q. QED BY <5>1, <5>2
      <4>2. \A q \in DOMAIN files \cup DOMAIN before.files :
                \/ \E r \in VisibleFiles : q = Place(r)
                \/ /\ q \in DOMAIN files /\ q \in DOMAIN before.files
                   /\ files[q] = before.files[q]
        BY <2>1, <3>5 DEF IInv, CopyInv, CopiesAll, Beside
      <4>q. QED BY <1>1, <1>10, <3>1, <3>3, <4>1, <4>2 DEF CopiesAll, Copied, AsBefore
    <3>6. ASSUME Beside
          PROVE  /\ \A q \in DOMAIN files \cup DOMAIN before.files :
                        Within(call.dir, q) =>
                            /\ q \in DOMAIN files /\ q \in DOMAIN before.files
                            /\ files[q] = before.files[q]
                 /\ \A q \in folders : Within(call.dir, q) => q \in before.folders
                 /\ \A r \in VisibleFiles : Copied(r) \/ (Ahead(r) /\ AsBefore(r))
      BY <1>1, <1>2, <2>1, <3>6 DEF IInv, CopyInv, Walking
    <3>q. QED BY <1>1, <1>10, <2>1, <3>1, <3>2, <3>3, <3>4, <3>5, <3>6 DEF CopyInv
  <2>q. QED BY <1>1, <2>1 DEF CopyInv
<1>15. MakeInv'
  BY <1>1, <1>2 DEF MakeInv
<1>q. QED BY <1>7, <1>8, <1>9, <1>11, <1>12, <1>13, <1>14, <1>15 DEF IInv

\* rmdir fails for an entry that the loop has passed over, which is hidden, or on the
\* folder itself.
LEMMA RmDirFailsKeeps ==
    ASSUME IInv, RmDirFails
    PROVE  IInv'
<1>1. /\ state = "walk" /\ \A p \in todo : Parent(p) # at
      /\ call.op = "delete" /\ state' = "failed"
      /\ fault' = IF Occupied(at) THEN {} ELSE {at}
      /\ UNCHANGED <<folders, files, call, before, at, todo, list, dump>>
  BY DEF RmDirFails, disk
<1>2. Walking /\ TreeInv /\ Flags
  BY <1>1, InWalk
<1>3. /\ at \in P /\ at \in folders /\ call.dir \in P /\ Within(call.dir, at)
      /\ call.dir \in folders
  BY <1>2, WalkIs DEF TreeInv, Paths, Within
<1>4. \E c \in Paths : Within(call.dir, c) /\ (HiddenIn(call.dir, c) \/ c \in fault')
  <2>1. CASE ~ Occupied(at)
    BY <1>1, <1>3, <2>1 DEF Paths
  <2>2. CASE Occupied(at)
    <3>1. PICK c \in Paths : c # Root /\ Parent(c) = at
      BY <2>2 DEF Occupied, Paths
    <3>2. c \in P /\ Under(at, c) /\ Under(call.dir, c)
      <4>1. c \in P
        BY <1>2 DEF TreeInv, Paths
      <4>2. Under(at, c)
        BY <3>1, <4>1, ParentIs
      <4>q. QED BY <1>3, <4>1, <4>2, UnderTrans DEF Within
    <3>3. HiddenIn(call.dir, c) \/ Ahead(c) \/ Within(c, at)
      BY <1>1, <3>2 DEF IInv, DeleteInv
    <3>4. ~ Within(c, at)
      BY <1>3, <3>2, NotBoth
    <3>5. ASSUME NEW q \in todo, Within(q, c) PROVE FALSE
      <4>1. q # c /\ q \in P /\ ~ Within(q, at)
        BY <1>1, <1>2, <3>1, WalkIs
      <4>q. QED BY <3>1, <3>2, <3>5, <4>1, UnderParent DEF Within
    <3>q. QED BY <3>2, <3>3, <3>4, <3>5 DEF Ahead, Within
  <2>q. QED BY <2>1, <2>2
<1>5. TypeOK'
  <2>1. TreeInv' /\ Flags'
    BY <1>1, <1>2 DEF TreeInv, Flags, Paths
  <2>q. QED BY <2>1, TypeIsNext
<1>6. CallInv'
  BY <1>1, CallKeeps DEF IInv
<1>7. DeleteInv'
  <2>1. DeletesAll /\ call.dir # Root
    BY <1>1 DEF IInv, DeleteInv
  <2>2. PICK c \in Paths : Within(call.dir, c) /\ (HiddenIn(call.dir, c) \/ c \in fault')
    BY <1>4
  <2>3. DeletesAll'
    BY <1>1, <2>1, <2>2 DEF DeletesAll, Paths, Within
  <2>q. QED BY <1>1, <2>1, <2>3 DEF DeleteInv
<1>8. WalkInv' /\ ListInv' /\ ZipInv' /\ CopyInv' /\ MakeInv'
  BY <1>1 DEF WalkInv, InTree, ListInv, ZipInv, CopyInv, MakeInv
<1>q. QED BY <1>5, <1>6, <1>7, <1>8 DEF IInv

\* A name that was told in a shallow folder is the path of a visible file.
LEMMA ToldShallow ==
    ASSUME IInv, call.op \in {"list", "zip"}, Shallow, NEW i \in 1 .. Len(list)
    PROVE  call.dir \o list[i] \in VisibleFiles /\ call.dir \o list[i] \in DOMAIN files
<1>1. PICK r \in VisibleFiles : list[i] = LastTwo(call.dir, r)
  BY DEF IInv, ListInv
<1>2. r \in P /\ call.dir \in P /\ Under(call.dir, r) /\ r \in DOMAIN files
  BY VisibleIs DEF IInv, CallInv, ListInv, P
<1>3. Len(r) <= Len(call.dir) + 2
  BY DEF Shallow
<1>4. call.dir \o LastTwo(call.dir, r) = r
  BY <1>2, <1>3, ToldFile
<1>q. QED BY <1>1, <1>2, <1>4

LEMMA AddEntryKeeps ==
    ASSUME IInv, AddEntry
    PROVE  IInv'
<1> DEFINE name == list[Len(dump) + 1]
<1> DEFINE file == call.dir \o name
<1>1. /\ state = "zip" /\ Len(dump) < Len(list) /\ call.op = "zip"
      /\ UNCHANGED <<folders, files, call, before, at, todo, list>>
      /\ \/ /\ file \in DOMAIN files /\ state' = state
            /\ dump' = Append(dump, Entry(name, files[file]))
         \/ /\ state' = "failed" /\ fault' = {file} \cap DOMAIN files
            /\ dump' = Append(dump, Entry(name, Cut))
  BY DEF AddEntry, Goes, disk, IInv, CallInv
<1>2. PICK n \in Nat, m \in Nat : n = Len(dump) /\ m = Len(list) /\ n < m
  BY <1>1 DEF IInv, ListInv, ZipInv
<1>3. name \in Seq(Names) /\ n + 1 \in 1 .. m /\ name = list[n + 1]
  <2>1. list \in Seq(Seq(Names))
    BY <1>1 DEF IInv, ListInv
  <2>2. n + 1 \in 1 .. m
    BY <1>2
  <2>q. QED BY <1>2, <2>1, <2>2
<1> DEFINE E == [name : Seq(Names), content : {Cut} \cup {files[p] : p \in DOMAIN files}]
<1>4. dump \in Seq(E) /\ E' = E
  BY <1>1 DEF IInv, ZipInv
<1>5. PICK e \in E : /\ dump' = Append(dump, e)
                     /\ state' = "zip" => file \in DOMAIN files /\ e = Entry(name, files[file])
  BY <1>1, <1>3 DEF Entry
<1>6. /\ dump' \in Seq(E) /\ Len(dump') = n + 1 /\ dump'[n + 1] = e
      /\ \A i \in 1 .. n : dump'[i] = dump[i]
  BY <1>2, <1>4, <1>5
<1>7. TypeOK'
  <2>1. TypeOK
    BY DEF IInv
  <2>2. TreeInv' /\ Flags'
    BY <1>1, <2>1, TypeIs DEF TreeInv, Flags, Paths
  <2>q. QED BY <2>2, TypeIsNext
<1>8. CallInv'
  BY <1>1, CallKeeps DEF IInv
<1>9. VisibleFiles' = VisibleFiles /\ Shallow' = Shallow /\ \A r : Ahead(r)' <=> Ahead(r)
  BY <1>1, SameCall DEF Ahead
<1>10. ListInv'
  <2>1. /\ folders = before.folders /\ files = before.files /\ todo = {}
        /\ list \in Seq(Seq(Names))
        /\ \A r \in VisibleFiles :
               Ahead(r) \/ \E i \in 1 .. Len(list) : list[i] = LastTwo(call.dir, r)
        /\ \A i \in 1 .. Len(list) :
               \E r \in VisibleFiles : ~ Ahead(r) /\ list[i] = LastTwo(call.dir, r)
        /\ Shallow => \A i, k \in 1 .. Len(list) : list[i] = list[k] => i = k
    BY <1>1 DEF IInv, ListInv
  <2>q. QED BY <1>1, <1>9, <2>1 DEF ListInv
<1>11. ZipInv'
  <2>1. state' = "zip" =>
            \A i \in 1 .. n + 1 :
                /\ call.dir \o list[i] \in DOMAIN files
                /\ dump'[i] = Entry(list[i], files[call.dir \o list[i]])
    <3>1. ASSUME state' = "zip", NEW i \in 1 .. n + 1
          PROVE  /\ call.dir \o list[i] \in DOMAIN files
                 /\ dump'[i] = Entry(list[i], files[call.dir \o list[i]])
      <4>1. CASE i = n + 1
        BY <1>3, <1>5, <1>6, <3>1, <4>1
      <4>2. CASE i # n + 1
        <5>1. i \in 1 .. n
          BY <4>2
        <5>q. QED BY <1>1, <1>2, <1>6, <5>1 DEF IInv, ZipInv
      <4>q. QED BY <4>1, <4>2
    <3>q. QED BY <3>1
  <2>2. state' = "failed" /\ Shallow => fault' \cap (VisibleFiles \cup {Root}) # {}
    <3>1. ASSUME state' = "failed", Shallow
          PROVE  fault' \cap (VisibleFiles \cup {Root}) # {}
      <4>1. n + 1 \in 1 .. Len(list)
        BY <1>2, <1>3
      <4>2. file \in VisibleFiles /\ file \in DOMAIN files
        BY <1>1, <1>3, <3>1, <4>1, ToldShallow
      <4>3. fault' = {file} \cap DOMAIN files
        BY <1>1, <3>1
      <4>q. QED BY <4>2, <4>3
    <3>q. QED BY <3>1
  <2>3. n + 1 <= m
    BY <1>2
  <2>5. state' \in {"zip", "failed"}
    BY <1>1
  <2>4. dump' \in Seq([name : Seq(Names), content : {Cut} \cup {files'[p] : p \in DOMAIN files'}])
    BY <1>1, <1>6
  <2>q. QED BY <1>1, <1>2, <1>6, <1>9, <2>1, <2>2, <2>3, <2>4, <2>5 DEF ZipInv
<1>12. WalkInv' /\ DeleteInv' /\ CopyInv' /\ MakeInv'
  BY <1>1 DEF WalkInv, InTree, DeleteInv, CopyInv, MakeInv
<1>q. QED BY <1>7, <1>8, <1>10, <1>11, <1>12 DEF IInv

LEMMA ZipEndKeeps ==
    ASSUME IInv, CloseZip \/ ZipFails
    PROVE  IInv'
<1>1. /\ state = "zip" /\ call.op = "zip"
      /\ \/ Len(dump) = Len(list) /\ state' = "ok"
         \/ state' = "failed" /\ fault' = {Root}
      /\ UNCHANGED <<folders, files, call, before, at, todo, list, dump>>
  BY DEF CloseZip, ZipFails, Fails, disk, IInv, CallInv
<1>2. TypeOK'
  <2>1. TypeOK
    BY DEF IInv
  <2>2. TreeInv' /\ Flags'
    BY <1>1, <2>1, TypeIs DEF TreeInv, Flags, Paths
  <2>q. QED BY <2>2, TypeIsNext
<1>3. CallInv'
  BY <1>1, CallKeeps DEF IInv
<1>4. VisibleFiles' = VisibleFiles /\ Shallow' = Shallow /\ \A r : Ahead(r)' <=> Ahead(r)
  BY <1>1, SameCall DEF Ahead
<1>5. ListInv'
  <2>1. /\ folders = before.folders /\ files = before.files /\ todo = {}
        /\ list \in Seq(Seq(Names))
        /\ \A r \in VisibleFiles :
               Ahead(r) \/ \E i \in 1 .. Len(list) : list[i] = LastTwo(call.dir, r)
        /\ \A i \in 1 .. Len(list) :
               \E r \in VisibleFiles : ~ Ahead(r) /\ list[i] = LastTwo(call.dir, r)
        /\ Shallow => \A i, k \in 1 .. Len(list) : list[i] = list[k] => i = k
    BY <1>1 DEF IInv, ListInv
  <2>q. QED BY <1>1, <1>4, <2>1 DEF ListInv
<1>6. ZipInv'
  BY <1>1 DEF IInv, ZipInv
<1>7. WalkInv' /\ DeleteInv' /\ CopyInv' /\ MakeInv'
  BY <1>1 DEF WalkInv, InTree, DeleteInv, CopyInv, MakeInv
<1>q. QED BY <1>2, <1>3, <1>5, <1>6, <1>7 DEF IInv

LEMMA StutterKeeps ==
    ASSUME IInv, UNCHANGED vars
    PROVE  IInv'
<1>1. UNCHANGED <<folders, files, call, before, state, at, todo, made, open, list, dump, fault>>
  BY DEF vars, disk, copying
<1>2. TypeOK'
  <2>1. TypeOK
    BY DEF IInv
  <2>2. TreeInv' /\ Flags'
    BY <1>1, <2>1, TypeIs DEF TreeInv, Flags, Paths
  <2>q. QED BY <2>2, TypeIsNext
<1>3. CallInv'
  BY <1>1 DEF CallInv, IInv
<1>4. WalkInv'
  BY <1>1 DEF WalkInv, InTree, IInv, Within, Under, HiddenIn, Paths
<1>5. VisibleFiles' = VisibleFiles /\ Shallow' = Shallow /\ \A r : Ahead(r)' <=> Ahead(r)
  BY <1>1, SameCall DEF Ahead
<1>6. ListInv' /\ ZipInv'
  BY <1>1, <1>5 DEF ListInv, ZipInv, IInv
<1>7. DeleteInv'
  BY <1>1, <1>5 DEF DeleteInv, DeletesAll, IInv, Paths
<1>8. MakeInv'
  <2>1. Place(at)' = Place(at) /\ \A r : Blocked(r)' <=> Blocked(r)
    BY <1>1 DEF Place, Rest, Blocked, Within, Under
  <2>2. MakesPath' <=> MakesPath
    BY <1>1 DEF MakesPath
  <2>q. QED BY <1>1, <2>1, <2>2 DEF MakeInv, IInv, Within, Under
<1>9. CopyInv'
  <2>1. \A r : Place(r)' = Place(r)
    BY <1>1 DEF Place, Rest
  <2>2. (CopiesAll' <=> CopiesAll) /\ (Beside' <=> Beside)
    BY <1>1, <1>5, <2>1 DEF CopiesAll, Beside, Within, Under
  <2>3. \A r : (Copied(r)' <=> Copied(r)) /\ (AsBefore(r)' <=> AsBefore(r))
    BY <1>1, <2>1 DEF Copied, AsBefore
  <2>4. Place(at)' = Place(at) /\ Place(open)' = Place(open)
    BY <1>1 DEF Place, Rest
  <2>q. QED BY <1>1, <1>5, <2>2, <2>3, <2>4 DEF CopyInv, InTree, IInv, Within, Under, HiddenIn
<1>q. QED BY <1>2, <1>3, <1>4, <1>6, <1>7, <1>8, <1>9 DEF IInv

-----------------------------------------------------------------------------
(* The promises.                                                            *)

LEMMA InitInv ==
    ASSUME Init
    PROVE  IInv
<1>1. /\ call = [op |-> "none", dir |-> Root, to |-> Root]
      /\ before = [folders |-> folders, files |-> files]
      /\ state = "none" /\ list = << >> /\ dump = << >> /\ Tree(folders, files)
  BY DEF Init
<1>2. folders \subseteq P /\ DOMAIN files \subseteq P \ {Root}
  <2>1. PICK d \in SUBSET AllFolders, f \in SUBSET AllFiles :
            folders = d \cup {Root} /\ files = [p \in f |-> p]
    BY DEF Init
  <2>2. Root \in P
    BY DEF Root, P
  <2>q. QED BY <2>1, <2>2, PathsAssumption DEF P
<1>3. TypeOK
  BY <1>1, <1>2 DEF TypeOK, P
<1>4. CallInv
  <2>1. Root \in Seq(Names)
    BY DEF Root
  <2>2. call.dir = Root /\ call.to = Root /\ call.op = "none"
    BY <1>1
  <2>3. before.folders = folders /\ before.files = files
    BY <1>1
  <2>q. QED BY <1>1, <1>2, <2>1, <2>2, <2>3 DEF CallInv, P
<1>5. WalkInv /\ ListInv /\ ZipInv /\ DeleteInv /\ CopyInv /\ MakeInv
  BY <1>1 DEF WalkInv, InTree, ListInv, ZipInv, DeleteInv, CopyInv, MakeInv
<1>q. QED BY <1>3, <1>4, <1>5 DEF IInv

LEMMA NextInv ==
    ASSUME IInv, [Next]_vars
    PROVE  IInv'
<1>1. Targets \subseteq P
  BY PathsAssumption DEF P
<1>2. folders \subseteq P
  BY TypeIs DEF IInv, TreeInv
<1>3. ASSUME NEW dir \in folders, RecursiveList(dir) PROVE IInv'
  BY <1>3, BeginKeeps DEF RecursiveList
<1>4. ASSUME NEW dir \in folders, ZipFolder(dir) PROVE IInv'
  BY <1>4, BeginKeeps DEF ZipFolder
<1>5. ASSUME NEW dir \in folders, RecursiveDelete(dir) PROVE IInv'
  BY <1>5, BeginKeeps DEF RecursiveDelete
<1>6. ASSUME NEW dir \in folders, NEW dst \in Targets, RecursiveCopy(dir, dst) PROVE IInv'
  BY <1>1, <1>6, CopyKeeps
<1>7. ASSUME NEW p \in Targets, Mkdir(p) PROVE IInv'
  BY <1>1, <1>7, MkdirKeeps
<1>8. ASSUME NEW p \in todo, ListFile(p) \/ DeleteFile(p) \/ OpenCopy(p) \/ Enter(p)
      PROVE  IInv'
  BY <1>8, ListFileKeeps, DeleteFileKeeps, OpenCopyKeeps, EnterKeeps
<1>9. ASSUME MakeNext \/ MakeEnds \/ WriteCopy PROVE IInv'
  BY <1>9, MakeNextKeeps, MakeEndsKeeps, WriteCopyKeeps
<1>11. ASSUME Return \/ RmDirFails \/ AddEntry \/ ZipFails \/ CloseZip PROVE IInv'
  BY <1>11, ReturnKeeps, RmDirFailsKeeps, AddEntryKeeps, ZipEndKeeps
<1>10. ASSUME UNCHANGED vars PROVE IInv'
  BY <1>10, StutterKeeps
<1>q. QED
  BY <1>3, <1>4, <1>5, <1>6, <1>7, <1>8, <1>9, <1>10, <1>11 DEF Next, Calls, Steps

\* The inductive invariant holds at every moment of every call.
THEOREM Invariance == Spec => []IInv
<1>1. Init => IInv
  BY InitInv
<1>2. IInv /\ [Next]_vars => IInv'
  BY NextInv
<1>q. QED BY <1>1, <1>2, PTL DEF Spec

\* Whatever the helpers do to it, the disk stays a tree of folders and files.
THEOREM TypeCorrect == Spec => []TypeOK
<1>1. IInv => TypeOK
  BY DEF IInv
<1>q. QED BY <1>1, Invariance, PTL

\* recursiveList tells each visible file of a shallow folder once, under its own path,
\* in whatever order readdir finds them.
THEOREM ListedOnceCorrect == Spec => []ListedOnce
<1>1. ASSUME IInv PROVE ListedOnce
  <2>1. SUFFICES ASSUME call.op = "list", state = "ok", Shallow
                 PROVE  /\ \A p \in VisibleFiles :
                               \E i \in 1 .. Len(list) : list[i] = Rest(call.dir, p)
                        /\ \A i \in 1 .. Len(list) :
                               /\ \E p \in VisibleFiles : list[i] = Rest(call.dir, p)
                               /\ \A k \in 1 .. Len(list) : list[i] = list[k] => i = k
    BY DEF ListedOnce
  <2>2. \A p : ~ Ahead(p)
    BY <1>1, <2>1 DEF IInv, ListInv, Ahead
  <2>3. \A p \in VisibleFiles : LastTwo(call.dir, p) = Rest(call.dir, p)
    BY <2>1 DEF Shallow, LastTwo
  <2>q. QED BY <1>1, <2>1, <2>2, <2>3 DEF IInv, ListInv
<1>q. QED BY <1>1, Invariance, PTL

\* zip_directory reports a dump as made only when each file is in it under its own path
\* with its own content, or shares its last two names with another, or the archive could
\* not be finished, which nobody tells; in a shallow folder it fails only for a file it could not read or for the zip itself.
THEOREM DumpHonestCorrect == Spec => []DumpHonest
<1>1. ASSUME IInv PROVE DumpHonest
  <2>1. ASSUME call.op = "zip", state = "ok", NEW p \in VisibleFiles
        PROVE  \/ \E i \in 1 .. Len(dump) :
                      dump[i] = Entry(Rest(call.dir, p), before.files[p])
               \/ \E q \in VisibleFiles \ {p} :
                      LastTwo(call.dir, q) = LastTwo(call.dir, p)
    <3>1. p \in P /\ call.dir \in P /\ Under(call.dir, p) /\ ~ HiddenIn(call.dir, p)
      BY <1>1, VisibleIs DEF IInv, CallInv, P
    <3>2. PICK i \in 1 .. Len(list) : list[i] = LastTwo(call.dir, p)
      BY <1>1, <2>1 DEF IInv, ListInv, Ahead
    <3>3. /\ i \in 1 .. Len(dump) /\ call.dir \o list[i] \in DOMAIN before.files
          /\ dump[i] = Entry(list[i], before.files[call.dir \o list[i]])
      BY <1>1, <2>1, <3>2 DEF IInv, ListInv, ZipInv
    <3>4. CASE Len(p) <= Len(call.dir) + 2
      <4>1. call.dir \o LastTwo(call.dir, p) = p
        BY <3>1, <3>4, ToldFile
      <4>2. LastTwo(call.dir, p) = Rest(call.dir, p)
        BY <3>4 DEF LastTwo
      <4>q. QED BY <3>2, <3>3, <4>1, <4>2
    <3>5. CASE ~ Len(p) <= Len(call.dir) + 2
      <4>1. PICK q \in P : /\ q = call.dir \o LastTwo(call.dir, p) /\ q # p
                           /\ Under(call.dir, q)
                           /\ LastTwo(call.dir, q) = LastTwo(call.dir, p)
                           /\ HiddenIn(call.dir, q) => HiddenIn(call.dir, p)
        BY <3>1, <3>5, ToldFile
      <4>2. q \in VisibleFiles
        BY <3>1, <3>2, <3>3, <4>1, VisibleIs
      <4>q. QED BY <4>1, <4>2
    <3>q. QED BY <3>4, <3>5
  <2>2. call.op = "zip" /\ Shallow /\ state = "failed" =>
            fault \cap (VisibleFiles \cup {Root}) # {}
    BY <1>1 DEF IInv, ZipInv
  <2>q. QED BY <2>1, <2>2 DEF DumpHonest
<1>q. QED BY <1>1, Invariance, PTL

\* recursiveDelete says that it has succeeded exactly when nothing of the folder is
\* left, fails only for what is hidden or what the system would not remove, and at no
\* moment has it touched what is hidden or lies outside.
THEOREM DeletesAllCorrect == Spec => []DeletesAll
<1>1. ASSUME IInv PROVE DeletesAll
  <2>1. CASE call.op = "delete"
    BY <1>1, <2>1 DEF IInv, DeleteInv
  <2>2. CASE call.op # "delete"
    BY <2>2 DEF DeletesAll
  <2>q. QED BY <2>1, <2>2
<1>q. QED BY <1>1, Invariance, PTL

\* recursiveCopy, between folders neither of which holds the other: a copy that has
\* succeeded is whole, and at every moment each place in the target holds the old file
\* or the copy, but for the one that is open or was cut short, with the rest of the
\* disk as it was.
THEOREM CopiesAllCorrect == Spec => []CopiesAll
<1>1. ASSUME IInv PROVE CopiesAll
  <2>1. CASE call.op = "copy" /\ ~ Under(call.to, call.dir)
    BY <1>1, <2>1 DEF IInv, CopyInv, Beside
  <2>2. CASE ~ (call.op = "copy" /\ ~ Under(call.to, call.dir))
    BY <2>2 DEF CopiesAll
  <2>q. QED BY <2>1, <2>2
<1>q. QED BY <1>1, Invariance, PTL

\* _mkdir, which looks at the result of no mkdir, ends with each folder of the path
\* there that no file and no failure of the system stopped, and makes nothing else.
THEOREM MakesPathCorrect == Spec => []MakesPath
<1>1. ASSUME IInv PROVE MakesPath
  <2>1. CASE call.op = "mkdir"
    BY <1>1, <2>1 DEF IInv, MakeInv
  <2>2. CASE call.op # "mkdir"
    BY <2>2 DEF MakesPath
  <2>q. QED BY <2>1, <2>2
<1>q. QED BY <1>1, Invariance, PTL

=============================================================================
