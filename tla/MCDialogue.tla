----------------------------- MODULE MCDialogue -----------------------------
(* Dialogue on the instances that TLC checks.                               *)
EXTENDS Dialogue, TLC
LOCAL INSTANCE FiniteSets
LOCAL INSTANCE SequencesExt

CONSTANT Line   \* the one connection

OneLine == [j \in Jobs |-> Line]

\* How often a script is called: extract.py by repeat.py, for one save after
\* another; resign.py twice, generate.py once.
Calls == [gen |-> 1, extract |-> 3, resign |-> 2]

\* The jobs being alike, one order of their calls stands for all.
Caller(i) == SetToSeq(Jobs)[i]

InTurn ==
    \A i \in 1 .. Cardinality(Jobs) : call[Caller(i)] # "todo" =>
        /\ i <= Calls[Cmd(Caller(i))]
        /\ i > 1 => call[Caller(i - 1)] # "todo"

TurnsNext == DialogueNext /\ InTurn'
TurnsSpec == DialogueInit /\ [][TurnsNext]_dvars /\ DialogueFairness

=============================================================================
