---------------------------- MODULE VersionedReads ----------------------------
(***************************************************************************)
(* What a client may rely on when it reads a department tree, whatever     *)
(* sits between it and the database: the organisation goes through         *)
(* versions, the writers announce from time to time that the current one   *)
(* is to be seen, and a read that begins afterwards answers with nothing   *)
(* older, nor with anything that was never committed.                      *)
(***************************************************************************)
EXTENDS Naturals

CONSTANTS
    Reader,
    MaxWrites,      \* bound on the versions
    NoTree          \* the answer of a read that failed

Versions == 0 .. MaxWrites

VARIABLES
    db,             \* the committed version
    announced,      \* the version that reads beginning now must not miss
    busy,           \* the readers that await their answer
    must,           \* what was announced when the read of each reader began
    answer          \* what the last read of each reader returned, if it has

vars == <<db, announced, busy, must, answer>>

TypeOK ==
    /\ db \in Versions
    /\ announced \in Versions
    /\ busy \in SUBSET Reader
    /\ must \in [Reader -> Versions]
    /\ answer \in [Reader -> Versions \cup {NoTree}]

Init ==
    /\ db = 0
    /\ announced = 0
    /\ busy = {}
    /\ must = [r \in Reader |-> 0]
    /\ answer = [r \in Reader |-> NoTree]

Commit ==
    /\ db < MaxWrites
    /\ db' = db + 1
    /\ UNCHANGED <<announced, busy, must, answer>>

Announce ==
    /\ announced' = db
    /\ UNCHANGED <<db, busy, must, answer>>

BeginRead(r) ==
    /\ r \notin busy
    /\ busy' = busy \cup {r}
    /\ must' = [must EXCEPT ![r] = announced]
    /\ answer' = [answer EXCEPT ![r] = NoTree]
    /\ UNCHANGED <<db, announced>>

\* The readers R, which may have waited for one another, are answered at once.
EndReads(R) ==
    /\ R # {}
    /\ R \subseteq busy
    /\ busy' = busy \ R
    /\ answer' \in [Reader -> Versions \cup {NoTree}]
    /\ \A r \in Reader \ R : answer'[r] = answer[r]
    /\ \A r \in R : answer'[r] # NoTree => must[r] <= answer'[r] /\ answer'[r] <= db
    /\ UNCHANGED <<db, announced, must>>

Next ==
    \/ Commit
    \/ Announce
    \/ \E r \in Reader : BeginRead(r)
    \/ \E R \in SUBSET Reader : EndReads(R)

Spec == Init /\ [][Next]_vars
=============================================================================
