------------------------------- MODULE StepLog -------------------------------
(***************************************************************************)
(* What a StepRecorder promises the runners of a run that start their      *)
(* steps concurrently (core/src/contracts.ts, StepRecorder): a recorded    *)
(* step gets the next sequenceIndex of its run, in the order of the calls; *)
(* a call may fail, before or after it took effect, without spending the   *)
(* index of another; and every call is answered.                           *)
(***************************************************************************)
EXTENDS Integers, Sequences, FiniteSets

CONSTANTS
    Runs,
    Calls,      \* the calls of start and startChild
    RunOf       \* the run each call records a step of

VARIABLES
    asked,      \* the calls of each run, in the order they were made
    index,      \* the sequenceIndex of a call's row, Unrecorded before that
    answer      \* what the caller got

vars == <<asked, index, answer>>

Unrecorded == -1

Rows(r) == {c \in Calls : RunOf[c] = r /\ index[c] # Unrecorded}

Asked(c) == \E i \in DOMAIN asked[RunOf[c]] : asked[RunOf[c]][i] = c

(* The calls of the same run that were made before c.                       *)
Before(c) ==
    {asked[RunOf[c]][i] : i \in
        {j \in DOMAIN asked[RunOf[c]] :
            \E k \in DOMAIN asked[RunOf[c]] : j < k /\ asked[RunOf[c]][k] = c}}

Undecided(c) == index[c] = Unrecorded /\ answer[c] = "none"

Init ==
    /\ asked = [r \in Runs |-> <<>>]
    /\ index = [c \in Calls |-> Unrecorded]
    /\ answer = [c \in Calls |-> "none"]

Ask(c) ==
    /\ ~Asked(c)
    /\ asked' = [asked EXCEPT ![RunOf[c]] = Append(@, c)]
    /\ UNCHANGED <<index, answer>>

Record(c) ==
    /\ Asked(c)
    /\ Undecided(c)
    /\ \A d \in Before(c) : ~Undecided(d)
    /\ index' = [index EXCEPT ![c] = Cardinality(Rows(RunOf[c]))]
    /\ UNCHANGED <<asked, answer>>

Answer(c) ==
    /\ Asked(c)
    /\ answer[c] = "none"
    /\ \E a \in {"ok", "failed"} :
          /\ a = "ok" => index[c] # Unrecorded
          /\ answer' = [answer EXCEPT ![c] = a]
    /\ UNCHANGED <<asked, index>>

Next == \E c \in Calls : Ask(c) \/ Record(c) \/ Answer(c)

Spec ==
    /\ Init
    /\ [][Next]_vars
    /\ \A c \in Calls : WF_vars(Record(c) \/ Answer(c))

=============================================================================
