----------------------------- MODULE PrismaSteps -----------------------------
(***************************************************************************)
(* How PrismaPipelineStore numbers the steps of a run                      *)
(* (store-prisma/src/index.ts): start and startChild put a transaction     *)
(* behind the per-run queue of startQueues; the transaction reads the      *)
(* largest sequenceIndex and creates the row with the next one. Nothing    *)
(* else keeps two transactions of a run apart.                             *)
(***************************************************************************)
EXTENDS Integers, Sequences, FiniteSets

CONSTANTS Runs, Calls, RunOf, NoCall

ASSUME QueueAssumption ==
    /\ RunOf \in [Calls -> Runs]
    /\ IsFiniteSet(Calls)
    /\ NoCall \notin Calls

VARIABLES
    asked,      \* the calls of each run, in the order they were made
    startQueues,\* the call whose `tracked` promise a run's entry holds
    previous,   \* the call whose `tracked` promise each call chains on
    pc,         \* where each call is
    nextIndex,  \* the index a transaction computed
    index,      \* the sequenceIndex of a call's committed row
    answer      \* how `next` settled

vars == <<asked, startQueues, previous, pc, nextIndex, index, answer>>

Unrecorded == -1

(* "queued" awaits `previous`, "reading" findFirst, "creating" create and   *)
(* the commit; "committed" has its row but no answer from the database yet; *)
(* when "settled" `next` has settled, when "released" `tracked` has.        *)
CallState ==
    {"idle", "queued", "reading", "creating", "committed", "settled", "released"}

TypeOK ==
    /\ asked \in [Runs -> Seq(Calls)]
    /\ startQueues \in [Runs -> Calls \cup {NoCall}]
    /\ previous \in [Calls -> Calls \cup {NoCall}]
    /\ pc \in [Calls -> CallState]
    /\ nextIndex \in [Calls -> Nat \cup {Unrecorded}]
    /\ index \in [Calls -> Nat \cup {Unrecorded}]
    /\ answer \in [Calls -> {"none", "ok", "failed"}]

Rows(r) == {c \in Calls : RunOf[c] = r /\ index[c] # Unrecorded}

Init ==
    /\ asked = [r \in Runs |-> <<>>]
    /\ startQueues = [r \in Runs |-> NoCall]
    /\ previous = [c \in Calls |-> NoCall]
    /\ pc = [c \in Calls |-> "idle"]
    /\ nextIndex = [c \in Calls |-> Unrecorded]
    /\ index = [c \in Calls |-> Unrecorded]
    /\ answer = [c \in Calls |-> "none"]

-----------------------------------------------------------------------------
(* serializeByRun: chain on the tail of the run's queue and become it.      *)
Enqueue(c) ==
    /\ pc[c] = "idle"
    /\ pc' = [pc EXCEPT ![c] = "queued"]
    /\ previous' = [previous EXCEPT ![c] = startQueues[RunOf[c]]]
    /\ startQueues' = [startQueues EXCEPT ![RunOf[c]] = c]
    /\ asked' = [asked EXCEPT ![RunOf[c]] = Append(@, c)]
    /\ UNCHANGED <<nextIndex, index, answer>>

(* previous.then(op, op): op runs however the previous call ended.          *)
Begin(c) ==
    /\ pc[c] = "queued"
    /\ previous[c] # NoCall => pc[previous[c]] = "released"
    /\ pc' = [pc EXCEPT ![c] = "reading"]
    /\ UNCHANGED <<asked, startQueues, previous, nextIndex, index, answer>>

(* The transaction's findFirst, orderBy sequenceIndex desc, and the ?? -1.  *)
LastIndex(r) ==
    LET used == {index[c] : c \in Rows(r)} IN
    IF used = {} THEN -1 ELSE CHOOSE i \in used : \A j \in used : j <= i

ReadLast(c) ==
    /\ pc[c] = "reading"
    /\ pc' = [pc EXCEPT ![c] = "creating"]
    /\ nextIndex' = [nextIndex EXCEPT ![c] = LastIndex(RunOf[c]) + 1]
    /\ UNCHANGED <<asked, startQueues, previous, index, answer>>

(* tx.pipelineRunStep.create and the commit.                                *)
Commit(c) ==
    /\ pc[c] = "creating"
    /\ pc' = [pc EXCEPT ![c] = "committed"]
    /\ index' = [index EXCEPT ![c] = nextIndex[c]]
    /\ UNCHANGED <<asked, startQueues, previous, nextIndex, answer>>

Settle(c, a) ==
    /\ pc' = [pc EXCEPT ![c] = "settled"]
    /\ answer' = [answer EXCEPT ![c] = a]
    /\ UNCHANGED <<asked, startQueues, previous, nextIndex, index>>

Confirm(c) == pc[c] = "committed" /\ Settle(c, "ok")

(* The database fails, times out or rolls back; an error after the commit   *)
(* leaves the row.                                                          *)
Fail(c) == pc[c] \in {"reading", "creating", "committed"} /\ Settle(c, "failed")

(* next.finally: the last call of the queue removes the run's entry. In the *)
(* variants every call does, and none does.                                 *)
DropEntry(c) == [startQueues EXCEPT ![RunOf[c]] = NoCall]
KeepEntry(c) == startQueues
DropOwnEntry(c) ==
    IF startQueues[RunOf[c]] = c
    THEN [startQueues EXCEPT ![RunOf[c]] = NoCall] ELSE startQueues

Release(c) ==
    /\ pc[c] = "settled"
    /\ pc' = [pc EXCEPT ![c] = "released"]
    /\ startQueues' = DropOwnEntry(c)
    /\ UNCHANGED <<asked, previous, nextIndex, index, answer>>

-----------------------------------------------------------------------------
(* What the store does for a call once it was made.                         *)
Serve(c) ==
    \/ Begin(c)
    \/ ReadLast(c)
    \/ Commit(c)
    \/ Confirm(c)
    \/ Fail(c)
    \/ Release(c)

Next == \E c \in Calls : Enqueue(c) \/ Serve(c)

Spec == Init /\ [][Next]_vars

(* A queued promise callback runs, and the database answers: Prisma ends    *)
(* an interactive transaction that takes too long.                          *)
FairSpec == Spec /\ \A c \in Calls : WF_vars(Serve(c))

-----------------------------------------------------------------------------
(* Concurrent fan-in starts get consecutive indexes in call order, and all  *)
(* are answered, although any of them may fail and leave a row or none      *)
(* (index.ts:72, contracts.ts:107).                                         *)
Log == INSTANCE StepLog
LogSpec == Log!Spec

(* startQueues does not grow with the runs: a run without outstanding calls *)
(* has no entry (index.ts:394-396).                                         *)
NoStaleQueue ==
    \A r \in Runs :
        startQueues[r] # NoCall =>
            \E c \in Calls : RunOf[c] = r /\ pc[c] \notin {"idle", "released"}

-----------------------------------------------------------------------------
(* Why the numbering is safe, as an inductive invariant.                    *)

AskedOnce ==
    /\ \A r \in Runs : \A i, j \in DOMAIN asked[r] :
          /\ RunOf[asked[r][i]] = r
          /\ asked[r][i] = asked[r][j] => i = j
    /\ \A c \in Calls :
          pc[c] = "idle" <=> \A i \in DOMAIN asked[RunOf[c]] : asked[RunOf[c]][i] # c

(* A call leaves the queue only when all earlier ones have been released.   *)
InTurn ==
    \A r \in Runs : \A i, j \in DOMAIN asked[r] :
        j < i /\ pc[asked[r][i]] # "queued" => pc[asked[r][j]] = "released"

(* The entry of a run is its last call, unless that one has been released.  *)
TailInEntry ==
    \A r \in Runs :
        IF startQueues[r] = NoCall
        THEN \A i \in DOMAIN asked[r] : pc[asked[r][i]] = "released"
        ELSE /\ asked[r] # <<>>
             /\ startQueues[r] = asked[r][Len(asked[r])]
             /\ pc[startQueues[r]] # "released"

(* A call chains on the one before it, unless that one has been released.   *)
Chained ==
    \A r \in Runs : \A i \in DOMAIN asked[r] :
        IF previous[asked[r][i]] = NoCall
        THEN \A j \in DOMAIN asked[r] : j < i => pc[asked[r][j]] = "released"
        ELSE i > 1 /\ previous[asked[r][i]] = asked[r][i - 1]

(* The rows of a run are numbered from 0 without gaps, and the transaction  *)
(* about to create a row holds the next number.                             *)
Numbered ==
    /\ \A r \in Runs :
          /\ {index[c] : c \in Rows(r)} = 0..(Cardinality(Rows(r)) - 1)
          /\ \A c, d \in Rows(r) : index[c] = index[d] => c = d
    /\ \A c \in Calls : pc[c] = "creating" => nextIndex[c] = Cardinality(Rows(RunOf[c]))

Consistent ==
    \A c \in Calls :
        /\ pc[c] \in {"idle", "queued", "reading", "creating"} => index[c] = Unrecorded
        /\ pc[c] = "committed" => index[c] # Unrecorded
        /\ pc[c] \in {"settled", "released"} <=> answer[c] # "none"

(* One transaction of a run at a time, in call order, each with the index   *)
(* after the last (index.ts:390).                                           *)
QueueInv ==
    TypeOK /\ AskedOnce /\ InTurn /\ TailInEntry /\ Chained /\ Numbered /\ Consistent

-----------------------------------------------------------------------------
(* A caller is told of its failure by `next`; `tracked` rejects beside it,  *)
(* and unless a later call chained on it nobody handles that rejection,     *)
(* which ends a Node process, and with it every run in flight, whose `done` *)
(* was to settle "when the run finishes (success / failure / abort)"        *)
(* (runtime/src/index.ts:199).                                              *)
RejectionsAreHandled ==
    \A c \in Calls :
        pc[c] = "released" /\ answer[c] = "failed" =>
            \E d \in Calls : pc[d] # "idle" /\ previous[d] = c

=============================================================================
