------------------------------ MODULE RunLedger ------------------------------
(***************************************************************************)
(* What a run costs and puts out: the cost accumulator of each node runner *)
(* (core/src/cost.ts), the `cost` and `outputs` channels of the run state  *)
(* (core/src/state.ts), and what the store keeps of both.                  *)
(*                                                                         *)
(* A CostBundle is a sum of what was reported, so a cost is the bag of the *)
(* reports summed up in it: adding bundles is the union of bags. A report  *)
(* is named after the step it was made in and who made it. The output of a *)
(* node is named after the step that recorded it.                          *)
(***************************************************************************)
EXTENDS Naturals, Sequences, Bags

CONSTANTS
    InMemory    \* the store is store-memory, else store-prisma

ASSUME StoreAssumption == InMemory \in BOOLEAN

VARIABLES
    spent,      \* costAcc of each runner, until its output is in the state
    stepCosts,  \* the cost of each step row
    cost,       \* the `cost` channel
    latest,     \* the `outputs` channel: node -> step
    row,        \* the run row's cost and output
    answer,     \* cost and outputs in what `done` resolves with
    charged     \* whether the host has charged the run itself, and when

ledgerVars == <<spent, stepCosts, cost, latest, row, answer, charged>>

ZERO_COST == EmptyBag

(* createRun.                                                               *)
NewRow == [cost |-> ZERO_COST, outputs |-> <<>>]

Report(i, who) == SetToBag({<<i, who>>})
HostReport == Report(0, "host")

LedgerInit(nodes) ==
    /\ spent = [n \in nodes |-> EmptyBag]
    /\ stepCosts = <<>>
    /\ cost = ZERO_COST
    /\ latest = <<>>
    /\ row = NewRow
    /\ answer = [cost |-> ZERO_COST, outputs |-> <<>>]
    /\ charged = "no"

-----------------------------------------------------------------------------
(* CostAccumulator.add, mergeCost. The variant replaces.                    *)
LastCost(e, u) == u
mergeCost(e, u) == e (+) u

(* costAcc.add, by the resolver's answer or reportCost.                     *)
Spend(n, i, who) ==
    /\ spent' = [spent EXCEPT ![n] = mergeCost(@, Report(i, who))]
    /\ UNCHANGED <<stepCosts, cost, latest, row, answer, charged>>

(* The try block of the runner is left, and costAcc with it.                *)
Forget(n) == spent' = [spent EXCEPT ![n] = EmptyBag]

(* StepRecorder.start and finish. A step that fails costs nothing.          *)
StartStep ==
    /\ stepCosts' = Append(stepCosts, EmptyBag)
    /\ UNCHANGED <<spent, cost, latest, row, answer, charged>>

FinishStep(i, c) == stepCosts' = [stepCosts EXCEPT ![i] = c]

-----------------------------------------------------------------------------
(* The cost of a node that completed. Nothing reads the channel before the  *)
(* stream ends, so the cost need not wait for the end of the superstep.     *)
AddCost(n) ==
    /\ cost' = mergeCost(cost, spent[n])
    /\ UNCHANGED <<spent, stepCosts, latest, row, answer, charged>>

(* The reducer of `outputs` over what the nodes of a superstep return: the  *)
(* last output of a node stays. The variant keeps the first.                *)
KeepFirst(old, new) ==
    [n \in DOMAIN old \cup DOMAIN new |-> IF n \in DOMAIN old THEN old[n] ELSE new[n]]
Spread(old, new) ==
    [n \in DOMAIN old \cup DOMAIN new |-> IF n \in DOMAIN new THEN new[n] ELSE old[n]]

ApplyOutputs(new) ==
    /\ latest' = Spread(latest, new)
    /\ spent' = [n \in DOMAIN spent |-> IF n \in DOMAIN new THEN EmptyBag ELSE spent[n]]
    /\ UNCHANGED <<stepCosts, cost, row, answer, charged>>

-----------------------------------------------------------------------------
(* completeRun(SUCCESS): the in-memory store adds the cost to that of the   *)
(* row, the Prisma store replaces it.                                       *)
CompleteRow ==
    row' = [cost |-> IF InMemory THEN mergeCost(row.cost, cost) ELSE cost,
            outputs |-> latest]

(* completeRun(FAILED or ABORTED) passes no cost and no output; only the    *)
(* in-memory store resets the output.                                       *)
CloseRow == row' = IF InMemory THEN [row EXCEPT !.outputs = <<>>] ELSE row

Answer == answer' = [cost |-> cost, outputs |-> latest]

(* The host calls updateRunCostAtomic, once.                                *)
ChargeRun(when) ==
    /\ charged = "no"
    /\ charged' = when
    /\ row' = [row EXCEPT !.cost = mergeCost(@, HostReport)]
    /\ UNCHANGED <<spent, stepCosts, cost, latest, answer>>

=============================================================================
