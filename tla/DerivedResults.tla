--------------------------- MODULE DerivedResults ---------------------------
(***************************************************************************)
(* What the processors of a journal day promise to the reader of the day,  *)
(* with the runs, the queue, the workers and the transactions left out.    *)
(* Every processor shows at most one result at a time.  Results are only   *)
(* ever added; one that was withdrawn because an input it was derived from *)
(* changed is never shown and never comes back.                            *)
(***************************************************************************)
EXTENDS Naturals, Sequences

CONSTANT Processors

VARIABLES
    history,    \* the processors that produced the results, oldest first
    withdrawn,  \* the results an edit has made stale
    visible     \* the result each processor shows, or 0

derived == <<history, withdrawn, visible>>

DerivedInit ==
    /\ history = <<>>
    /\ withdrawn = {}
    /\ visible = [p \in Processors |-> 0]

\* A new result replaces the one that is shown, unless it says the same.
Produce(p) ==
    /\ history' = Append(history, p)
    /\ \/ visible' = [visible EXCEPT ![p] = Len(history) + 1]
       \/ visible[p] # 0 /\ UNCHANGED visible
    /\ UNCHANGED withdrawn

Withdraw(S) ==
    /\ withdrawn' = withdrawn \cup S
    /\ visible' = [p \in Processors |-> IF visible[p] \in S THEN 0
                                                           ELSE visible[p]]
    /\ UNCHANGED history

DerivedNext ==
    \/ \E p \in Processors : Produce(p)
    \/ \E S \in SUBSET DOMAIN history : Withdraw(S)

DerivedSpec == DerivedInit /\ [][DerivedNext]_derived
=============================================================================
