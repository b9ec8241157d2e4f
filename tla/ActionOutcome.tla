--------------------------- MODULE ActionOutcome ---------------------------
(***************************************************************************)
(* What the mutation services promise about one approved calendar-create   *)
(* Action, whoever executes it: the outside world changes at most once,    *)
(* only while the ledger says that it may be changing, and the ledger      *)
(* never claims an outcome that the world does not have.                   *)
(***************************************************************************)
CONSTANT Event           \* the events an execution of the Action may create

VARIABLES
    events,              \* the events that exist at the provider
    ledger               \* what the program says of the Action

vars == <<events, ledger>>

Ledger == {"open",       \* nothing was sent that could still act
           "inDoubt",    \* dispatch is fenced; the world may change
           "effect",     \* the Effect is confirmed
           "noEffect"}   \* terminal non-application is confirmed; retry is possible

Init == events = {} /\ ledger = "open"

\* Dispatch becomes possible: the current authority was checked and fenced.
Commit == ledger = "open" /\ ledger' = "inDoubt" /\ UNCHANGED events

\* The provider creates the event, the first and only one.
Happen ==
    /\ ledger = "inDoubt"
    /\ events = {}
    /\ \E e \in Event : events' = {e}
    /\ UNCHANGED ledger

ConfirmEffect ==
    /\ ledger = "inDoubt" /\ events # {}
    /\ ledger' = "effect"
    /\ UNCHANGED events

ConfirmNoEffect ==
    /\ ledger = "inDoubt" /\ events = {}
    /\ ledger' = "noEffect"
    /\ UNCHANGED events

\* A retry is authorised, or its prepared attempt reopens the Action.
Reopen == ledger = "noEffect" /\ ledger' = "open" /\ UNCHANGED events

Next == Commit \/ Happen \/ ConfirmEffect \/ ConfirmNoEffect \/ Reopen

Spec == Init /\ [][Next]_vars

=============================================================================
