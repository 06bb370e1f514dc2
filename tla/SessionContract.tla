-------------------------- MODULE SessionContract ---------------------------
(***************************************************************************)
(* What a session of SACV promises, whatever the nodes that keep it: tests *)
(* come before code, code before checks, checks before anything is kept;   *)
(* a new plan starts from nothing, and the number of plans is limited.     *)
(* SACVWorkflow implements it.                                             *)
(***************************************************************************)
EXTENDS Naturals

CONSTANT MaxReplan      \* plans after the first

VARIABLES
    activity,   \* starting, planning, coding, checking, keeping, handover
                \* or ended
    red,        \* tests of this plan have been seen to fail
    patch,      \* there is a patch of this plan
    green,      \* it passed
    replans     \* plans given up in this session

vars == <<activity, red, patch, green, replans>>

Forgotten == ~red' /\ ~patch' /\ ~green'

Init ==
    /\ activity = "starting" /\ replans = 0
    /\ red = FALSE /\ patch = FALSE /\ green = FALSE

Start ==
    /\ activity = "starting" /\ activity' = "planning"
    /\ Forgotten /\ replans' = 0

ConfirmRed ==
    /\ activity = "planning" /\ activity' = "coding"
    /\ ~red /\ ~patch /\ ~green
    /\ red'
    /\ UNCHANGED <<patch, green, replans>>

Code ==
    /\ activity = "coding" /\ red /\ ~green
    /\ patch' \in BOOLEAN
    /\ \/ activity' \in {"coding", "handover"}
       \/ activity' = "checking" /\ patch'
    /\ UNCHANGED <<red, green, replans>>

Reject ==
    /\ activity = "checking" /\ activity' = "coding"
    /\ UNCHANGED <<red, patch, green, replans>>

Accept ==
    /\ activity = "checking" /\ activity' = "keeping"
    /\ red /\ patch /\ green'
    /\ UNCHANGED <<red, patch, replans>>

(* The plan is given up; without a new one a human takes over. *)
GiveUpPlan ==
    /\ activity = "checking" /\ ~green
    /\ activity' \in {"planning", "handover"}
    /\ replans < MaxReplan /\ replans' = replans + 1
    /\ Forgotten

HandOver ==
    /\ activity \in {"planning", "checking"} /\ activity' = "handover"
    /\ UNCHANGED <<red, patch, green, replans>>

(* It is kept, handed over or crashed. *)
End ==
    /\ activity # "ended" /\ activity' = "ended"
    /\ UNCHANGED <<red, patch, green, replans>>

(* The task is run again. *)
Rerun ==
    /\ activity = "ended" /\ activity' = "starting"
    /\ UNCHANGED <<red, patch, green, replans>>

Next ==
    \/ Start \/ ConfirmRed \/ Code \/ Reject \/ Accept
    \/ GiveUpPlan \/ HandOver \/ End \/ Rerun

Spec == Init /\ [][Next]_vars
=============================================================================
