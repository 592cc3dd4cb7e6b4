------------------------------- MODULE Register -------------------------------
(***************************************************************************)
(* What the checkpoint promises to the rest of the program, whatever files *)
(* hold it: rows and an intent that change together or not at all, and a   *)
(* reset that forgets the rows at once.                                    *)
(*                                                                         *)
(* The intent may have a copy outside (retained): the intent itself as     *)
(* long as it lives there, what a migration left behind afterwards, until  *)
(* it is cleaned away.  A reset that is cut short is the only way back for *)
(* such a copy.                                                            *)
(***************************************************************************)
CONSTANTS
    Rows,      \* the contents the rows can have
    NoRows,    \* those of an empty checkpoint
    Intents,   \* the intents a refresh can write ahead
    NoIntent   \* no intent is pending

VARIABLES rows, pending, retained, writing, resetting

registers == <<rows, pending, retained, writing, resetting>>

Init ==
    /\ rows \in Rows /\ pending \in Intents /\ retained \in Intents
    /\ writing = FALSE /\ resetting = FALSE

Open ==
    /\ ~writing /\ writing' = TRUE
    /\ UNCHANGED <<rows, pending, retained, resetting>>

Close ==
    /\ writing /\ writing' = FALSE
    /\ UNCHANGED <<rows, pending, retained, resetting>>

WriteIntent ==
    /\ writing
    /\ pending' \in Intents
    /\ UNCHANGED <<rows, retained, writing, resetting>>

Publish ==
    /\ writing
    /\ rows' \in Rows /\ pending' \in Intents
    /\ UNCHANGED <<retained, writing, resetting>>

Clean ==
    /\ ~writing /\ retained' = NoIntent
    /\ UNCHANGED <<rows, pending, writing, resetting>>

Reset ==
    /\ ~writing /\ rows' = NoRows /\ pending' = retained
    /\ resetting' = TRUE
    /\ UNCHANGED <<retained, writing>>

Forget ==
    /\ ~writing /\ resetting /\ pending' = NoIntent /\ retained' = NoIntent
    /\ UNCHANGED <<rows, writing, resetting>>

(* The reset is through, or the next initialization takes over from it.    *)
ResetEnds ==
    /\ ~writing /\ resetting' = FALSE
    /\ UNCHANGED <<rows, pending, retained, writing>>

Next ==
    \/ Open \/ Close \/ WriteIntent \/ Publish
    \/ Clean \/ Reset \/ Forget \/ ResetEnds

Spec == Init /\ [][Next]_registers

=============================================================================
