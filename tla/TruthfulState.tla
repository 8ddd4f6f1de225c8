--------------------------- MODULE TruthfulState ---------------------------
(***************************************************************************)
(* What Terraform state promises about one remote object: the state is     *)
(* only ever set to something the remote system could be seen to hold      *)
(* since the provider last knew the outcome of a call of its own.          *)
(***************************************************************************)
CONSTANT Values  \* what the object can be, absence included

VARIABLES
    shown,     \* what the remote system can show at this moment
    recorded,  \* what Terraform state says
    window     \* everything shown since the current window opened

Init ==
    /\ shown \subseteq Values
    /\ recorded \in Values
    /\ window = shown

\* The remote system moves on by itself or by a call; a call whose outcome is
\* known opens a new window.
Changes ==
    /\ shown' \subseteq Values
    /\ window' \in {shown', window \cup shown'}

\* The provider records something of the current window.
Records == recorded' = recorded \/ recorded' \in window'

Next == Changes /\ Records

Spec == Init /\ [][Next]_<<shown, recorded, window>>

=============================================================================
