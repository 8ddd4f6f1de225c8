---------------------------- MODULE RemoteCalls ----------------------------
(***************************************************************************)
(* What a caller of the REST client may rely on: it is answered once, and  *)
(* a mutation takes effect at most once.  After a definite answer nothing  *)
(* more happens to the catalog; after an uncertain one the mutation may    *)
(* have taken effect, take effect late, or be lost.                        *)
(***************************************************************************)
CONSTANT Calls

VARIABLES
    kind,    \* kind[c]: read or mutation
    answer,  \* answer[c]: what the caller was told
    effect   \* effect[c]: what became of the mutation

Answers == {"ok", "notfound", "rejected", "uncertain"}

Effects(k, a) ==
    IF k = "mutation" /\ a = "ok" THEN {"applied"}
    ELSE IF k = "mutation" /\ a = "uncertain" THEN {"none", "pending", "applied"}
    ELSE {"none"}

Init ==
    /\ kind \in [Calls -> {"read", "mutation"}]
    /\ answer = [c \in Calls |-> "none"]
    /\ effect = [c \in Calls |-> "none"]

\* The call ends, and its effect is settled as far as the answer says.
Answer(c) ==
    /\ answer[c] = "none"
    /\ \E a \in Answers :
        /\ answer' = [answer EXCEPT ![c] = a]
        /\ \E e \in Effects(kind[c], a) : effect' = [effect EXCEPT ![c] = e]
    /\ UNCHANGED kind

\* A mutation of uncertain outcome takes effect late, or is lost.
Late(c) ==
    /\ effect[c] = "pending"
    /\ \E e \in {"applied", "none"} : effect' = [effect EXCEPT ![c] = e]
    /\ UNCHANGED <<kind, answer>>

Next == \E c \in Calls : Answer(c) \/ Late(c)

Spec == Init /\ [][Next]_<<kind, answer, effect>>

=============================================================================
