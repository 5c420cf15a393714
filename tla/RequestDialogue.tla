-------------------------- MODULE RequestDialogue --------------------------
(***************************************************************************)
(* What a client may rely on of the answers to its requests: each is of a  *)
(* request it has sent, none is answered twice, and none before an answer  *)
(* to an earlier one.  (It may not rely on being answered at all.)         *)
(***************************************************************************)
EXTENDS Naturals, Sequences

VARIABLES
  asked,        \* how many requests were sent
  answered      \* the requests that were answered, in the order of the answers

Init == asked = 0 /\ answered = <<>>

Ask == asked' = asked + 1 /\ UNCHANGED answered

Answer ==
  \E i \in 1..asked :
    /\ \A k \in DOMAIN answered : answered[k] < i
    /\ answered' = Append(answered, i)
    /\ UNCHANGED asked

Next == Ask \/ Answer

Spec == Init /\ [][Next]_<<asked, answered>>
=============================================================================
