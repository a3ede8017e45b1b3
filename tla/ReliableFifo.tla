---------------------------- MODULE ReliableFifo ----------------------------
(***************************************************************************)
(* What a Channel promises its two applications (SPEC §6: "reliable,       *)
(* ordered"): each side receives the messages the other side sent, in the  *)
(* order they were sent, each once, none skipped.  It promises nothing     *)
(* about when, and a connection that dies delivers no more.                *)
(***************************************************************************)
EXTENDS Naturals, Sequences

CONSTANTS Side, Message

VARIABLES
  sent,       \* sent[p]: the messages the application of p handed over
  received    \* received[p]: the messages the application of p was given

fifoVars == <<sent, received>>

Other(p) == CHOOSE q \in Side : q # p

Init ==
  /\ sent = [p \in Side |-> <<>>]
  /\ received = [p \in Side |-> <<>>]

Send(p, m) ==
  /\ sent' = [sent EXCEPT ![p] = Append(@, m)]
  /\ UNCHANGED received

\* One or more of the messages that are due, next ones first.
Deliver(p) ==
  /\ \E n \in Len(received[p]) + 1 .. Len(sent[Other(p)]) :
       received' = [received EXCEPT ![p] = @ \o SubSeq(sent[Other(p)], Len(@) + 1, n)]
  /\ UNCHANGED sent

Next == \E p \in Side : Deliver(p) \/ \E m \in Message : Send(p, m)

Spec == Init /\ [][Next]_fifoVars
=============================================================================
