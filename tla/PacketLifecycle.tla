-------------------------- MODULE PacketLifecycle --------------------------
(***************************************************************************)
(* What the bridge promises about a packet, whichever chain sends it: it   *)
(* is sent once; it is delivered at most once, with the content that was   *)
(* sent; the sender learns exactly one outcome, which is the answer given  *)
(* on delivery or a timeout; and a packet that timed out was not delivered *)
(* and never will be.                                                      *)
(***************************************************************************)
CONSTANTS Ids, Contents, Answers, None

VARIABLES
    sent,        \* content of the packet, once sent
    delivered,   \* content and answer, once delivered
    outcome      \* "timeout" or the answer, once the sender has learnt it

vars == <<sent, delivered, outcome>>

Init ==
    /\ sent = [i \in Ids |-> None]
    /\ delivered = [i \in Ids |-> None]
    /\ outcome = [i \in Ids |-> None]

Send(i) ==
    /\ sent[i] = None
    /\ \E x \in Contents : sent' = [sent EXCEPT ![i] = x]
    /\ UNCHANGED <<delivered, outcome>>

Deliver(i) ==
    /\ sent[i] # None
    /\ delivered[i] = None
    /\ outcome[i] = None
    /\ \E a \in Answers :
           delivered' = [delivered EXCEPT ![i] = [content |-> sent[i], answer |-> a]]
    /\ UNCHANGED <<sent, outcome>>

Acknowledge(i) ==
    /\ delivered[i] # None
    /\ outcome[i] = None
    /\ outcome' = [outcome EXCEPT ![i] = [kind |-> "answered", answer |-> delivered[i].answer]]
    /\ UNCHANGED <<sent, delivered>>

Timeout(i) ==
    /\ sent[i] # None
    /\ delivered[i] = None
    /\ outcome[i] = None
    /\ outcome' = [outcome EXCEPT ![i] = [kind |-> "timeout"]]
    /\ UNCHANGED <<sent, delivered>>

Next == \E i \in Ids : Send(i) \/ Deliver(i) \/ Acknowledge(i) \/ Timeout(i)

Spec == Init /\ [][Next]_vars
=============================================================================
