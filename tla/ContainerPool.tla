--------------------------- MODULE ContainerPool ---------------------------
(***************************************************************************)
(* What the container manager promises its clients, without saying how:    *)
(* every container is a lock. A call gets the container it asks for or is  *)
(* refused, has it for itself while the container exists, and gives it     *)
(* back once and for all.                                                  *)
(***************************************************************************)
CONSTANTS Containers, Calls

VARIABLES
    wants,   \* the container that a call asks for
    use,     \* how far a call has got with it
    gone     \* containers that no longer exist

vars == <<wants, use, gone>>

Users(c) == {e \in Calls : wants[e] = c /\ use[e] = "holding"}

TypeOK ==
    /\ wants \in [Calls -> Containers]
    /\ use \in [Calls -> {"waiting", "holding", "finished"}]
    /\ gone \in SUBSET Containers

Init ==
    /\ wants \in [Calls -> Containers]
    /\ use = [e \in Calls |-> "waiting"]
    /\ gone = {}

\* A call that asks for a container that is gone may not notice at once.
Acquire(e) ==
    /\ use[e] = "waiting"
    /\ wants[e] \notin gone => Users(wants[e]) = {}
    /\ use' = [use EXCEPT ![e] = "holding"]
    /\ UNCHANGED <<wants, gone>>

Refuse(e) ==
    /\ use[e] = "waiting"
    /\ use' = [use EXCEPT ![e] = "finished"]
    /\ UNCHANGED <<wants, gone>>

Release(e) ==
    /\ use[e] = "holding"
    /\ use' = [use EXCEPT ![e] = "finished"]
    /\ UNCHANGED <<wants, gone>>

\* At any time: whoever uses the container has to live with it.
Remove(c) ==
    /\ gone' = gone \cup {c}
    /\ UNCHANGED <<wants, use>>

\* The program dies, and with it whatever was using a container.
Reset ==
    /\ use' = [e \in Calls |-> IF use[e] = "holding" THEN "finished" ELSE use[e]]
    /\ UNCHANGED <<wants, gone>>

Next ==
    \/ \E e \in Calls : Acquire(e) \/ Refuse(e) \/ Release(e)
    \/ \E c \in Containers : Remove(c)
    \/ Reset

Spec == Init /\ [][Next]_vars

\* Who holds a container gives it back.
FairSpec == Spec /\ \A e \in Calls : WF_vars(Release(e))
=============================================================================
