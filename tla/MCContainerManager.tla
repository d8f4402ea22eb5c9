------------------------ MODULE MCContainerManager ------------------------
(***************************************************************************)
(* ContainerManager on small instances. Containers, calls and stop calls   *)
(* are interchangeable, which the safety runs exploit.                     *)
(***************************************************************************)
EXTENDS ContainerManager, TLC

\* killAll does not lose track of its kill process, and that one works.
NoKillFaults == Requests \ {"killCreate", "killStart", "killInspect", "kill"}

Symmetry ==
    Permutations(Containers) \cup Permutations(Calls) \cup Permutations(StopCalls)

===========================================================================
