------------------------------- MODULE MCServed ------------------------------
(***************************************************************************)
(* The parts that promise to serve somebody: scanf its caller, the interrupt *)
(* manager the devices, the network driver its card.  Each behaviour is a    *)
(* fair behaviour of one of them, the one that part names; they share no     *)
(* variable.                                                                 *)
(***************************************************************************)
EXTENDS Scanf, Interrupts, Network

VARIABLE part

vars == <<part, scanfVars, interruptVars, networkVars>>

Init ==
    /\ part \in {"scanf", "interrupts", "network"}
    /\ ScanfInit /\ InterruptInit /\ NetworkInit

\* Only the part named takes steps.
Idles(name, v) == part # name /\ UNCHANGED v

Next ==
    /\ UNCHANGED part
    /\ \/ part = "scanf" /\ ScanfNext
       \/ Idles("scanf", scanfVars)
    /\ \/ part = "interrupts" /\ InterruptNext
       \/ Idles("interrupts", interruptVars)
    /\ \/ part = "network" /\ NetworkNext
       \/ Idles("network", networkVars)

\* part never changes, so the first disjunct says that another part was chosen.
Spec ==
    /\ Init /\ [][Next]_vars
    /\ []<>(part # "scanf") \/ ScanfFairness
    /\ []<>(part # "interrupts") \/ InterruptFairness
    /\ []<>(part # "network") \/ NetworkFairness
==============================================================================
