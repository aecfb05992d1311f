---- MODULE MCClientConfig ----
(* Three programs in one run, for their state is disjoint: the table of      *)
(* servers, the setting up of the machines, and the routing scripts, each    *)
(* beside the others as they are at first.                                   *)
EXTENDS MCFakeIps, Provision, PolicyRoutes

ConfigInit == Init /\ ProvisionInit /\ PolicyInit

ConfigSpec ==
    /\ ConfigInit
    /\ [][ \/ ProvisionInit /\ PolicyInit /\ Next /\ UNCHANGED <<provision, policy>>
           \/ Init /\ PolicyInit /\ ProvisionNext /\ UNCHANGED <<vars, policy>>
           \/ Init /\ ProvisionInit /\ PolicyNext /\ UNCHANGED <<vars, provision>>
         ]_<<vars, provision, policy>>

====
