------------------------------- MODULE Access -------------------------------
(***************************************************************************)
(* The access side: the plugins that keep state by interface index, over   *)
(* one interface table (punt control, redundancy groups, the layer 2       *)
(* gateway and pseudowire headends), and the policer of what is punted.    *)
(* VPP deletes interfaces and gives their indices to new ones; the gateway *)
(* and the headends hear of it, the others do not.  Which plugins VPP      *)
(* loads, and what its client uses of them, is the same throughout.        *)
(***************************************************************************)
EXTENDS PuntControl, PuntPolicer, Srg, L2gw, Pseudowire

CONSTANTS
  Loadouts,     \* sets of plugins used together, and of what goes wrong about the
                \* groups: "refusing" drivers, a pool that is "moving"
  IndicesOf(_)  \* bound: the interface indices a loadout is checked with

VARIABLE loaded

vars == <<ifVars, puntVars, policerVars, srgVars, l2gwVars, pwVars, loaded>>

Init ==
  /\ IfInit /\ PuntInit /\ PolicerInit /\ SrgInit /\ L2gwInit /\ PwInit
  /\ loaded \in Loadouts
  /\ ready => "punt" \in loaded
  /\ refusals => {"srg", "refusing"} \subseteq loaded
  /\ moves = ({"srg", "moving"} \subseteq loaded)

Punt == "punt" \in loaded /\ PuntNext /\ UNCHANGED <<policerVars, srgVars, l2gwVars, pwVars, loaded>>
Policer ==
  /\ "policer" \in loaded
  /\ PolicerNext
  /\ UNCHANGED <<ifVars, puntVars, srgVars, l2gwVars, pwVars, loaded>>
Groups == "srg" \in loaded /\ SrgNext /\ UNCHANGED <<puntVars, policerVars, l2gwVars, pwVars, loaded>>
Gateway == "l2gw" \in loaded /\ L2gwNext /\ UNCHANGED <<puntVars, policerVars, srgVars, pwVars, loaded>>
Headends == "tunnel" \in loaded /\ PwNext /\ UNCHANGED <<puntVars, policerVars, srgVars, l2gwVars, loaded>>

CreateInterface(i, h) ==
  /\ i \in IndicesOf(loaded)
  /\ IfCreate(i, h)
  /\ UNCHANGED <<puntVars, policerVars, srgVars, l2gwVars, pwVars, loaded>>

\* VPP calls the plugins that asked to be told.
DeleteInterface(i) ==
  /\ careful => PuntUnused(i) /\ SrgUnused(i) /\ L2gwUnused(i) /\ PwUnused(i)
  /\ IfDelete(i)
  /\ L2gwInterfaceDel(i)
  /\ PwInterfaceDel(i)
  /\ UNCHANGED <<puntVars, policerVars, srgVars, loaded>>

MoveFib(i, f) ==
  /\ "punt" \in loaded
  /\ careful => PuntUnused(i)
  /\ IfMoveFib(i, f)
  /\ UNCHANGED <<puntVars, policerVars, srgVars, l2gwVars, pwVars, loaded>>

Next ==
  \/ Punt \/ Policer \/ Groups \/ Gateway \/ Headends
  \/ \E i, h \in Ifaces : CreateInterface(i, h)
  \/ \E i \in Ifaces : DeleteInterface(i) \/ \E f \in Fibs : MoveFib(i, f)

Spec == Init /\ [][Next]_vars
=============================================================================
