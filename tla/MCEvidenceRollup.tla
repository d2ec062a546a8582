-------------------------- MODULE MCEvidenceRollup --------------------------
(***************************************************************************)
(* Two collectors: the first reports one check about two repositories, in  *)
(* the wrong order, one of them given twice; the second a check listed     *)
(* under no task.  Tasks share checks, clusters share a task, one task     *)
(* (PS.3) has nothing but the first collector's check.  The form has its   *)
(* clusters in an order of its own.  A later ssdf mapping lists the        *)
(* unlisted check, a later form moves a task from one cluster to another.  *)
(***************************************************************************)
EXTENDS Report

MCSlots == << <<<<"C02.b", "r2">>, <<"C02.b", "r1">>, <<"C02.b", "r1">>>>, <<<<"C03.unmapped", "">>>> >>
MCPlaceholder == << <<"C02", "">>, <<"C03", "">> >>
MCQuestions == << <<"SA.q1", "">> >>
MCOrder == << <<"C02", "">>, <<"C02.b", "r1">>, <<"C02.b", "r2">>, <<"C03", "">>,
              <<"C03.unmapped", "">>, <<"SA.q1", "">> >>
MCKey == {MCOrder[i] : i \in DOMAIN MCOrder}
MCRank == [k \in MCKey |-> CHOOSE i \in DOMAIN MCOrder : MCOrder[i] = k]
MCEmitted == Valid \cup {"unset"}
MCTask == {"PO.3", "PS.1", "PS.3", "RV.1"}
MCChecks == [t \in MCTask |->
  CASE t = "PO.3" -> {"C02.b", "SA.q1"} [] t = "PS.1" -> {"C02.b"}
    [] t = "PS.3" -> {"C02.b"}          [] t = "RV.1" -> {"SA.q1"}]
MCCluster == {"1", "2"}
MCSSDFTasks == [c \in MCCluster |-> IF c = "1" THEN {"PO.3", "RV.1"} ELSE {"PS.1", "PS.3", "RV.1"}]
MCClusterOrder == <<"2", "1">>
MCLaterChecks == [MCChecks EXCEPT !["RV.1"] = {"SA.q1", "C03.unmapped"}]
MCLaterSSDFTasks == [MCSSDFTasks EXCEPT !["1"] = {"RV.1"}]
MCBuild == {{}, {"ssdf"}, {"cisa", "scanner-signatures"}}
=============================================================================
