------------------------------ MODULE MCRecords ------------------------------
(***************************************************************************)
(* Instances for TLC of what is kept, the audit chain and the records of   *)
(* the API, and of the pages that change it.  A behaviour follows one of   *)
(* them, the scene, from its first state; the others stay in theirs.       *)
(***************************************************************************)
EXTENDS AuditLedger, LegalRecords, Custody, Access, Workspace, RecordForms,
        Calculators, ProcessFile, EvidenceDesk, InvestigationDesk

CONSTANT Scenes

MCAmounts == {0, 5, 60}
MCDecimals == {<<0, 1>>, <<105, 100>>, <<125, 10>>}

VARIABLE scene

ScenesInit ==
    /\ scene \in Scenes
    /\ Init /\ LegalInit /\ CustodyInit /\ AccessInit /\ WorkspaceInit /\ FormInit
    /\ CalcInit /\ SuitsInit /\ EvidenceInit /\ DeskInit

ScenesNext ==
    /\ UNCHANGED scene
    /\ \/ /\ scene = "ledger" /\ Next
          /\ UNCHANGED <<legalVars, workspaceVars, recordFormVars, calcVars, suitVars,
                        evidenceVars, deskVars, custodyVars, accessVars>>
       \/ /\ scene = "records" /\ LegalNext
          /\ UNCHANGED <<vars, workspaceVars, recordFormVars, calcVars, suitVars,
                        evidenceVars, deskVars, custodyVars, accessVars>>
       \/ /\ scene = "custody" /\ CustodyNext
          /\ UNCHANGED <<vars, legalVars, workspaceVars, recordFormVars, calcVars,
                        suitVars, evidenceVars, deskVars, accessVars>>
       \/ /\ scene = "sessions" /\ SessionNext
          /\ UNCHANGED <<vars, legalVars, workspaceVars, recordFormVars, calcVars,
                        suitVars, evidenceVars, deskVars, custodyVars>>
       \/ /\ scene = "limits" /\ RateNext
          /\ UNCHANGED <<vars, legalVars, workspaceVars, recordFormVars, calcVars,
                        suitVars, evidenceVars, deskVars, custodyVars>>
       \/ /\ scene = "workspace" /\ WorkspaceNext
          /\ UNCHANGED <<vars, legalVars, recordFormVars, calcVars, suitVars,
                        evidenceVars, deskVars, custodyVars, accessVars>>
       \/ /\ scene = "forms" /\ FormNext
          /\ UNCHANGED <<vars, legalVars, workspaceVars, calcVars, suitVars,
                        evidenceVars, deskVars, custodyVars, accessVars>>
       \/ /\ scene = "calculators" /\ CalcNext
          /\ UNCHANGED <<vars, legalVars, workspaceVars, recordFormVars, suitVars,
                        evidenceVars, deskVars, custodyVars, accessVars>>
       \/ /\ scene = "file" /\ SuitsNext
          /\ UNCHANGED <<vars, legalVars, workspaceVars, recordFormVars, calcVars,
                        evidenceVars, deskVars, custodyVars, accessVars>>
       \/ /\ scene = "evidence" /\ EvidenceNext
          /\ UNCHANGED <<vars, legalVars, workspaceVars, recordFormVars, calcVars,
                        suitVars, deskVars, custodyVars, accessVars>>
       \/ /\ scene = "tools" /\ ToolNext
          /\ UNCHANGED <<vars, legalVars, workspaceVars, recordFormVars, calcVars,
                        suitVars, deskVars, custodyVars, accessVars>>
       \/ /\ scene = "desk" /\ DeskNext
          /\ UNCHANGED <<vars, legalVars, workspaceVars, recordFormVars, calcVars,
                        suitVars, evidenceVars, custodyVars, accessVars>>
       \/ /\ scene = "collect" /\ CollectNext
          /\ UNCHANGED <<vars, legalVars, workspaceVars, recordFormVars, calcVars,
                        suitVars, evidenceVars, custodyVars, accessVars>>
       \/ /\ scene = "reports" /\ ReportNext
          /\ UNCHANGED <<vars, legalVars, workspaceVars, recordFormVars, calcVars,
                        suitVars, evidenceVars, custodyVars, accessVars>>

scenesVars == <<scene, vars, legalVars, custodyVars, accessVars, workspaceVars, recordFormVars,
                calcVars, suitVars, evidenceVars, deskVars>>

ScenesSpec == ScenesInit /\ [][ScenesNext]_scenesVars
=============================================================================
