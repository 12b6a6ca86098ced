---------------------------- MODULE CompanyRadar ----------------------------
(***************************************************************************)
(* assets/js/app.js: the corporate radar.  A target is typed, checked for  *)
(* the type that is chosen, confirmed in a dialog and read from the page   *)
(* again; public registers answer a CNPJ and an address, the rest is       *)
(* worked out on the page.  Every answer draws the page again, wherever    *)
(* the user is, with the last target consulted in the field; a client's    *)
(* profile fills the type and the target in by a timer.                    *)
(***************************************************************************)
EXTENDS Naturals, FiniteSets

CONSTANTS
    Targets,    \* bound: what is typed, by its shape: "", "cnpj", "cpf" digits, or a text
    MaxPartners \* bound: partners a register lists

TargetTypes == {"cnpj", "cpf", "nome", "endereco"}

VARIABLES
    radarState,   \* type, query, result and loading
    field,        \* what the field of the page holds
    onRadar,      \* the section is the one shown
    confirming,   \* the dialog of the operation is open
    filling,      \* the client whose profile opened the radar, until its timer fires
    consults,     \* requests to the registers under way
    wizardOpened  \* the result from which an investigation was begun

radarVars == <<radarState, field, onRadar, confirming, filling, consults, wizardOpened>>

NoTarget == [tipo |-> "none", target |-> ""]
NoMap == [kind |-> "none", of |-> "", partners |-> 0]

RadarInit ==
    /\ radarState = [tipo |-> "cnpj", query |-> "", result |-> NoMap, loading |-> FALSE]
    /\ field = "" /\ onRadar = TRUE /\ confirming = FALSE
    /\ filling = NoTarget /\ consults = {} /\ wizardOpened = NoMap

FitsTarget(tipo, q) == q # "" /\ (tipo \in {"cnpj", "cpf"} => q = tipo)
RemoteTypes == {"cnpj", "endereco"}

\* What the register's answer about a company becomes.
BuildRadar(target, partners) == [kind |-> "cnpj", of |-> target, partners |-> partners]

\* The panels drawn for a result.
RadarPanels ==
    LET r == radarState.result IN
    CASE r.kind = "none"     -> {"hint"}
      [] r.kind = "error"    -> {"error"}
      [] r.kind = "cnpj"     -> {"company", "graph", "investigate"} \union (IF r.partners > 0 THEN {"partners"} ELSE {})
      [] r.kind = "endereco" -> {"note", "geocoding"}
      [] OTHER               -> {"note", "sources"}

-----------------------------------------------------------------------------
\* renderSection('societario') with a state: the field holds its query.
Shows(state) == radarState' = state /\ field' = state.query /\ onRadar' = TRUE
SamePage == UNCHANGED <<radarState, field, onRadar>>

TypeTarget(q) ==
    /\ onRadar /\ ~confirming /\ field' = q
    /\ UNCHANGED <<radarState, onRadar, confirming, filling, consults, wizardOpened>>
ChooseTargetType(t) ==
    /\ onRadar /\ ~confirming /\ Shows([radarState EXCEPT !.tipo = t])
    /\ UNCHANGED <<confirming, filling, consults, wizardOpened>>

PressMap ==
    /\ onRadar /\ ~confirming /\ ~radarState.loading
    /\ FitsTarget(radarState.tipo, field) /\ confirming' = TRUE
    /\ SamePage /\ UNCHANGED <<filling, consults, wizardOpened>>
CancelMap ==
    /\ confirming /\ confirming' = FALSE
    /\ SamePage /\ UNCHANGED <<filling, consults, wizardOpened>>

\* The dialog is confirmed: the page is read and checked a second time.
StillFits == onRadar /\ FitsTarget(radarState.tipo, field)
ConfirmMap ==
    /\ confirming /\ confirming' = FALSE
    /\ IF ~StillFits THEN SamePage /\ UNCHANGED consults
       ELSE LET tipo == radarState.tipo
                asked == [radarState EXCEPT !.query = field] IN
            IF tipo \in RemoteTypes
            THEN /\ Shows([asked EXCEPT !.loading = TRUE])
                 /\ consults' = consults \union {[tipo |-> tipo, target |-> field]}
            ELSE /\ Shows([asked EXCEPT !.loading = FALSE, !.result = [kind |-> tipo, of |-> field, partners |-> 0]])
                 /\ UNCHANGED consults
    /\ UNCHANGED <<filling, wizardOpened>>

RegisterOutcomes(c) ==
    {[NoMap EXCEPT !.kind = "error"]} \union
    (IF c.tipo = "cnpj" THEN {BuildRadar(c.target, n) : n \in 0..MaxPartners}
     ELSE {[NoMap EXCEPT !.kind = "endereco", !.of = c.target]})
RadarAnswers(c) ==
    /\ consults' = consults \ {c}
    /\ \E result \in RegisterOutcomes(c) : Shows([radarState EXCEPT !.loading = FALSE, !.result = result])
    /\ UNCHANGED <<confirming, filling, wizardOpened>>

\* Back and forward leave the dialog open.
LeaveRadar ==
    /\ onRadar /\ onRadar' = FALSE
    /\ UNCHANGED <<radarState, field, confirming, filling, consults, wizardOpened>>
OpenRadar ==
    /\ ~onRadar /\ Shows(radarState)
    /\ UNCHANGED <<confirming, filling, consults, wizardOpened>>
SearchClient(t) ==
    /\ ~onRadar /\ ~confirming /\ Shows(radarState)
    /\ filling' = [tipo |-> t, target |-> t]
    /\ UNCHANGED <<confirming, consults, wizardOpened>>
FillClient ==
    /\ filling # NoTarget /\ filling' = NoTarget
    /\ Shows([radarState EXCEPT !.tipo = filling.tipo, !.query = filling.target])
    /\ UNCHANGED <<confirming, consults, wizardOpened>>
RadarToInvestigation ==
    /\ onRadar /\ ~confirming /\ "investigate" \in RadarPanels
    /\ wizardOpened' = radarState.result /\ SamePage
    /\ UNCHANGED <<confirming, filling, consults>>

RadarNext ==
    \/ \E q \in Targets : TypeTarget(q)
    \/ \E t \in TargetTypes : ChooseTargetType(t)
    \/ PressMap \/ CancelMap \/ ConfirmMap
    \/ \E c \in consults : RadarAnswers(c)
    \/ LeaveRadar \/ OpenRadar \/ FillClient \/ RadarToInvestigation
    \/ \E t \in {"cnpj", "cpf"} : SearchClient(t)

(***************************************************************************)
(* Properties.                                                             *)
(***************************************************************************)
\* The page waits exactly as long as a consultation is under way, and only
\* one ever is, whatever is opened, confirmed or filled in meanwhile.
OneConsultation ==
    /\ radarState.loading <=> consults # {}
    /\ Cardinality(consults) <= 1

\* A register is asked for nothing but a target of the type it keeps, though
\* the page may have changed between the check and the confirmation; a result
\* is of what was asked, and an investigation begins from a company only.
ConsultsFit ==
    /\ \A c \in consults : c.tipo \in RemoteTypes /\ FitsTarget(c.tipo, c.target)
    /\ radarState.result.kind \in TargetTypes => FitsTarget(radarState.result.kind, radarState.result.of)
    /\ wizardOpened # NoMap => wizardOpened.of = "cnpj"

\* The radar asks one thing at a time, and only what it may.
RadarSafety == OneConsultation /\ ConsultsFit
=============================================================================
