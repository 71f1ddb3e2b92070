------------------------------ MODULE Checklist ------------------------------
(***************************************************************************)
(* The checklist of one student.  The compliance report reads checklist,   *)
(* simulados and lessons side by side, derives two steps and writes them   *)
(* when they differ from what it read; updateStep ticks a step by hand     *)
(* after a look at the LADV; getChecklist creates a missing row; and a     *)
(* simulado that is passed is what the theory step is derived from.        *)
(***************************************************************************)
EXTENDS Naturals, Handlers

CONSTANTS
    SimuladoScores,     \* right answers of the simulados that are handed in
    SimuladoMinutes     \* and the minutes they took

ASSUME ChecklistAssumption == SimuladoScores \subseteq Nat /\ SimuladoMinutes \subseteq Nat

VARIABLES
    checklist,      \* the row of StudentChecklist
    dossier,        \* a simulado passed, the practice completed, the LADV valid: now
    clerk,          \* [Requests -> report, updateStep or getChecklist]
    ticked,         \* history: steps that were ever ticked by hand
    once            \* history: practice completed, LADV valid at some time

checklistVars == <<checklist, dossier, clerk, ticked, once>>

Steps == {"teorico", "pratico"}

ChecklistRow == [exists : BOOLEAN, teorico : BOOLEAN, pratico : BOOLEAN]

NoChecklist == [exists |-> FALSE, teorico |-> FALSE, pratico |-> FALSE]

\* The three reads of a report that are under way together.
Sources == {"checklist", "simulado", "lessons"}

\* row: the checklist it read; value: the steps it derived, or the one it ticks.
ClerkSlot ==
    [at : {"idle", "report", "save", "create", "upsert"}, left : SUBSET Sources,
     row : ChecklistRow, value : ChecklistRow, step : Steps, quiet : BOOLEAN]

NoClerk ==
    [at |-> "idle", left |-> {}, row |-> NoChecklist, value |-> NoChecklist,
     step |-> "teorico", quiet |-> FALSE]

ChecklistInit ==
    /\ checklist = NoChecklist
    /\ dossier = [simulado |-> FALSE, practice |-> FALSE, ladv |-> FALSE]
    /\ clerk = [r \in Requests |-> NoClerk]
    /\ ticked = {}
    /\ once = [practice |-> FALSE, ladv |-> FALSE]

\* quiet: history, no other handler has changed anything since the report began.
Disturb(r, slot) ==
    clerk' = [q \in Requests |-> IF q = r THEN slot ELSE [clerk[q] EXCEPT !.quiet = FALSE]]

ClerkMoves(r, slot) == clerk' = [clerk EXCEPT ![r] = slot]

ClerkAt(r, at) == clerk[r].at = at

(***************************************************************************)
(* getComplianceReport                                                     *)
(***************************************************************************)
StartReport(r) ==
    /\ ClerkAt(r, "idle")
    /\ ClerkMoves(r, [NoClerk EXCEPT !.at = "report", !.left = Sources, !.quiet = TRUE])
    /\ UNCHANGED <<checklist, dossier, ticked, once>>

\* An upsert that updates nothing: a missing row is created.
ReadChecklist(r) ==
    /\ ClerkAt(r, "report") /\ "checklist" \in clerk[r].left
    /\ checklist' = [checklist EXCEPT !.exists = TRUE]
    /\ ClerkMoves(r, [clerk[r] EXCEPT !.left = @ \ {"checklist"}, !.row = checklist'])
    /\ UNCHANGED <<dossier, ticked, once>>

ReadSimulado(r) ==
    /\ ClerkAt(r, "report") /\ "simulado" \in clerk[r].left
    /\ ClerkMoves(r, [clerk[r] EXCEPT !.left = @ \ {"simulado"},
                                      !.value = [@ EXCEPT !.teorico = dossier.simulado]])
    /\ UNCHANGED <<checklist, dossier, ticked, once>>

\* 120 minutes of completed lessons with three biometries.
ReadLessons(r) ==
    /\ ClerkAt(r, "report") /\ "lessons" \in clerk[r].left
    /\ ClerkMoves(r, [clerk[r] EXCEPT !.left = @ \ {"lessons"},
                                      !.value = [@ EXCEPT !.pratico = dossier.practice]])
    /\ UNCHANGED <<checklist, dossier, ticked, once>>

\* Mutant: written when both steps differ.
CompareReport_Both(r) ==
    /\ ClerkAt(r, "report") /\ clerk[r].left = {}
    /\ ClerkMoves(r, IF /\ clerk[r].row.teorico # clerk[r].value.teorico
                        /\ clerk[r].row.pratico # clerk[r].value.pratico
                     THEN [clerk[r] EXCEPT !.at = "save"] ELSE NoClerk)
    /\ UNCHANGED <<checklist, dossier, ticked, once>>

CompareReport(r) ==
    /\ ClerkAt(r, "report") /\ clerk[r].left = {}
    /\ ClerkMoves(r, IF \/ clerk[r].row.teorico # clerk[r].value.teorico
                        \/ clerk[r].row.pratico # clerk[r].value.pratico
                     THEN [clerk[r] EXCEPT !.at = "save"] ELSE NoClerk)
    /\ UNCHANGED <<checklist, dossier, ticked, once>>

\* Over whatever the row says by now, a step ticked by hand included.
SaveReport(r) ==
    /\ ClerkAt(r, "save")
    /\ checklist' = [checklist EXCEPT !.teorico = clerk[r].value.teorico,
                                      !.pratico = clerk[r].value.pratico]
    /\ Disturb(r, NoClerk)
    /\ UNCHANGED <<dossier, ticked, once>>

(***************************************************************************)
(* updateStep, getChecklist                                                *)
(***************************************************************************)
\* Mutant: the LADV is not looked at.
UpdateStep_AnyLadv(r, step, completed) ==
    /\ ClerkAt(r, "idle")
    /\ ClerkMoves(r, [NoClerk EXCEPT !.at = "upsert", !.step = step,
                                     !.value = [@ EXCEPT ![step] = completed]])
    /\ UNCHANGED <<checklist, dossier, ticked, once>>

\* 'medico' and 'psicotecnico' pass the check of the step and fail in the upsert:
\* the table has no such columns.
UpdateStep(r, step, completed) ==
    /\ ClerkAt(r, "idle")
    /\ step = "pratico" /\ completed => dossier.ladv
    /\ ClerkMoves(r, [NoClerk EXCEPT !.at = "upsert", !.step = step,
                                     !.value = [@ EXCEPT ![step] = completed]])
    /\ UNCHANGED <<checklist, dossier, ticked, once>>

UpsertStep(r) ==
    /\ ClerkAt(r, "upsert")
    /\ LET step == clerk[r].step
           completed == clerk[r].value[step] IN
       /\ checklist' = [checklist EXCEPT !.exists = TRUE, ![step] = completed]
       /\ ticked' = IF completed THEN ticked \cup {step} ELSE ticked
    /\ Disturb(r, NoClerk)
    /\ UNCHANGED <<dossier, once>>

GetChecklist(r) ==
    /\ ClerkAt(r, "idle") /\ ~checklist.exists
    /\ ClerkMoves(r, [NoClerk EXCEPT !.at = "create"])
    /\ UNCHANGED <<checklist, dossier, ticked, once>>

\* The student id is unique: the second of two that found no row fails.
CreateChecklist(r) ==
    /\ ClerkAt(r, "create")
    /\ checklist' = [checklist EXCEPT !.exists = TRUE]
    /\ ClerkMoves(r, NoClerk)
    /\ UNCHANGED <<dossier, ticked, once>>

ClerkCrash(r) ==
    /\ ~ClerkAt(r, "idle")
    /\ ClerkMoves(r, NoClerk)
    /\ UNCHANGED <<checklist, dossier, ticked, once>>

(***************************************************************************)
(* What the steps are derived from                                         *)
(***************************************************************************)
\* submitSimulado.  One handed in before fifteen minutes is turned down; one that
\* fails is kept in a history from which nothing is derived.
SubmitSimulado(score, minutes) ==
    /\ minutes >= 15
    /\ score >= 21 /\ ~dossier.simulado
    /\ dossier' = [dossier EXCEPT !.simulado = TRUE]
    /\ Disturb(None, NoClerk)
    /\ UNCHANGED <<checklist, ticked, once>>

\* Lessons are completed, and leave completed; LADVs are saved, and expire.
DossierChanges(practice, ladv) ==
    /\ dossier' = [dossier EXCEPT !.practice = practice, !.ladv = ladv]
    /\ dossier' # dossier
    /\ once' = [practice |-> once.practice \/ practice, ladv |-> once.ladv \/ ladv]
    /\ Disturb(None, NoClerk)
    /\ UNCHANGED <<checklist, ticked>>

ChecklistNext ==
    \/ \E r \in Requests :
         \/ StartReport(r) \/ ReadChecklist(r) \/ ReadSimulado(r) \/ ReadLessons(r)
         \/ CompareReport(r) \/ SaveReport(r)
         \/ \E step \in Steps, completed \in BOOLEAN : UpdateStep(r, step, completed)
         \/ UpsertStep(r) \/ GetChecklist(r) \/ CreateChecklist(r) \/ ClerkCrash(r)
    \/ \E score \in SimuladoScores, minutes \in SimuladoMinutes : SubmitSimulado(score, minutes)
    \/ \E practice, ladv \in BOOLEAN : DossierChanges(practice, ladv)

ChecklistSpec == ChecklistInit /\ [][ChecklistNext]_checklistVars

(***************************************************************************)
(* Properties                                                              *)
(***************************************************************************)
\* Rows and requests have the columns and values of the code.
ChecklistTypeOK ==
    /\ checklist \in ChecklistRow
    /\ dossier \in [simulado : BOOLEAN, practice : BOOLEAN, ladv : BOOLEAN]
    /\ clerk \in [Requests -> ClerkSlot]
    /\ ticked \subseteq Steps
    /\ once \in [practice : BOOLEAN, ladv : BOOLEAN]

\* The theory step is on the list only with a simulado passed or a tick by hand;
\* the practice step only if the minutes were completed at some time, or by a tick
\* when a LADV was valid: whatever reports and ticks overtake each other.
ChecklistIsEarned ==
    /\ checklist.teorico => dossier.simulado \/ "teorico" \in ticked
    /\ checklist.pratico => once.practice \/ ("pratico" \in ticked /\ once.ladv)

ReportEnds(r) == SaveReport(r) \/ (CompareReport(r) /\ clerk'[r].at = "idle")

\* A report that nothing disturbs leaves the checklist at what simulados and
\* lessons say at that moment: it takes back what they no longer support.
ReportIsCurrent ==
    [][\A r \in Requests :
         ReportEnds(r) /\ clerk[r].quiet =>
            /\ checklist'.teorico = dossier.simulado
            /\ checklist'.pratico = dossier.practice]_checklistVars

(***************************************************************************)
(* What makes them so                                                      *)
(***************************************************************************)
ClerkInv(r) ==
    LET slot == clerk[r] IN
    /\ slot.at \in {"report", "save"} =>
         /\ slot.value.teorico => dossier.simulado
         /\ slot.value.pratico => once.practice
    /\ slot.at = "upsert" /\ slot.step = "pratico" /\ slot.value.pratico => once.ladv
    /\ slot.at \in {"report", "save"} /\ slot.quiet =>
         /\ "simulado" \notin slot.left => slot.value.teorico = dossier.simulado
         /\ "lessons" \notin slot.left => slot.value.pratico = dossier.practice
         /\ "checklist" \notin slot.left =>
              slot.row.teorico = checklist.teorico /\ slot.row.pratico = checklist.pratico
    /\ slot.at = "save" => slot.left = {}

\* Inductive.
ChecklistInv ==
    /\ ChecklistTypeOK
    /\ ChecklistIsEarned
    /\ dossier.practice => once.practice
    /\ dossier.ladv => once.ladv
    /\ \A r \in Requests : ClerkInv(r)
=============================================================================
