----------------------------- MODULE MCDecisions -----------------------------
(***************************************************************************)
(* Small instances of the modules in which people answer and decide.  They *)
(* share no state (complaints and applications share the table of claims   *)
(* only), so a behaviour is one of one part, chosen at its start, and the  *)
(* variables of the others stand still.                                    *)
(***************************************************************************)
EXTENDS TelegramContact, ComplaintForms, ApplicationForms, ActionApproval, PunishmentForms, TLC

CONSTANTS m1, m2, m3, u1, u2, t1, t2, f1, f2, q1, q2, q3, k1, k2, r1, r2

MCAuthor == (m1 :> u1) @@ (m2 :> u1) @@ (m3 :> u2)
MCText == (m1 :> t1) @@ (m2 :> t2) @@ (m3 :> t1)
OneAuthor == [c \in Complaints |-> u1]
OneRequester == [q \in Requests |-> u1]

VARIABLE part

complaintOnly == <<source, intake, intakeLock, cooling, channel, known, inChannel, archive,
                   deciding, verdicts, tooLate>>
applicationOnly == <<card, applicant, granted, asked, review, outcome, report>>

\* A part that stands still starts in one of its initial states.
DecisionsInit ==
  /\ part \in {"contact", "complaints", "applications", "approvals", "punishments"}
  /\ Init
  /\ ComplaintInit /\ (part # "complaints" => \A c \in Complaints : ~intake[c].evidence)
  /\ ApplicationInit
  /\ ApprovalInit
  /\ PunishInit /\ (part # "punishments" => \A m \in Members : record[m] = {})

DecisionsNext ==
  /\ UNCHANGED part
  /\ \/ /\ part = "contact" /\ Next
        /\ UNCHANGED <<claimVars, complaintOnly, applicationOnly, approvalVars, punishVars>>
     \/ /\ part = "complaints" /\ ComplaintNext
        /\ UNCHANGED <<vars, applicationOnly, approvalVars, punishVars>>
     \/ /\ part = "applications" /\ ApplicationNext
        /\ UNCHANGED <<vars, complaintOnly, approvalVars, punishVars>>
     \/ /\ part = "approvals" /\ ApprovalNext
        /\ UNCHANGED <<vars, claimVars, complaintOnly, applicationOnly, punishVars>>
     \/ /\ part = "punishments" /\ PunishNext
        /\ UNCHANGED <<vars, claimVars, complaintOnly, applicationOnly, approvalVars>>

DecisionsSpec ==
  DecisionsInit /\ [][DecisionsNext]_<<part, vars, claimVars, complaintOnly, applicationOnly,
                                       approvalVars, punishVars>>
=============================================================================
