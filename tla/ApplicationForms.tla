--------------------------- MODULE ApplicationForms ---------------------------
(***************************************************************************)
(* Applications to a squad (cogs/forms.py, forms.py).  A message becomes a *)
(* card with two buttons in the reviewers' channel.  Accepting gives the   *)
(* squad's roles one after the other and reports which were given;         *)
(* rejecting only reports.  The buttons outlive a restart, the decision at *)
(* work does not.                                                          *)
(***************************************************************************)
EXTENDS FormClaims

CONSTANTS
  Applications,    \* cards in the reviewers' channel
  SquadRoles,      \* the roles a squad gives
  Reviewers        \* interactions that reviewers may have at work at one time

ASSUME ApplicationAssumption == Applications \subseteq FormMessages

VARIABLES
  card,         \* [Applications -> "none", "checked", "posted" or "refused"]
  applicant,    \* [Applications -> what the applicant was told: "nothing", "kept" or "under review"]
  granted,      \* [Applications -> the roles Discord gave]
  asked,        \* ghost: [Applications -> [SquadRoles -> how often Discord was asked]]
  review,       \* [Reviewers -> the decision at work]
  outcome,      \* ghost: [Applications -> the claimed decisions]
  report        \* [Applications -> what the staff was told of the roles]

applicationVars == <<decided, processed, card, applicant, granted, asked, review, outcome, report>>

NoReview == [pc |-> "idle"]
Reviews == {NoReview} \cup
  [pc : {"claim", "roles", "report"}, of : Applications, accept : BOOLEAN,
   given : SUBSET SquadRoles, failed : SUBSET SquadRoles]

ApplicationTypeOK ==
  /\ ClaimTypeOK
  /\ card \in [Applications -> {"none", "checked", "posted", "refused"}]
  /\ applicant \in [Applications -> {"nothing", "kept", "under review"}]
  /\ granted \in [Applications -> SUBSET SquadRoles]
  /\ asked \in [Applications -> [SquadRoles -> Nat]]
  /\ review \in [Reviewers -> Reviews]
  /\ \A k \in Reviewers : review[k] # NoReview /\ review[k].pc = "report" /\ review[k].accept
                          => review[k].given \cup review[k].failed = SquadRoles
  /\ outcome \in [Applications -> SUBSET BOOLEAN]
  /\ report \in [Applications -> SUBSET {"rejected", "accepted", "partly accepted"}]

ApplicationInit ==
  /\ ClaimInit
  /\ card = [a \in Applications |-> "none"]
  /\ applicant = [a \in Applications |-> "nothing"]
  /\ granted = [a \in Applications |-> {}]
  /\ asked = [a \in Applications |-> [r \in SquadRoles |-> 0]]
  /\ review = [k \in Reviewers |-> NoReview]
  /\ outcome = [a \in Applications |-> {}]
  /\ report = [a \in Applications |-> {}]

cardVars == <<card, applicant>>

-----------------------------------------------------------------------------
\* A message with its four lines for this squad, and a reviewers' channel, passes;
\* the checks of the accounts never stop it.
Apply(a) ==
  /\ card[a] = "none"
  /\ card' \in {[card EXCEPT ![a] = "checked"], [card EXCEPT ![a] = "refused"]}
  /\ UNCHANGED <<applicant, granted, asked, review, outcome, report, claimVars>>

\* The card is posted, or the applicant is told that it could not be; when the
\* answer is lost both are so.
PostCard(a) ==
  /\ card[a] = "checked"
  /\ \E posts, answered \in BOOLEAN :
       /\ card' = [card EXCEPT ![a] = IF posts THEN "posted" ELSE "refused"]
       /\ applicant' = [applicant EXCEPT ![a] = IF posts /\ answered THEN "under review" ELSE "kept"]
  /\ UNCHANGED <<granted, asked, review, outcome, report, claimVars>>

\* A reviewer presses a button: the applicant is named on the card and, to be
\* accepted, still a member.
PressCard(k, a, accept) ==
  /\ review[k] = NoReview /\ card[a] = "posted"
  /\ review' = [review EXCEPT ![k] = [pc |-> "claim", of |-> a, accept |-> accept, given |-> {}, failed |-> {}]]
  /\ UNCHANGED <<cardVars, granted, asked, outcome, report, claimVars>>

\* Mutant: a refused claim does not stop the decision.
ClaimCardLax(k) ==
  /\ review[k].pc = "claim"
  /\ \/ ClaimForm(review[k].of)
     \/ ClaimFormRefused(review[k].of)
  /\ review' = [review EXCEPT ![k].pc = IF review[k].accept THEN "roles" ELSE "report"]
  /\ outcome' = [outcome EXCEPT ![review[k].of] = @ \cup {review[k].accept}]
  /\ UNCHANGED <<cardVars, granted, asked, report>>

\* After the claim the buttons are switched off, if Discord lets them.
ClaimCard(k) ==
  /\ review[k].pc = "claim"
  /\ \/ /\ ClaimForm(review[k].of)
        /\ review' = [review EXCEPT ![k].pc = IF review[k].accept THEN "roles" ELSE "report"]
        /\ outcome' = [outcome EXCEPT ![review[k].of] = @ \cup {review[k].accept}]
     \/ /\ ClaimFormRefused(review[k].of)
        /\ review' = [review EXCEPT ![k] = NoReview]
        /\ UNCHANGED outcome
  /\ UNCHANGED <<cardVars, granted, asked, report>>

\* One role: given; not given for want of the role or the right; or given although
\* the answer is lost, and then reported as failed.
GrantRole(k, r) ==
  /\ review[k].pc = "roles" /\ r \notin review[k].given \cup review[k].failed
  /\ asked' = [asked EXCEPT ![review[k].of][r] = @ + 1]
  /\ \E gives, answered \in BOOLEAN :
       /\ granted' = [granted EXCEPT ![review[k].of] = IF gives THEN @ \cup {r} ELSE @]
       /\ review' = IF gives /\ answered THEN [review EXCEPT ![k].given = @ \cup {r}]
                    ELSE [review EXCEPT ![k].failed = @ \cup {r}]
  /\ UNCHANGED <<cardVars, outcome, report, claimVars>>

RolesDone(k) ==
  /\ review[k].pc = "roles" /\ review[k].given \cup review[k].failed = SquadRoles
  /\ review' = [review EXCEPT ![k].pc = "report"]
  /\ UNCHANGED <<cardVars, granted, asked, outcome, report, claimVars>>

\* The applicant gets a DM, the log and the reviewer the list of roles.
ReportOutcome(k) ==
  /\ review[k].pc = "report"
  /\ LET says == IF ~review[k].accept THEN "rejected"
                 ELSE IF review[k].failed = {} THEN "accepted" ELSE "partly accepted"
     IN  report' = [report EXCEPT ![review[k].of] = @ \cup {says}]
  /\ review' = [review EXCEPT ![k] = NoReview]
  /\ UNCHANGED <<cardVars, granted, asked, outcome, claimVars>>

\* The process stops and starts: what is at work is lost, the cards stand.
ApplicationRestart ==
  /\ ForgetClaims
  /\ review' = [k \in Reviewers |-> NoReview]
  /\ card' = [a \in Applications |-> IF card[a] = "checked" THEN "refused" ELSE card[a]]
  /\ UNCHANGED <<applicant, granted, asked, outcome, report>>

ReviewStep(k) ==
  \/ \E a \in Applications, accept \in BOOLEAN : PressCard(k, a, accept)
  \/ ClaimCard(k) \/ RolesDone(k) \/ ReportOutcome(k)
  \/ \E r \in SquadRoles : GrantRole(k, r)

ApplicationNext ==
  \/ \E a \in Applications : Apply(a) \/ PostCard(a)
  \/ \E k \in Reviewers : ReviewStep(k)
  \/ ApplicationRestart

ApplicationSpec == ApplicationInit /\ [][ApplicationNext]_applicationVars

-----------------------------------------------------------------------------
\* An application is accepted or rejected, not both and not twice: each role is
\* asked for at most once and never for a rejected one, whoever presses what,
\* across restarts and failed writes (forms.py:31-46, 218-310).
DecidedOnce ==
  \A a \in Applications :
    /\ Cardinality(outcome[a]) <= 1
    /\ \A r \in SquadRoles : asked[a][r] <= (IF TRUE \in outcome[a] THEN 1 ELSE 0)

\* "Accepted, roles given" is said only of applicants who have every role, and an
\* applicant is told of a review only when reviewers have the card
\* (forms.py:300-305, cogs/forms.py:494-528).
ReportTrue ==
  \A a \in Applications :
    /\ "accepted" \in report[a] => granted[a] = SquadRoles
    /\ applicant[a] = "under review" => card[a] = "posted"

\* An application is decided once, and what is said about it is so
\* (forms.py:31-46, 218-310, cogs/forms.py:494-528).
ApplicationDecided == ApplicationTypeOK /\ DecidedOnce /\ ReportTrue
=============================================================================
