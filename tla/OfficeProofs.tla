---------------------------- MODULE OfficeProofs ----------------------------
(***************************************************************************)
(* The screens of an organization: its members, its setup and the accounts *)
(* of its people.  A person is admitted once, by one invitation, and stays *)
(* out when removed; a workspace that is set up has its answers; a second  *)
(* factor is only switched on with a secret the user has.  All of this for *)
(* any number of invitations, links, secrets and overlapping requests.     *)
(***************************************************************************)
EXTENDS Screens, Sequences, TLAPS

-----------------------------------------------------------------------------
(* Members and invitations. *)

\* Who has got an account by a visit or an invitation: while there is none
\* nobody has, a visit that just got it is the only one, and nothing was
\* accepted before.
Admitted ==
    /\ member = "none" => /\ \A v \in visits : v.at # "joined"
                          /\ \A i \in DOMAIN invites : invites[i] # "accepted"
    /\ \A v \in visits : v.at = "joined" =>
          /\ \A w \in visits : w.at = "joined" => w = v
          /\ \A i \in DOMAIN invites : invites[i] # "accepted"
    /\ \A i, j \in DOMAIN invites :
          invites[i] = "accepted" /\ invites[j] = "accepted" => i = j

MembershipInv == membership!TypeOK /\ Admitted

-----------------------------------------------------------------------------
(* The types. *)

\* What SetStatus does to the sequence of invitations.
LEMMA StatusIsSet ==
    ASSUME membership!TypeOK, NEW i, NEW status \in membership!Statuses,
          membership!SetStatus(i, status)
    PROVE  /\ invites' \in Seq(membership!Statuses) /\ DOMAIN invites' = DOMAIN invites
           /\ \A j \in DOMAIN invites : j # i => invites'[j] = invites[j]
           /\ \A j \in DOMAIN invites : invites'[j] \in {invites[j], status}
<1>1. invites \in Seq(membership!Statuses) /\ invites' = [invites EXCEPT ![i] = status]
  BY DEF membership!TypeOK, membership!SetStatus
<1>2. DOMAIN invites' = DOMAIN invites /\ \A j \in DOMAIN invites : j # i => invites'[j]
     = invites[j]
  BY <1>1
<1>3. \A j \in DOMAIN invites : invites'[j] \in {invites[j], status}
  BY <1>1
<1>4. invites' \in Seq(membership!Statuses)
  <2>1. DOMAIN invites = 1..Len(invites) /\ Len(invites) \in Nat
    BY <1>1
  <2>2. \A j \in 1..Len(invites) : invites[j] \in membership!Statuses
    BY <1>1
  <2>3. invites' \in [1..Len(invites) -> membership!Statuses]
    BY <1>1, <1>3, <2>1, <2>2
  <2> QED
    BY <2>1, <2>3
<1> QED
  BY <1>2, <1>3, <1>4

\* What one more invitation does to it.
LEMMA InvitationAdded ==
    ASSUME membership!TypeOK, invites' = Append(invites, "pending")
    PROVE  /\ invites' \in Seq(membership!Statuses)
           /\ DOMAIN invites \subseteq DOMAIN invites'
           /\ \A j \in DOMAIN invites : invites'[j] = invites[j]
           /\ \A j \in DOMAIN invites' : j \notin DOMAIN invites => invites'[j]
                 = "pending"
<1>1. invites \in Seq(membership!Statuses) /\ "pending" \in membership!Statuses
  BY DEF membership!TypeOK, membership!Statuses
<1>2. Len(invites) \in Nat /\ DOMAIN invites = 1..Len(invites)
  BY <1>1
<1>3. invites' \in Seq(membership!Statuses) /\ Len(invites') = Len(invites) + 1
  BY <1>1
<1>4. DOMAIN invites' = 1..(Len(invites) + 1)
  BY <1>2, <1>3
<1>5. \A j \in 1..Len(invites) : invites'[j] = invites[j]
  BY <1>1
<1>6. invites'[Len(invites) + 1] = "pending"
  BY <1>1
<1> QED
  BY <1>2, <1>3, <1>4, <1>5, <1>6

\* Every step keeps the types.
LEMMA MembershipTypeStep == membership!TypeOK /\ [membership!Next]_(membership!vars)
      => membership!TypeOK'
<1> SUFFICES ASSUME membership!TypeOK, [membership!Next]_(membership!vars)
     PROVE membership!TypeOK'
  OBVIOUS
<1> USE DEF membership!TypeOK
<1>1. CASE membership!SubmitInvite
  BY <1>1, AccountsAssumption DEF membership!SubmitInvite, membership!Handle,
     membership!Changes
<1>2. ASSUME NEW i \in 1..MaxInvites, membership!InvitationAction(i)
     PROVE membership!TypeOK'
  BY <1>2 DEF membership!InvitationAction, membership!Handle, membership!Changes
<1>3. CASE membership!DeactivateMember
  BY <1>3, AccountsAssumption DEF membership!DeactivateMember, membership!Handle,
     membership!Changes
<1>4. ASSUME NEW h \in changes, membership!CheckPending(h) PROVE membership!TypeOK'
  BY <1>4 DEF membership!CheckPending, membership!Moves, membership!Changes
<1>5. ASSUME NEW h \in changes, membership!Revoke(h) PROVE membership!TypeOK'
  <2>1. invites' \in Seq(membership!Statuses) /\ DOMAIN invites' = DOMAIN invites
    BY <1>5, StatusIsSet DEF membership!Revoke, membership!Statuses
  <2>2. changes' \subseteq membership!Changes
    BY <1>5 DEF membership!Revoke, membership!Moves, membership!Changes
  <2> QED
    BY <1>5, <2>1, <2>2 DEF membership!Revoke
<1>6. ASSUME NEW h \in changes, membership!CreateInvitation(h) PROVE membership!TypeOK'
  <2>1. invites' \in Seq(membership!Statuses)
       /\ DOMAIN invites \subseteq DOMAIN invites'
    BY <1>6, InvitationAdded DEF membership!CreateInvitation
  <2>2. changes' \subseteq membership!Changes
    BY <1>6 DEF membership!CreateInvitation, membership!Moves, membership!Changes
  <2> QED
    BY <1>6, <2>1, <2>2 DEF membership!CreateInvitation
<1>7. ASSUME NEW h \in changes, membership!RemoveMember(h) PROVE membership!TypeOK'
  BY <1>7 DEF membership!RemoveMember, membership!Moves, membership!Changes,
     membership!Accounts
<1>8. ASSUME NEW h \in changes, membership!RequestFails(h) PROVE membership!TypeOK'
  BY <1>8 DEF membership!RequestFails, membership!Moves, membership!Changes
<1>9. ASSUME NEW h \in changes, membership!HandlerEnds(h) PROVE membership!TypeOK'
  BY <1>9 DEF membership!HandlerEnds, membership!Changes
<1>10. ASSUME NEW i \in 1..MaxInvites, membership!OpenLink(i) PROVE membership!TypeOK'
  BY <1>10 DEF membership!OpenLink, membership!IsPending, membership!Valid,
     membership!Lapsed, membership!console, membership!Visits
<1>11. ASSUME NEW v \in visits, membership!Accept(v) PROVE membership!TypeOK'
  BY <1>11 DEF membership!Accept, membership!Turn, membership!console, membership!Visits
<1>12. ASSUME NEW v \in visits, membership!CheckInvitation(v) PROVE membership!TypeOK'
  BY <1>12 DEF membership!CheckInvitation, membership!IsPending, membership!Valid,
     membership!Lapsed, membership!Turn, membership!console, membership!Visits
<1>13. ASSUME NEW v \in visits, membership!Join(v) PROVE membership!TypeOK'
  BY <1>13 DEF membership!Join, membership!Turn, membership!console, membership!Visits,
     membership!Accounts
<1>14. ASSUME NEW v \in visits, membership!MarkAccepted(v) PROVE membership!TypeOK'
  BY <1>14, StatusIsSet DEF membership!MarkAccepted, membership!Statuses,
     membership!console
<1>15. ASSUME NEW v \in visits, membership!MarkExpired(v) PROVE membership!TypeOK'
  BY <1>15, StatusIsSet DEF membership!MarkExpired, membership!Statuses,
     membership!console
<1>16. ASSUME NEW v \in visits, membership!AcceptFails(v) PROVE membership!TypeOK'
  BY <1>16 DEF membership!AcceptFails, membership!Turn, membership!console,
     membership!Visits
<1>17. ASSUME NEW v \in visits, membership!Leave(v) PROVE membership!TypeOK'
  BY <1>17 DEF membership!Leave, membership!console
<1>18. CASE UNCHANGED membership!vars
  BY <1>18 DEF membership!vars
<1> QED
  BY <1>1, <1>2, <1>3, <1>4, <1>5, <1>6, <1>7, <1>8, <1>9, <1>10, <1>11, <1>12, <1>13,
     <1>14, <1>15, <1>16, <1>17, <1>18 DEF membership!Next

-----------------------------------------------------------------------------
(* The admissions. *)

\* A step that neither accepts nor admits, and turns no visit into one that
\* got an account.
LEMMA MembershipQuiet ==
    ASSUME membership!TypeOK, Admitted,
           \A v \in visits' : v.at = "joined" => v \in visits,
           DOMAIN invites \subseteq DOMAIN invites',
           \A i \in DOMAIN invites' : invites'[i] = "accepted" =>
               i \in DOMAIN invites /\ invites[i] = "accepted",
           member' = "none" => member = "none"
    PROVE  Admitted'
BY DEF Admitted

\* A visit that moves on to a stage is at that stage.
LEMMA TurnMoves ==
    ASSUME membership!TypeOK, NEW v \in visits, NEW at \in {"form", "sent", "lapsed",
          "checked"},
           membership!Turn(v, at)
    PROVE  \A w \in visits' : w.at = "joined" => w \in visits
BY DEF membership!TypeOK, membership!Visits, membership!Turn

\* Every step keeps that an account in the organization was let in by one invitation.
LEMMA AdmittedStep == MembershipInv /\ [membership!Next]_(membership!vars) => Admitted'
<1> SUFFICES ASSUME membership!TypeOK, Admitted, [membership!Next]_(membership!vars)
     PROVE Admitted'
  BY DEF MembershipInv
<1>1. CASE membership!SubmitInvite
  BY <1>1, MembershipQuiet DEF membership!SubmitInvite, membership!Handle
<1>2. ASSUME NEW i \in 1..MaxInvites, membership!InvitationAction(i) PROVE Admitted'
  BY <1>2, MembershipQuiet DEF membership!InvitationAction, membership!Handle
<1>3. CASE membership!DeactivateMember
  BY <1>3, MembershipQuiet DEF membership!DeactivateMember, membership!Handle
<1>4. ASSUME NEW h \in changes, membership!CheckPending(h) PROVE Admitted'
  BY <1>4, MembershipQuiet DEF membership!CheckPending
<1>5. ASSUME NEW h \in changes, membership!Revoke(h) PROVE Admitted'
  <2>1. /\ DOMAIN invites' = DOMAIN invites
        /\ \A j \in DOMAIN invites : invites'[j] \in {invites[j], "revoked"}
    BY <1>5, StatusIsSet DEF membership!Revoke, membership!Statuses
  <2> QED
    BY <1>5, <2>1, MembershipQuiet DEF membership!Revoke
<1>6. ASSUME NEW h \in changes, membership!CreateInvitation(h) PROVE Admitted'
  <2>1. /\ DOMAIN invites \subseteq DOMAIN invites'
        /\ \A j \in DOMAIN invites : invites'[j] = invites[j]
        /\ \A j \in DOMAIN invites' : j \notin DOMAIN invites => invites'[j] = "pending"
    BY <1>6, InvitationAdded DEF membership!CreateInvitation
  <2> QED
    BY <1>6, <2>1, MembershipQuiet DEF membership!CreateInvitation
<1>7. ASSUME NEW h \in changes, membership!RemoveMember(h) PROVE Admitted'
  BY <1>7, MembershipQuiet DEF membership!RemoveMember
<1>8. ASSUME NEW h \in changes, membership!RequestFails(h) PROVE Admitted'
  BY <1>8, MembershipQuiet DEF membership!RequestFails
<1>9. ASSUME NEW h \in changes, membership!HandlerEnds(h) PROVE Admitted'
  BY <1>9, MembershipQuiet DEF membership!HandlerEnds
<1>10. ASSUME NEW i \in 1..MaxInvites, membership!OpenLink(i) PROVE Admitted'
  BY <1>10, MembershipQuiet DEF membership!OpenLink
<1>11. ASSUME NEW v \in visits, membership!Accept(v) PROVE Admitted'
  BY <1>11, TurnMoves, MembershipQuiet DEF membership!Accept
<1>12. ASSUME NEW v \in visits, membership!CheckInvitation(v) PROVE Admitted'
  <2>1. \A w \in visits' : w.at = "joined" => w \in visits
    BY <1>12, TurnMoves DEF membership!CheckInvitation
  <2> QED
    BY <1>12, <2>1, MembershipQuiet DEF membership!CheckInvitation
<1>13. ASSUME NEW v \in visits, membership!Join(v) PROVE Admitted'
  <2>1. CASE member # "none"
    BY <1>13, <2>1, TurnMoves, MembershipQuiet DEF membership!Join, membership!console
  <2>2. CASE member = "none"
    <3>1. \A w \in visits : w.at # "joined"
      BY <2>2 DEF Admitted
    <3>2. \A i \in DOMAIN invites : invites[i] # "accepted"
      BY <2>2 DEF Admitted
    <3>3. visits' = (visits \ {v}) \cup {[v EXCEPT !.at = "joined"]}
      BY <1>13, <2>2 DEF membership!Join, membership!Turn
    <3>4. \A w \in visits' : w.at = "joined" => w = [v EXCEPT !.at = "joined"]
      BY <3>1, <3>3
    <3>5. invites' = invites /\ member' = "active"
      BY <1>13, <2>2 DEF membership!Join
    <3> QED
      BY <3>2, <3>4, <3>5 DEF Admitted
  <2> QED
    BY <2>1, <2>2
<1>14. ASSUME NEW v \in visits, membership!MarkAccepted(v) PROVE Admitted'
  <2>1. /\ DOMAIN invites' = DOMAIN invites
        /\ \A j \in DOMAIN invites : j # v.invite => invites'[j] = invites[j]
    BY <1>14, StatusIsSet DEF membership!MarkAccepted, membership!Statuses
  <2>2. \A i \in DOMAIN invites' : invites'[i] = "accepted" => i = v.invite
    BY <1>14, <2>1 DEF membership!MarkAccepted, Admitted
  <2>3. \A w \in visits' : w.at # "joined"
    BY <1>14 DEF membership!MarkAccepted, Admitted
  <2>4. member' # "none"
    BY <1>14 DEF membership!MarkAccepted, Admitted
  <2> QED
    BY <2>2, <2>3, <2>4 DEF Admitted
<1>15. ASSUME NEW v \in visits, membership!MarkExpired(v) PROVE Admitted'
  <2>1. /\ DOMAIN invites' = DOMAIN invites
        /\ \A j \in DOMAIN invites : invites'[j] \in {invites[j], "expired"}
    BY <1>15, StatusIsSet DEF membership!MarkExpired, membership!Statuses
  <2> QED
    BY <1>15, <2>1, MembershipQuiet DEF membership!MarkExpired
<1>16. ASSUME NEW v \in visits, membership!AcceptFails(v) PROVE Admitted'
  BY <1>16, TurnMoves, MembershipQuiet DEF membership!AcceptFails
<1>17. ASSUME NEW v \in visits, membership!Leave(v) PROVE Admitted'
  BY <1>17, MembershipQuiet DEF membership!Leave
<1>18. CASE UNCHANGED membership!vars
  BY <1>18, MembershipQuiet DEF membership!vars
<1> QED
  BY <1>1, <1>2, <1>3, <1>4, <1>5, <1>6, <1>7, <1>8, <1>9, <1>10, <1>11, <1>12, <1>13,
     <1>14, <1>15, <1>16, <1>17, <1>18 DEF membership!Next

\* Every behaviour of the invitations keeps the invariant.
LEMMA MembershipInvariant == membership!Spec => []MembershipInv
<1>1. membership!Init => MembershipInv
  <2> SUFFICES ASSUME membership!Init PROVE MembershipInv
    OBVIOUS
  <2>1. invites \in Seq(membership!Statuses) /\ DOMAIN invites = {}
    <3>1. invites = <<>> /\ DOMAIN invites = 1..0
      BY DEF membership!Init
    <3> QED
      BY <3>1
  <2>2. membership!TypeOK
    BY <2>1 DEF membership!Init, membership!TypeOK, membership!Accounts
  <2>3. Admitted
    BY <2>1 DEF membership!Init, Admitted
  <2> QED
    BY <2>2, <2>3 DEF MembershipInv
<1>2. MembershipInv /\ [membership!Next]_(membership!vars) => MembershipInv'
  BY MembershipTypeStep, AdmittedStep DEF MembershipInv
<1> QED
  BY <1>1, <1>2, PTL DEF membership!Spec

\* Seen at its own variables, a behaviour of the screens is one of this model.
LEMMA ImplementsMembership == Spec => membership!Spec
<1>1. Init => membership!Init
  BY DEF Init
<1>2. [Next]_vars => [membership!Next]_(membership!vars)
  BY DEF Next, ChatNext, WorkspaceNext, ComposerNext, ResearchNext, LearningNext,
     MembershipNext, OnboardingNext, AccountsNext, TasksNext, DocumentsNext,
     EmissionsNext, PermitNext, FieldNext, vars, desk, office, mobile, team,
     membership!vars
<1> QED
  BY <1>1, <1>2, PTL DEF Spec, membership!Spec

\* The state of the organization, its console and its links is one of the
\* model's.
THEOREM MembershipTypes == Spec => []membership!TypeOK
<1>1. MembershipInv => membership!TypeOK
  BY DEF MembershipInv
<1> QED
  BY <1>1, ImplementsMembership, MembershipInvariant, PTL

\* However many invitations an address has, however many links are followed at
\* once, and whatever the console does to them meanwhile, one invitation at most
\* admits the person, and none is marked accepted without an account
\* (accept_invitation of routes_onboarding.py).
THEOREM AdmittedOnce == Spec => []OneAdmission
<1>1. MembershipInv => OneAdmission
  BY DEF MembershipInv, Admitted, OneAdmission, membership!OneAdmission
<1> QED
  BY <1>1, ImplementsMembership, MembershipInvariant, PTL

\* No link that was ever sent lets a person in again who was removed: the
\* acceptance only makes an account that is not there.
THEOREM RemovalHolds == Spec => membership!RemovedStaysOut
<1>1. [membership!Next]_(membership!vars) =>
         [member = "removed" => member' = "removed"]_(membership!vars)
  BY DEF membership!Next, membership!SubmitInvite, membership!InvitationAction,
     membership!DeactivateMember, membership!Handle, membership!CheckPending,
     membership!Revoke, membership!CreateInvitation, membership!RemoveMember,
     membership!RequestFails, membership!HandlerEnds, membership!OpenLink,
     membership!Accept, membership!CheckInvitation, membership!Join,
     membership!MarkAccepted, membership!MarkExpired, membership!AcceptFails,
     membership!Leave, membership!vars
<1> QED
  BY <1>1, ImplementsMembership, PTL DEF membership!Spec, membership!RemovedStaysOut

-----------------------------------------------------------------------------
(* The setup of an organization. *)

\* A completion that has passed the check writes a type that is answered.
ReadIsAnswered == \A c \in calls : c.at = "read" => c.type \in profile.answered

\* A request that was sent with answers is of a type.
FilledHasType == \A c \in calls : c.at = "sent" /\ c.filled => c.type \in onboarding!Types

OnboardingInv == onboarding!TypeOK /\ FilledHasType /\ ReadIsAnswered
      /\ onboarding!CompletedHasAnswers

CallOps == {"choose", "save", "finish", "extra"}
CallStages == {"sent", "saved", "read", "done", "failed"}

\* What the actions make of a request is a request.
LEMMA CallRecords ==
    ASSUME NEW c \in onboarding!Calls, NEW at \in CallStages,
           NEW type \in onboarding!Types \cup {None}
    PROVE  /\ [c EXCEPT !.here = FALSE] \in onboarding!Calls
           /\ [c EXCEPT !.at = at] \in onboarding!Calls
           /\ [c EXCEPT !.type = type, !.at = at] \in onboarding!Calls
BY DEF onboarding!Calls, CallStages

\* A call that is sent keeps the types.
LEMMA CallTypes ==
    ASSUME onboarding!TypeOK, NEW op \in CallOps,
           NEW type \in onboarding!Types \cup {None}, onboarding!Call(op, type)
    PROVE  onboarding!TypeOK'
<1> DEFINE sends == op # "choose" /\ type \in wizard.filled
<1>1. sends \in BOOLEAN
  OBVIOUS
<1>2. [op |-> op, type |-> type, at |-> "sent", here |-> TRUE, filled |-> sends]
     \in onboarding!Calls
  <2> HIDE DEF sends
  <2> QED
    BY <1>1 DEF onboarding!Calls, CallOps
<1>3. calls' \subseteq onboarding!Calls
  BY <1>2 DEF onboarding!Call, onboarding!TypeOK
<1>4. wizard' = [wizard EXCEPT !.busy = TRUE] /\ profile' = profile
  BY DEF onboarding!Call
<1> QED
  BY <1>3, <1>4 DEF onboarding!TypeOK

\* A call that goes on is one.
LEMMA BecomesTypes ==
    ASSUME calls \subseteq onboarding!Calls, NEW c \in calls, NEW at \in CallStages,
           onboarding!Becomes(c, at)
    PROVE  calls' \subseteq onboarding!Calls
BY CallRecords, None \in onboarding!Types \cup {None} DEF onboarding!Becomes

\* What is saved of a profile is one.
LEMMA SaveTypes ==
    ASSUME profile \in onboarding!Profiles, NEW type \in onboarding!Types \cup {None},
           NEW answered \in SUBSET onboarding!Types,
           onboarding!SaveProfile(type, answered)
    PROVE  profile' \in onboarding!Profiles
BY DEF onboarding!SaveProfile, onboarding!Profiles

\* The next step of the wizard is one.
LEMMA ForwardTypes ==
    ASSUME onboarding!TypeOK
    PROVE  onboarding!Forward(wizard) \in [at : {"open", "gone"},
                                           type : onboarding!Types \cup {None}, step : 0..5,
                                           filled : SUBSET onboarding!Types, busy : BOOLEAN]
<1>1. onboarding!Last(wizard.type) \in {4, 5}
  BY DEF onboarding!Last
<1>2. wizard.step \in 0..5
  BY DEF onboarding!TypeOK
<1>3. (IF wizard.step < onboarding!Last(wizard.type)
       THEN wizard.step + 1 ELSE onboarding!Last(wizard.type)) \in 0..5
  BY <1>1, <1>2
<1> QED
  BY <1>3 DEF onboarding!TypeOK, onboarding!Forward

\* Every step keeps the types.
LEMMA OnboardingTypeStep == onboarding!TypeOK /\ FilledHasType
      /\ [onboarding!Next]_(onboarding!vars) => onboarding!TypeOK'
<1> SUFFICES ASSUME onboarding!TypeOK, FilledHasType,
     [onboarding!Next]_(onboarding!vars) PROVE onboarding!TypeOK'
  OBVIOUS
<1>a. /\ profile \in onboarding!Profiles /\ calls \subseteq onboarding!Calls
      /\ \A c \in calls : c.type \in onboarding!Types \cup {None} /\ c.op \in CallOps
  BY DEF onboarding!TypeOK, onboarding!Calls, CallOps
<1>1. ASSUME NEW edit \in BOOLEAN, onboarding!Open(edit) PROVE onboarding!TypeOK'
  BY <1>1 DEF onboarding!Open, onboarding!TypeOK, onboarding!Profiles
<1>2. CASE onboarding!Leave
  <2>1. calls' \subseteq onboarding!Calls
    BY <1>a, <1>2, CallRecords, "sent" \in CallStages,
       None \in onboarding!Types \cup {None} DEF onboarding!Leave, CallStages
  <2> QED
    BY <1>2, <2>1 DEF onboarding!Leave, onboarding!Gone, onboarding!TypeOK
<1>3. CASE onboarding!Fill
  BY <1>3 DEF onboarding!Fill, onboarding!TypeOK
<1>4. ASSUME NEW type \in onboarding!Types, onboarding!ChooseType(type)
     PROVE onboarding!TypeOK'
  BY <1>4, CallTypes DEF onboarding!ChooseType, CallOps
<1>5. CASE onboarding!Continue
  <2>1. CASE onboarding!Call("save", wizard.type)
    BY <2>1, CallTypes DEF CallOps, onboarding!TypeOK
  <2>2. CASE wizard' = onboarding!Forward(wizard) /\ UNCHANGED <<profile, calls>>
    BY <2>2, ForwardTypes DEF onboarding!TypeOK
  <2> QED
    BY <1>5, <2>1, <2>2 DEF onboarding!Continue
<1>6. CASE onboarding!Back
  BY <1>6 DEF onboarding!Back, onboarding!TypeOK
<1>7. CASE onboarding!AddExtra
  BY <1>7, CallTypes DEF onboarding!AddExtra, CallOps, onboarding!Types
<1>8. CASE onboarding!Finish
  BY <1>8, CallTypes DEF onboarding!Finish, CallOps, onboarding!TypeOK
<1>9. ASSUME NEW c \in calls, onboarding!Choose(c) PROVE onboarding!TypeOK'
  BY <1>a, <1>9, SaveTypes, BecomesTypes DEF onboarding!Choose, CallStages,
     onboarding!TypeOK
<1>10. ASSUME NEW c \in calls, onboarding!SaveAnswers(c) PROVE onboarding!TypeOK'
  <2>1. CASE c.filled /\ onboarding!SaveProfile(c.type, {c.type})
               /\ onboarding!Becomes(c, IF c.op = "finish" THEN "saved" ELSE "done")
    <3>1. c.type \in onboarding!Types
      BY <1>10, <2>1 DEF onboarding!SaveAnswers, FilledHasType
    <3> QED
      BY <1>a, <1>10, <2>1, <3>1, SaveTypes, BecomesTypes DEF onboarding!SaveAnswers,
         CallStages, onboarding!TypeOK
  <2>2. CASE onboarding!Becomes(c, "failed") /\ UNCHANGED profile
    BY <1>a, <1>10, <2>2, BecomesTypes DEF onboarding!SaveAnswers, CallStages,
       onboarding!TypeOK
  <2> QED
    BY <1>10, <2>1, <2>2 DEF onboarding!SaveAnswers
<1>11. ASSUME NEW c \in calls, onboarding!ReadComplete(c) PROVE onboarding!TypeOK'
  <2>1. profile.type \in onboarding!Types \cup {None}
    BY <1>a DEF onboarding!Profiles
  <2>2. PICK at \in {"read", "failed"} :
           calls' = (calls \ {c}) \cup {[c EXCEPT !.type = profile.type, !.at = at]}
    BY <1>11 DEF onboarding!ReadComplete
  <2>3. [c EXCEPT !.type = profile.type, !.at = at] \in onboarding!Calls
    BY <1>a, <2>1, CallRecords DEF CallStages
  <2>4. calls' \subseteq onboarding!Calls
    BY <1>a, <2>2, <2>3
  <2> QED
    BY <1>11, <2>4 DEF onboarding!ReadComplete, onboarding!TypeOK
<1>12. ASSUME NEW c \in calls, onboarding!WriteComplete(c) PROVE onboarding!TypeOK'
  <2>1. calls' \subseteq onboarding!Calls
    BY <1>a, <1>12, BecomesTypes DEF onboarding!WriteComplete, CallStages
  <2>2. profile' \in onboarding!Profiles
    BY <1>a, <1>12 DEF onboarding!WriteComplete, onboarding!Profiles
  <2> QED
    BY <1>12, <2>1, <2>2 DEF onboarding!WriteComplete, onboarding!TypeOK
<1>13. ASSUME NEW c \in calls, onboarding!Extra(c) PROVE onboarding!TypeOK'
  BY <1>a, <1>13, BecomesTypes DEF onboarding!Extra, CallStages, onboarding!TypeOK
<1>14. ASSUME NEW c \in calls, onboarding!CallFails(c) PROVE onboarding!TypeOK'
  BY <1>a, <1>14, BecomesTypes DEF onboarding!CallFails, CallStages, onboarding!TypeOK
<1>15. ASSUME NEW c \in calls, onboarding!Answered(c) PROVE onboarding!TypeOK'
  <2>1. wizard' \in {wizard, onboarding!Forward(wizard), onboarding!Gone,
       [wizard EXCEPT !.busy = FALSE],
                     [wizard EXCEPT !.type = c.type, !.busy = FALSE]}
    BY <1>15 DEF onboarding!Answered
  <2>2. onboarding!Gone \in [at : {"open", "gone"}, type : onboarding!Types \cup {None},
       step : 0..5,
                  filled : SUBSET onboarding!Types, busy : BOOLEAN]
    BY DEF onboarding!Gone
  <2>3. wizard' \in [at : {"open", "gone"}, type : onboarding!Types \cup {None},
       step : 0..5,
                     filled : SUBSET onboarding!Types, busy : BOOLEAN]
    BY <1>a, <2>1, <2>2, ForwardTypes DEF onboarding!TypeOK
  <2> QED
    BY <1>15, <2>3 DEF onboarding!Answered, onboarding!TypeOK
<1>16. CASE UNCHANGED onboarding!vars
  BY <1>16 DEF onboarding!vars, onboarding!TypeOK
<1> QED
  BY <1>1, <1>2, <1>3, <1>4, <1>5, <1>6, <1>7, <1>8, <1>9, <1>10, <1>11, <1>12, <1>13,
     <1>14, <1>15, <1>16 DEF onboarding!Next

\* Every step keeps that a set-up that is completed has its answers.
LEMMA AnswersStep == OnboardingInv /\ [onboarding!Next]_(onboarding!vars)
      => (ReadIsAnswered /\ onboarding!CompletedHasAnswers)'
<1> SUFFICES ASSUME onboarding!TypeOK, ReadIsAnswered, onboarding!CompletedHasAnswers,
     [onboarding!Next]_(onboarding!vars)
             PROVE  (ReadIsAnswered /\ onboarding!CompletedHasAnswers)'
  BY DEF OnboardingInv
<1> DEFINE Goal == (ReadIsAnswered /\ onboarding!CompletedHasAnswers)'
<1>a. profile \in onboarding!Profiles /\ calls \subseteq onboarding!Calls
  BY DEF onboarding!TypeOK
\* A step that leaves the profile alone and brings no call past the check.
<1>q. ASSUME UNCHANGED profile, \A c \in calls' : c.at = "read" => \E d \in calls : d.at
     = "read" /\ d.type = c.type
      PROVE  Goal
  BY <1>q DEF ReadIsAnswered, onboarding!CompletedHasAnswers
\* A save: answers are only added, and the status is no longer completed.
<1>s. ASSUME NEW type, NEW answered, onboarding!SaveProfile(type, answered),
             NEW c \in calls, NEW at \in {"saved", "done"}, onboarding!Becomes(c, at)
      PROVE  Goal
  <2>1. profile'.status = "in_progress" /\ profile.answered \subseteq profile'.answered
    BY <1>s DEF onboarding!SaveProfile
  <2>2. \A d \in calls' : d.at = "read" => d \in calls
    BY <1>a, <1>s DEF onboarding!Becomes, onboarding!Calls
  <2> QED
    BY <2>1, <2>2 DEF ReadIsAnswered, onboarding!CompletedHasAnswers
\* A call that goes to another stage than the check.
<1>b. ASSUME NEW c \in calls, NEW at \in {"saved", "done", "failed"},
     onboarding!Becomes(c, at), UNCHANGED profile
      PROVE  Goal
  <2>1. \A d \in calls' : d.at = "read" => d \in calls
    BY <1>a, <1>b DEF onboarding!Becomes, onboarding!Calls
  <2> QED
    BY <1>b, <1>q, <2>1
\* A new request.
<1>c. ASSUME NEW op, NEW type, onboarding!Call(op, type) PROVE Goal
  BY <1>c, <1>q DEF onboarding!Call
<1>1. ASSUME NEW edit \in BOOLEAN, onboarding!Open(edit) PROVE Goal
  BY <1>1, <1>q DEF onboarding!Open
<1>2. CASE onboarding!Leave
  <2>1. \A c \in calls : [c EXCEPT !.here = FALSE].at = c.at /\ [c EXCEPT !.here
       = FALSE].type = c.type
    BY <1>a DEF onboarding!Calls
  <2>2. \A d \in calls' : \E c \in calls : d = [c EXCEPT !.here = FALSE]
    BY <1>2 DEF onboarding!Leave
  <2>3. \A d \in calls' : d.at = "read" => \E c \in calls : c.at = "read" /\ c.type
       = d.type
    <3> TAKE d \in calls'
    <3>1. PICK c \in calls : d = [c EXCEPT !.here = FALSE]
      BY <2>2
    <3>2. d.at = c.at /\ d.type = c.type
      BY <2>1, <3>1
    <3> QED
      BY <3>2
  <2>4. UNCHANGED profile
    BY <1>2 DEF onboarding!Leave
  <2> QED
    BY <1>q, <2>3, <2>4
<1>3. CASE onboarding!Fill
  BY <1>3, <1>q DEF onboarding!Fill
<1>4. ASSUME NEW type \in onboarding!Types, onboarding!ChooseType(type) PROVE Goal
  BY <1>4, <1>c DEF onboarding!ChooseType
<1>5. CASE onboarding!Continue
  BY <1>5, <1>c, <1>q DEF onboarding!Continue
<1>6. CASE onboarding!Back
  BY <1>6, <1>q DEF onboarding!Back
<1>7. CASE onboarding!AddExtra
  BY <1>7, <1>c DEF onboarding!AddExtra
<1>8. CASE onboarding!Finish
  BY <1>8, <1>c DEF onboarding!Finish
<1>9. ASSUME NEW c \in calls, onboarding!Choose(c) PROVE Goal
  BY <1>9, <1>s DEF onboarding!Choose
<1>10. ASSUME NEW c \in calls, onboarding!SaveAnswers(c) PROVE Goal
  BY <1>10, <1>s, <1>b DEF onboarding!SaveAnswers
<1>11. ASSUME NEW c \in calls, onboarding!ReadComplete(c) PROVE Goal
  <2>1. CASE profile.type \in profile.answered
    <3>1. calls' = (calls \ {c}) \cup {[c EXCEPT !.type = profile.type, !.at = "read"]}
      BY <1>11, <2>1 DEF onboarding!ReadComplete
    <3>2. [c EXCEPT !.type = profile.type, !.at = "read"].type = profile.type
      BY <1>a DEF onboarding!Calls
    <3>3. profile' = profile
      BY <1>11 DEF onboarding!ReadComplete
    <3> QED
      BY <2>1, <3>1, <3>2, <3>3 DEF ReadIsAnswered, onboarding!CompletedHasAnswers
  <2>2. CASE profile.type \notin profile.answered
    <3>1. calls' = (calls \ {c}) \cup {[c EXCEPT !.type = profile.type, !.at
         = "failed"]}
      BY <1>11, <2>2 DEF onboarding!ReadComplete
    <3>2. [c EXCEPT !.type = profile.type, !.at = "failed"].at = "failed"
      BY <1>a DEF onboarding!Calls
    <3>3. profile' = profile
      BY <1>11 DEF onboarding!ReadComplete
    <3> QED
      BY <1>q, <3>1, <3>2, <3>3
  <2> QED
    BY <2>1, <2>2
<1>12. ASSUME NEW c \in calls, onboarding!WriteComplete(c) PROVE Goal
  <2>1. c.type \in profile.answered
    BY <1>12 DEF onboarding!WriteComplete, ReadIsAnswered
  <2>2. profile'.type = c.type /\ profile'.answered = profile.answered
    BY <1>a, <1>12 DEF onboarding!WriteComplete, onboarding!Profiles
  <2>3. \A d \in calls' : d.at = "read" => d \in calls
    BY <1>a, <1>12 DEF onboarding!WriteComplete, onboarding!Becomes, onboarding!Calls
  <2> QED
    BY <2>1, <2>2, <2>3 DEF ReadIsAnswered, onboarding!CompletedHasAnswers
<1>13. ASSUME NEW c \in calls, onboarding!Extra(c) PROVE Goal
  BY <1>13, <1>b DEF onboarding!Extra
<1>14. ASSUME NEW c \in calls, onboarding!CallFails(c) PROVE Goal
  BY <1>14, <1>b DEF onboarding!CallFails
<1>15. ASSUME NEW c \in calls, onboarding!Answered(c) PROVE Goal
  BY <1>15, <1>q DEF onboarding!Answered
<1>16. CASE UNCHANGED onboarding!vars
  BY <1>16, <1>q DEF onboarding!vars
<1> QED
  BY <1>1, <1>2, <1>3, <1>4, <1>5, <1>6, <1>7, <1>8, <1>9, <1>10, <1>11, <1>12, <1>13,
     <1>14, <1>15, <1>16 DEF onboarding!Next

\* A handler that moves on is no longer a request that was sent.
LEMMA FilledStep == onboarding!TypeOK /\ FilledHasType
      /\ [onboarding!Next]_(onboarding!vars) => FilledHasType'
<1> SUFFICES ASSUME onboarding!TypeOK, FilledHasType,
     [onboarding!Next]_(onboarding!vars), NEW c \in calls',
                    c.at = "sent", c.filled
             PROVE  c.type \in onboarding!Types
  BY DEF FilledHasType
<1>1. ASSUME NEW d \in calls, d.at = "sent", d.filled, d.type = c.type
     PROVE c.type \in onboarding!Types
  BY <1>1 DEF FilledHasType
<1>2. CASE c \in calls
  BY <1>1, <1>2
<1>3. ASSUME NEW op, NEW type, onboarding!Call(op, type), c \notin calls
     PROVE c.type \in onboarding!Types
  <2> DEFINE sends == op # "choose" /\ type \in wizard.filled
  <2>1. sends => type \in onboarding!Types
    BY DEF onboarding!TypeOK
  <2>2. c = [op |-> op, type |-> type, at |-> "sent", here |-> TRUE, filled |-> sends]
    BY <1>3 DEF onboarding!Call
  <2> HIDE DEF sends
  <2>3. c.type = type /\ (c.filled <=> sends)
    BY <2>2
  <2> QED
    BY <2>1, <2>3
<1>4. ASSUME NEW d \in calls, NEW at \in CallStages \ {"sent"}, onboarding!Becomes(d,
     at), c \notin calls
      PROVE  FALSE
  BY <1>4 DEF onboarding!Becomes, onboarding!TypeOK, onboarding!Calls
<1>5. CASE onboarding!Leave
  <2>1. PICK d \in calls : c = [d EXCEPT !.here = FALSE]
    BY <1>5 DEF onboarding!Leave
  <2>2. c.at = d.at /\ c.filled = d.filled /\ c.type = d.type
    BY <2>1 DEF onboarding!TypeOK, onboarding!Calls
  <2> QED
    BY <1>1, <2>2
<1>6. ASSUME NEW d \in calls, onboarding!ReadComplete(d), c \notin calls PROVE FALSE
  BY <1>6 DEF onboarding!ReadComplete, onboarding!TypeOK, onboarding!Calls
<1>7. CASE UNCHANGED calls \/ calls' \subseteq calls
  BY <1>2, <1>7
<1>8. ASSUME NEW d \in calls,
             onboarding!Choose(d) \/ onboarding!SaveAnswers(d)
                   \/ onboarding!WriteComplete(d) \/ onboarding!Extra(d)
                   \/ onboarding!CallFails(d)
      PROVE  c.type \in onboarding!Types
  BY <1>2, <1>4, <1>8 DEF onboarding!Choose, onboarding!SaveAnswers,
     onboarding!WriteComplete, onboarding!Extra, onboarding!CallFails, CallStages
<1>9. ASSUME NEW d \in calls, onboarding!Answered(d) PROVE calls' \subseteq calls
  BY <1>9 DEF onboarding!Answered
<1>10. (\E edit \in BOOLEAN : onboarding!Open(edit)) \/ onboarding!Fill
     \/ onboarding!Back => UNCHANGED calls
  BY DEF onboarding!Open, onboarding!Fill, onboarding!Back
<1>11. (\E type \in onboarding!Types : onboarding!ChooseType(type))
     \/ onboarding!AddExtra \/ onboarding!Finish
         => \E op, type : onboarding!Call(op, type)
  BY DEF onboarding!ChooseType, onboarding!AddExtra, onboarding!Finish
<1>12. onboarding!Continue => UNCHANGED calls \/ \E op, type : onboarding!Call(op, type)
  BY DEF onboarding!Continue
<1> QED
  BY <1>2, <1>3, <1>5, <1>6, <1>7, <1>8, <1>9, <1>10, <1>11, <1>12 DEF onboarding!Next,
     onboarding!vars

\* Every behaviour of the wizard keeps the invariant.
LEMMA OnboardingInvariant == onboarding!Spec => []OnboardingInv
<1>1. onboarding!Init => OnboardingInv
  BY DEF onboarding!Init, OnboardingInv, onboarding!TypeOK, onboarding!Profiles,
     onboarding!Gone, onboarding!Calls, FilledHasType, ReadIsAnswered,
     onboarding!CompletedHasAnswers
<1>2. OnboardingInv /\ [onboarding!Next]_(onboarding!vars) => OnboardingInv'
  BY OnboardingTypeStep, FilledStep, AnswersStep DEF OnboardingInv
<1> QED
  BY <1>1, <1>2, PTL DEF onboarding!Spec

\* Seen at its own variables, a behaviour of the screens is one of this model.
LEMMA ImplementsOnboarding == Spec => onboarding!Spec
<1>1. Init => onboarding!Init
  BY DEF Init
<1>2. [Next]_vars => [onboarding!Next]_(onboarding!vars)
  BY DEF Next, ChatNext, WorkspaceNext, ComposerNext, ResearchNext, LearningNext,
     MembershipNext, OnboardingNext, AccountsNext, TasksNext, DocumentsNext,
     EmissionsNext, PermitNext, FieldNext, vars, desk, office, mobile, setup,
     onboarding!vars
<1> QED
  BY <1>1, <1>2, PTL DEF Spec, onboarding!Spec

\* The profile, the wizard and its requests are those of the model.
THEOREM OnboardingTypes == Spec => []onboarding!TypeOK
<1>1. OnboardingInv => onboarding!TypeOK
  BY DEF OnboardingInv
<1> QED
  BY <1>1, ImplementsOnboarding, OnboardingInvariant, PTL

\* However the handlers of the wizard overlap and whatever type the profile
\* changes to between the check of the answers and the write of "completed"
\* (complete_onboarding of routes_onboarding.py), a completed profile has the
\* required answers of its account type.
THEOREM SetUpIsAnswered == Spec => []CompletedHasAnswers
<1>1. OnboardingInv => CompletedHasAnswers
  BY DEF OnboardingInv, CompletedHasAnswers
<1> QED
  BY <1>1, ImplementsOnboarding, OnboardingInvariant, PTL

-----------------------------------------------------------------------------
(* Accounts and the second factor. *)

TryOps == {"signup", "signin", "forgot", "reset", "status", "enroll", "verify",
        "activate", "disable", "regenerate"}
TryStages == {"sent", "pend", "enable", "consume", "disable", "renew", "session",
           "challenge", "setup", "welcome", "pended", "codes", "on", "off", "failed"}

\* The user sends codes of secrets in the authenticator only, and a request that
\* is to switch the second factor on carries a secret whose code was one of them.
Knows(t) ==
    /\ t.code \in accounts!Codes \cup {accounts!NoCode}
    /\ t.at = "enable" => t.n \in app

Known == \A t \in tries : Knows(t)

AccountsInv == accounts!TypeOK /\ Known /\ accounts!SecretIsInApp

-----------------------------------------------------------------------------
(* The steps of a request. *)

\* A request that goes to another stage, with a secret the user has if it is to
\* switch the second factor on.
LEMMA MovesKeep ==
    ASSUME tries \subseteq accounts!Tries, Known, NEW t \in tries, NEW at \in TryStages,
           NEW n \in 0..MaxSecrets, accounts!ToWith(t, at, n), UNCHANGED app,
           at = "enable" => n \in app
    PROVE  tries' \subseteq accounts!Tries /\ Known'
<1> DEFINE moved == [t EXCEPT !.at = at, !.code = accounts!NoCode, !.n = n]
<1>0. t \in accounts!Tries
  OBVIOUS
<1>1. /\ moved \in accounts!Tries
      /\ moved.at = at /\ moved.code = accounts!NoCode /\ moved.n = n
  BY <1>0 DEF accounts!Tries, TryStages
<1> HIDE DEF moved
<1>2. \A u \in tries' : u \in tries \/ u = moved
  BY DEF accounts!ToWith, moved
<1>3. tries' \subseteq accounts!Tries
  BY <1>1, <1>2
<1>4. accounts!Codes' = accounts!Codes
  BY DEF accounts!Codes
<1>5. \A u \in tries : Knows(u)'
  BY <1>4 DEF Known, Knows
<1>6. Knows(moved)'
  BY <1>1 DEF Knows
<1> QED
  BY <1>2, <1>3, <1>5, <1>6 DEF Known

\* A code that fits is one of a secret in the authenticator.
LEMMA FitsIsKnown ==
    ASSUME Known, NEW t \in tries, accounts!Fits(t)
    PROVE  account.secret \in app
<1>1. t.code = accounts!Totp(account.secret)
  BY DEF accounts!Fits
<1>2. t.code # accounts!NoCode /\ t.code # accounts!Recovery
  BY <1>1 DEF accounts!Totp, accounts!NoCode, accounts!Recovery
<1>3. t.code \in {accounts!Totp(s) : s \in app}
  BY <1>2 DEF Known, Knows, accounts!Codes
<1>4. PICK s \in app : accounts!Totp(s) = accounts!Totp(account.secret)
  BY <1>1, <1>3
<1>5. s = account.secret
  BY <1>4 DEF accounts!Totp
<1> QED
  BY <1>5

\* A route that only decides keeps the invariant.
LEMMA DecidesKeeps ==
    ASSUME AccountsInv, NEW t \in tries, NEW at \in TryStages, accounts!Decides(t, at),
           at = "enable" => accounts!Fits(t)
    PROVE  AccountsInv'
<1> DEFINE n == IF at = "enable" THEN account.secret ELSE 0
<1>1. n \in 0..MaxSecrets
  BY AccountsAssumption DEF AccountsInv, accounts!TypeOK, accounts!AccountRecords
<1>2. accounts!ToWith(t, at, n)
  BY DEF accounts!Decides, accounts!To
<1>3. at = "enable" => n \in app
  BY FitsIsKnown DEF AccountsInv
<1>4. UNCHANGED <<mandatory, account, minted, app, place, signed>>
  BY DEF accounts!Decides
<1> HIDE DEF n
<1>5. tries' \subseteq accounts!Tries /\ Known'
  BY <1>1, <1>2, <1>3, <1>4, MovesKeep DEF AccountsInv, accounts!TypeOK
<1> QED
  BY <1>4, <1>5 DEF AccountsInv, accounts!TypeOK, accounts!SecretIsInApp

\* A route that goes on to a stage that is not the switching on.
LEMMA ToKeeps ==
    ASSUME AccountsInv, NEW t \in tries, NEW at \in TryStages \ {"enable"},
          accounts!To(t, at), UNCHANGED app
    PROVE  tries' \subseteq accounts!Tries /\ Known'
<1>1. 0 \in 0..MaxSecrets
  BY AccountsAssumption
<1>2. accounts!ToWith(t, at, 0)
  BY DEF accounts!To
<1> QED
  BY <1>1, <1>2, MovesKeep DEF AccountsInv, accounts!TypeOK

-----------------------------------------------------------------------------
(* The steps of the pages. *)

\* A try that is sent knows what it may know.
LEMMA SendsKeeps ==
    ASSUME NEW op \in TryOps, NEW code \in accounts!Codes \cup {accounts!NoCode},
           app \subseteq accounts!Secrets, NEW u \in accounts!Sends(op, code)
    PROVE  u \in accounts!Tries /\ Knows(u)
<1>1. u = [op |-> op, at |-> "sent", code |-> code, n |-> 0, here |-> TRUE]
  BY DEF accounts!Sends
<1>2. code \in {accounts!Totp(s) : s \in accounts!Secrets} \cup {accounts!Recovery,
     accounts!NoCode}
  BY DEF accounts!Codes
<1>3. 0 \in 0..MaxSecrets
  BY AccountsAssumption
<1>4. u \in accounts!Tries
  BY <1>1, <1>2, <1>3 DEF accounts!Tries, TryOps
<1>5. u.code = code /\ u.at = "sent"
  BY <1>1
<1> QED
  BY <1>4, <1>5 DEF Knows

\* A try whose page is left knows no more.
LEMMA LeftKeeps ==
    ASSUME NEW S, S \subseteq accounts!Tries, \A t \in S : Knows(t),
           NEW u \in accounts!Left(S)
    PROVE  u \in accounts!Tries /\ Knows(u)
<1>1. PICK t \in S : u = [t EXCEPT !.here = FALSE]
  BY DEF accounts!Left
<1>2. u \in accounts!Tries /\ u.code = t.code /\ u.at = t.at /\ u.n = t.n
  BY <1>1 DEF accounts!Tries
<1> QED
  BY <1>2 DEF Knows

\* Requests that are left behind or sent.
LEMMA PageKeeps ==
    ASSUME AccountsInv, UNCHANGED <<mandatory, account, minted, app>>,
           place' \in accounts!Places, signed' \in BOOLEAN,
           NEW op \in TryOps, NEW code \in accounts!Codes \cup {accounts!NoCode},
           \A u \in tries' :
              u \in tries \/ u \in accounts!Left(tries) \/ u \in accounts!Sends(op, code)
    PROVE  AccountsInv'
<1>1. \A u \in tries' : u \in accounts!Tries /\ Knows(u)
  BY SendsKeeps, LeftKeeps DEF AccountsInv, accounts!TypeOK, Known
<1>2. accounts!Codes' = accounts!Codes
  BY DEF accounts!Codes
<1>3. Known'
  BY <1>1, <1>2 DEF Known, Knows
<1> QED
  BY <1>1, <1>3 DEF AccountsInv, accounts!TypeOK, accounts!SecretIsInApp

\* A button that makes the page busy.
LEMMA SubmitKeeps ==
    ASSUME AccountsInv, NEW op \in TryOps,
           NEW code \in accounts!Codes \cup {accounts!NoCode}, accounts!Submit(op, code)
    PROVE  AccountsInv'
<1>1. place' \in accounts!Places
  BY DEF accounts!Submit, AccountsInv, accounts!TypeOK, accounts!Places
<1>2. signed' \in BOOLEAN /\ UNCHANGED <<mandatory, account, minted, app>>
  BY DEF accounts!Submit, accounts!Request, AccountsInv, accounts!TypeOK
<1>3. \A u \in tries' : u \in tries \/ u \in accounts!Sends(op, code)
  BY DEF accounts!Submit, accounts!Request
<1> QED
  BY <1>1, <1>2, <1>3, PageKeeps

\* A page that is opened is a place.
LEMMA PageRecords ==
    ASSUME NEW p \in accounts!Pages
    PROVE  /\ accounts!Page(p) \in accounts!Places
           /\ \A e \in BOOLEAN : [accounts!Page(p) EXCEPT !.enrolled = e] \in accounts!Places
<1>1. 0 \in 0..MaxSecrets
  BY AccountsAssumption
<1> QED
  BY <1>1 DEF accounts!Page, accounts!Places

\* Requests of fewer pages.
LEMMA EndKeeps ==
    ASSUME AccountsInv, UNCHANGED <<mandatory, account, minted, app>>,
           place' \in accounts!Places, signed' \in BOOLEAN,
           \A u \in tries' : u \in tries \/ u \in accounts!Left(tries)
    PROVE  AccountsInv'
BY PageKeeps DEF TryOps

-----------------------------------------------------------------------------
(* The steps. *)

\* What the user does on a page, short of a request that the server decides.
LEMMA PageStep ==
    ASSUME AccountsInv,
           \/ accounts!SubmitForm \/ accounts!SubmitForgot \/ accounts!SubmitReset
                 \/ accounts!Scan \/ accounts!Acknowledge \/ accounts!SignOut
           \/ accounts!StartSetup \/ accounts!CancelSetup \/ accounts!RefreshStatus
           \/ \E p \in accounts!Pages : accounts!GoTo(p)
           \/ \E code \in accounts!Codes : accounts!SubmitCode(code)
                 \/ accounts!ConfirmSetup(code) \/ accounts!ConfirmAction(code)
    PROVE  AccountsInv'
<1>1. CASE accounts!SubmitForm
  BY <1>1, SubmitKeeps DEF accounts!SubmitForm, TryOps
<1>2. CASE accounts!SubmitForgot
  BY <1>2, SubmitKeeps DEF accounts!SubmitForgot, TryOps
<1>3. CASE accounts!SubmitReset
  BY <1>3, SubmitKeeps DEF accounts!SubmitReset, TryOps
<1>4. CASE accounts!Scan
  <2>1. app' = app \cup {place.secret} /\ place.secret \in accounts!Secrets
    BY <1>4 DEF accounts!Scan, accounts!Secrets, AccountsInv, accounts!TypeOK,
       accounts!Places
  <2>2. app \subseteq app' /\ app' \subseteq accounts!Secrets
    BY <2>1 DEF AccountsInv, accounts!TypeOK
  <2>3. accounts!Codes \subseteq accounts!Codes'
    BY <2>2 DEF accounts!Codes
  <2>4. Known'
    BY <1>4, <2>2, <2>3 DEF accounts!Scan, AccountsInv, Known, Knows
  <2>5. accounts!TypeOK' /\ accounts!SecretIsInApp'
    BY <1>4, <2>2 DEF accounts!Scan, AccountsInv, accounts!TypeOK,
       accounts!SecretIsInApp
  <2> QED
    BY <2>4, <2>5 DEF AccountsInv
<1>5. CASE accounts!Acknowledge
  <2>1. place' \in accounts!Places
    BY <1>5, PageRecords DEF accounts!Acknowledge, accounts!Pages
  <2> QED
    BY <1>5, <2>1, EndKeeps DEF accounts!Acknowledge, AccountsInv, accounts!TypeOK
<1>6. CASE accounts!SignOut
  <2>1. place' \in accounts!Places
    BY <1>6, PageRecords DEF accounts!SignOut, accounts!Pages
  <2> QED
    BY <1>6, <2>1, EndKeeps DEF accounts!SignOut
<1>7. CASE accounts!StartSetup
  BY <1>7, SubmitKeeps DEF accounts!StartSetup, TryOps
<1>8. CASE accounts!CancelSetup
  <2>1. place' \in accounts!Places
    BY <1>8, AccountsAssumption DEF accounts!CancelSetup, AccountsInv, accounts!TypeOK,
       accounts!Places
  <2> QED
    BY <1>8, <2>1, EndKeeps DEF accounts!CancelSetup, AccountsInv, accounts!TypeOK
<1>9. CASE accounts!RefreshStatus
  BY <1>9, PageKeeps DEF accounts!RefreshStatus, accounts!Request, TryOps, AccountsInv,
     accounts!TypeOK
<1>10. ASSUME NEW p \in accounts!Pages, accounts!GoTo(p) PROVE AccountsInv'
  <2>1. place' \in accounts!Places
    BY <1>10, PageRecords DEF accounts!GoTo
  <2> QED
    BY <1>10, <2>1, PageKeeps DEF accounts!GoTo, TryOps, AccountsInv, accounts!TypeOK
<1>11. ASSUME NEW code \in accounts!Codes, accounts!SubmitCode(code)
     \/ accounts!ConfirmSetup(code) \/ accounts!ConfirmAction(code)
       PROVE  AccountsInv'
  BY <1>11, SubmitKeeps DEF accounts!SubmitCode, accounts!ConfirmSetup,
     accounts!ConfirmAction, TryOps
<1> QED
  BY <1>1, <1>2, <1>3, <1>4, <1>5, <1>6, <1>7, <1>8, <1>9, <1>10, <1>11

\* The writes of the routes to the account.
LEMMA WriteStep ==
    ASSUME AccountsInv, NEW t \in tries,
           \/ accounts!Signup(t) \/ accounts!WritePending(t) \/ accounts!WriteCodes(t)
                 \/ accounts!WriteConsumed(t)
           \/ accounts!WriteDisabled(t)
    PROVE  AccountsInv'
<1>a. account \in accounts!AccountRecords /\ minted \in 0..MaxSecrets
  BY DEF AccountsInv, accounts!TypeOK
<1>1. CASE accounts!Signup(t)
  <2>1. tries' \subseteq accounts!Tries /\ Known'
    <3>1. PICK at \in {"failed", "challenge", "setup", "session"} : accounts!To(t, at)
      BY <1>1 DEF accounts!Signup, accounts!Admission
    <3> QED
      BY <1>1, <3>1, ToKeeps DEF accounts!Signup, TryStages
  <2>2. /\ account' \in accounts!AccountRecords
        /\ account'.enabled = account.enabled /\ account'.secret = account.secret
        /\ account'.overtaken = account.overtaken
    BY <1>a, <1>1 DEF accounts!Signup, accounts!AccountRecords
  <2> QED
    BY <1>1, <2>1, <2>2 DEF accounts!Signup, AccountsInv, accounts!TypeOK,
       accounts!SecretIsInApp
<1>2. CASE accounts!WritePending(t)
  <2>1. minted + 1 \in 0..MaxSecrets
    BY <1>a, <1>2, AccountsAssumption DEF accounts!WritePending
  <2>2. tries' \subseteq accounts!Tries /\ Known'
    BY <1>2, <2>1, MovesKeep DEF accounts!WritePending, TryStages, AccountsInv,
       accounts!TypeOK
  <2>3. account' \in accounts!AccountRecords /\ account'.enabled = FALSE
    BY <1>a, <1>2, <2>1 DEF accounts!WritePending, accounts!AccountRecords
  <2> QED
    BY <1>2, <2>1, <2>2, <2>3 DEF accounts!WritePending, AccountsInv, accounts!TypeOK,
       accounts!SecretIsInApp
<1>3. CASE accounts!WriteCodes(t)
  <2>1. tries' \subseteq accounts!Tries /\ Known'
    <3>1. PICK at \in {"welcome", "codes"} : accounts!To(t, at)
      BY <1>3 DEF accounts!WriteCodes
    <3> QED
      BY <1>3, <3>1, ToKeeps DEF accounts!WriteCodes, TryStages
  <2>2. CASE t.at = "renew"
    <3>1. /\ account' \in accounts!AccountRecords
          /\ account'.secret = account.secret
          /\ account'.enabled = account.enabled /\ account'.overtaken
                = account.overtaken
      BY <1>a, <1>3, <2>2 DEF accounts!WriteCodes, accounts!AccountRecords
    <3> QED
      BY <1>3, <2>1, <3>1 DEF accounts!WriteCodes, AccountsInv, accounts!TypeOK,
         accounts!SecretIsInApp
  <2>3. CASE t.at = "enable"
    <3>1. t.n \in app
      BY <2>3 DEF AccountsInv, Known, Knows
    <3>2. /\ account' \in accounts!AccountRecords /\ account'.secret = account.secret
          /\ t.n # account.secret => account'.overtaken
      BY <1>a, <1>3, <2>3 DEF accounts!WriteCodes, accounts!AccountRecords
    <3>3. accounts!SecretIsInApp'
      BY <1>3, <3>1, <3>2 DEF accounts!WriteCodes, accounts!SecretIsInApp
    <3> QED
      BY <1>3, <2>1, <3>2, <3>3 DEF accounts!WriteCodes, AccountsInv, accounts!TypeOK
  <2> QED
    BY <1>3, <2>2, <2>3 DEF accounts!WriteCodes
<1>4. CASE accounts!WriteConsumed(t)
  <2>1. tries' \subseteq accounts!Tries /\ Known'
    BY <1>4, ToKeeps DEF accounts!WriteConsumed, TryStages
  <2>2. /\ account' \in accounts!AccountRecords
        /\ account'.enabled = account.enabled /\ account'.secret = account.secret
        /\ account'.overtaken = account.overtaken
    BY <1>a, <1>4 DEF accounts!WriteConsumed, accounts!AccountRecords
  <2> QED
    BY <1>4, <2>1, <2>2 DEF accounts!WriteConsumed, AccountsInv, accounts!TypeOK,
       accounts!SecretIsInApp
<1>5. CASE accounts!WriteDisabled(t)
  <2>1. tries' \subseteq accounts!Tries /\ Known'
    BY <1>5, ToKeeps DEF accounts!WriteDisabled, TryStages
  <2>2. account' \in accounts!AccountRecords /\ account'.enabled = FALSE
    <3>1. 0 \in 0..MaxSecrets
      BY AccountsAssumption
    <3> QED
      BY <1>a, <1>5, <3>1 DEF accounts!WriteDisabled, accounts!AccountRecords
  <2> QED
    BY <1>5, <2>1, <2>2 DEF accounts!WriteDisabled, AccountsInv, accounts!TypeOK,
       accounts!SecretIsInApp
<1> QED
  BY <1>1, <1>2, <1>3, <1>4, <1>5

\* The decisions of the routes.
LEMMA DecideStep ==
    ASSUME AccountsInv, NEW t \in tries,
           \/ accounts!Signin(t) \/ accounts!Forgot(t) \/ accounts!Reset(t)
                 \/ accounts!Status(t) \/ accounts!ReadSetup(t)
           \/ accounts!ReadVerify(t) \/ accounts!ReadManage(t) \/ accounts!Fails(t)
    PROVE  AccountsInv'
<1>1. \E at \in TryStages : accounts!Decides(t, at) /\ (at = "enable"
     => accounts!Fits(t))
  BY DEF accounts!Signin, accounts!Forgot, accounts!Reset, accounts!Status,
     accounts!ReadSetup, accounts!ReadVerify, accounts!ReadManage, accounts!Fails,
     accounts!Admission, TryStages
<1> QED
  BY <1>1, DecidesKeeps

\* The answers that reach the browser.
LEMMA AnswerStep ==
    ASSUME AccountsInv, NEW t \in tries, accounts!Enter(t) \/ accounts!Welcome(t)
          \/ accounts!Challenge(t) \/ accounts!Shows(t)
    PROVE  AccountsInv'
<1>a. place \in accounts!Places /\ t \in accounts!Tries /\ signed \in BOOLEAN
  BY DEF AccountsInv, accounts!TypeOK
<1>1. CASE accounts!Enter(t)
  <2>1. place' \in accounts!Places
    BY <1>1, PageRecords DEF accounts!Enter, accounts!Pages
  <2>2. \A u \in tries' : u \in accounts!Left(tries)
    BY <1>1 DEF accounts!Enter, accounts!Left
  <2> QED
    BY <1>1, <2>1, <2>2, EndKeeps DEF accounts!Enter
<1>2. CASE accounts!Welcome(t)
  <2>1. place' \in accounts!Places
    BY <1>a, <1>2, PageRecords DEF accounts!Welcome, accounts!Pages
  <2> QED
    BY <1>2, <2>1, EndKeeps DEF accounts!Welcome, accounts!Ends
<1>3. CASE accounts!Challenge(t)
  <2>1. place' \in accounts!Places
    BY <1>3, PageRecords DEF accounts!Challenge, accounts!Pages
  <2> QED
    BY <1>a, <1>3, <2>1, PageKeeps DEF accounts!Challenge, TryOps
<1>4. CASE accounts!Shows(t)
  <2>1. (place.busy /\ t.op = "status") \in BOOLEAN /\ (t.at = "on") \in BOOLEAN
    OBVIOUS
  <2>2. place' \in accounts!Places
    <3>1. CASE t.at = "pended"
      <4>1. t.n \in 0..MaxSecrets
        BY <1>a DEF accounts!Tries
      <4>2. place' = [place EXCEPT !.secret = t.n, !.busy = FALSE]
        BY <1>4, <3>1 DEF accounts!Shows
      <4> QED
        BY <1>a, <4>1, <4>2 DEF accounts!Places
    <3>2. CASE t.at = "codes"
      <4>1. 0 \in 0..MaxSecrets
        BY AccountsAssumption
      <4>2. place' = [place EXCEPT !.enrolled = TRUE, !.secret = 0, !.busy = FALSE]
        BY <1>4, <3>2 DEF accounts!Shows
      <4> QED
        BY <1>a, <4>1, <4>2 DEF accounts!Places
    <3>3. CASE t.at \in {"on", "off"}
      BY <1>a, <1>4, <2>1, <3>3 DEF accounts!Shows, accounts!Places
    <3>4. CASE t.at = "failed"
      BY <1>a, <1>4, <2>1, <3>4 DEF accounts!Shows, accounts!Places
    <3> QED
      BY <1>4, <3>1, <3>2, <3>3, <3>4 DEF accounts!Shows
  <2> QED
    BY <1>a, <1>4, <2>2, EndKeeps DEF accounts!Shows, accounts!Ends
<1> QED
  BY <1>1, <1>2, <1>3, <1>4

\* Every behaviour of the accounts keeps the invariant.
LEMMA AccountsInvariant == accounts!Spec => []AccountsInv
<1>1. accounts!Init => AccountsInv
  <2> SUFFICES ASSUME accounts!Init PROVE AccountsInv
    OBVIOUS
  <2>1. place \in accounts!Places
    BY PageRecords DEF accounts!Init, accounts!Pages
  <2>2. account \in accounts!AccountRecords /\ account.enabled = FALSE
    BY AccountsAssumption DEF accounts!Init, accounts!AccountRecords
  <2>3. accounts!TypeOK
    <3>1. minted \in 0..MaxSecrets /\ app = {} /\ tries = {}
      BY AccountsAssumption DEF accounts!Init
    <3>2. mandatory \in BOOLEAN /\ signed \in BOOLEAN
      BY DEF accounts!Init
    <3> QED
      BY <2>1, <2>2, <3>1, <3>2 DEF accounts!TypeOK
  <2> QED
    BY <2>2, <2>3 DEF accounts!Init, AccountsInv, Known, accounts!SecretIsInApp
<1>2. AccountsInv /\ [accounts!Next]_(accounts!vars) => AccountsInv'
  <2> SUFFICES ASSUME AccountsInv, [accounts!Next]_(accounts!vars) PROVE AccountsInv'
    OBVIOUS
  <2>1. CASE UNCHANGED accounts!vars
    <3>1. accounts!Codes' = accounts!Codes
      BY <2>1 DEF accounts!vars, accounts!Codes
    <3> QED
      BY <2>1, <3>1 DEF accounts!vars, AccountsInv, accounts!TypeOK, Known, Knows,
         accounts!SecretIsInApp
  <2>2. CASE accounts!Next
    BY <2>2, PageStep, WriteStep, DecideStep, AnswerStep DEF accounts!Next
  <2> QED
    BY <2>1, <2>2
<1> QED
  BY <1>1, <1>2, PTL DEF accounts!Spec

\* Seen at its own variables, a behaviour of the screens is one of this model.
LEMMA ImplementsAccounts == Spec => accounts!Spec
<1>1. Init => accounts!Init
  BY DEF Init
<1>2. [Next]_vars => [accounts!Next]_(accounts!vars)
  BY DEF Next, ChatNext, WorkspaceNext, ComposerNext, ResearchNext, LearningNext,
     MembershipNext, OnboardingNext, AccountsNext, TasksNext, DocumentsNext,
     EmissionsNext, PermitNext, FieldNext, vars, desk, office, mobile, access,
     accounts!vars
<1> QED
  BY <1>1, <1>2, PTL DEF Spec, accounts!Spec

\* The account, the page and the requests under way are those of the model.
THEOREM AccountsTypes == Spec => []accounts!TypeOK
<1>1. AccountsInv => accounts!TypeOK
  BY DEF AccountsInv
<1> QED
  BY <1>1, ImplementsAccounts, AccountsInvariant, PTL

\* However many setups of the second factor are begun, given up and confirmed at
\* once, on whichever page, it is only switched on with a secret that is in the
\* user's authenticator, but for a setup that overtakes the switching on of the
\* one before (routes_auth.py).
THEOREM SecondFactorIsUsable == Spec => []SecretIsInApp
<1>1. AccountsInv => SecretIsInApp
  BY DEF AccountsInv, SecretIsInApp
<1> QED
  BY <1>1, ImplementsAccounts, AccountsInvariant, PTL
=============================================================================
