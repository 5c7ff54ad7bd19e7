----------------------------- MODULE Membership -----------------------------
(***************************************************************************)
(* Members and invitations of an organization: the page an administrator   *)
(* manages them on (TeamClient.tsx of apps/web/app/admin/team), the page   *)
(* an invitation's link leads to (InvitationClient.tsx of                  *)
(* app/invitations/[token]) and the routes behind both                     *)
(* (app/api/routes_onboarding.py over onboarding_repository.py and         *)
(* users_repository.py, Postgres).                                         *)
(*                                                                         *)
(* One organization and the invitations of one address, each with a link   *)
(* of its own.  The API runs in several processes: each call of a          *)
(* repository is a step.  What the console lists may be as old as one      *)
(* likes (a handler's lists replace those of a later one), so it offers    *)
(* what any list since the page was opened could offer.  Roles,            *)
(* departments and the delivery of mail are left out.                      *)
(***************************************************************************)
EXTENDS Frontend

VARIABLES
    invites,   \* invites[i]: the status of the address's i-th invitation
    due,       \* invitations whose time is known to have passed
    member,    \* the address's account in the organization
    visits,    \* pages of links that are open, with the request of each
    changing,  \* the console's busy
    changes    \* handlers of the console under way

vars == <<invites, due, member, visits, changing, changes>>
console == <<changing, changes>>

Statuses == {"pending", "accepted", "expired", "revoked"}
Accounts == {"none", "active", "removed"}

Init ==
    /\ invites = <<>> /\ due = {} /\ member = "none" /\ visits = {}
    /\ changing = FALSE /\ changes = {}

IsPending(i) == i \in DOMAIN invites /\ invites[i] = "pending"
SetStatus(i, status) == invites' = [invites EXCEPT ![i] = status]

-----------------------------------------------------------------------------
(* The console: buttons. *)

Handle(kind, about) ==
    /\ Cardinality(changes) < MaxHandlers
    /\ \A h \in changes : h.kind # kind
    /\ changes' = changes \cup {[kind |-> kind, at |-> "sent", about |-> about]}
    /\ UNCHANGED <<invites, due, member, visits>>

\* "Create invite", "Resend" and "Revoke", the last two of a row that is listed
\* as pending, make the page busy.
SubmitInvite == ~changing /\ changing' = TRUE /\ Handle("create", 0)
InvitationAction(i) ==
    /\ ~changing /\ i \in DOMAIN invites
    /\ changing' = TRUE
    /\ Handle("resend", i) \/ Handle("revoke", i)

\* "Remove", like the list of roles, neither looks at it nor sets it.
DeactivateMember == member # "none" /\ Handle("remove", 0) /\ UNCHANGED changing

-----------------------------------------------------------------------------
(* The console's requests on the server. *)

Moves(h, at) == changes' = (changes \ {h}) \cup {[h EXCEPT !.at = at]}

\* PATCH reads the invitation: only a pending one can be changed.
CheckPending(h) ==
    /\ h.kind \in {"resend", "revoke"} /\ h.at = "sent"
    /\ Moves(h, IF IsPending(h.about) THEN "checked" ELSE "done")
    /\ UNCHANGED <<invites, due, member, visits, changing>>

\* Revoking, also as the first half of sending again, does not look again.
Revoke(h) ==
    /\ h.at = "checked"
    /\ SetStatus(h.about, "revoked")
    /\ Moves(h, IF h.kind = "revoke" THEN "done" ELSE "revoked")
    /\ UNCHANGED <<due, member, visits, changing>>

\* Another pending invitation of the address is no obstacle in Postgres.
CreateInvitation(h) ==
    /\ \/ h.kind = "create" /\ h.at = "sent"
       \/ h.kind = "resend" /\ h.at = "revoked"
    /\ Len(invites) < MaxInvites
    /\ invites' = Append(invites, "pending")
    /\ Moves(h, "done")
    /\ UNCHANGED <<due, member, visits, changing>>

RemoveMember(h) ==
    /\ h.kind = "remove" /\ h.at = "sent"
    /\ member' = "removed"
    /\ Moves(h, "done")
    /\ UNCHANGED <<invites, due, visits, changing>>

\* The request fails, at once or between two steps.
RequestFails(h) ==
    /\ h.at # "done"
    /\ Moves(h, "done")
    /\ UNCHANGED <<invites, due, member, visits, changing>>

\* Both lists are read again; an invitation's handler frees the page.
HandlerEnds(h) ==
    /\ h.at = "done"
    /\ changes' = changes \ {h}
    /\ changing' = (changing /\ h.kind = "remove")
    /\ UNCHANGED <<invites, due, member, visits>>

-----------------------------------------------------------------------------
(* The invited person. *)

Turn(v, at) == visits' = (visits \ {v}) \cup {[v EXCEPT !.at = at]}

\* _valid_invitation: a pending invitation is valid until its time has passed;
\* that is noticed when it is read and written in a step of its own.
Lapsed(i) == due' = due \cup {i}
Valid(i) == i \notin due /\ UNCHANGED due

OpenLink(i) ==
    /\ IsPending(i) /\ Cardinality(visits) < MaxHandlers
    /\ \/ Valid(i) /\ visits' = visits \cup {[invite |-> i, at |-> "form"]}
       \/ Lapsed(i) /\ visits' = visits \cup {[invite |-> i, at |-> "lapsed"]}
    /\ UNCHANGED <<invites, member, console>>

Accept(v) ==
    /\ v.at = "form"
    /\ Turn(v, "sent")
    /\ UNCHANGED <<invites, due, member, console>>

\* accept_invitation looks for a valid invitation and no active account, ...
CheckInvitation(v) ==
    /\ v.at = "sent"
    /\ \/ IsPending(v.invite) /\ Lapsed(v.invite) /\ Turn(v, "lapsed")
       \/ IsPending(v.invite) /\ member # "active" /\ Valid(v.invite) /\ Turn(v, "checked")
       \/ /\ ~IsPending(v.invite) \/ member = "active"
          /\ Turn(v, "form") /\ UNCHANGED due
    /\ UNCHANGED <<invites, member, console>>

\* Mutant: the account's key is not looked at.
JoinAgain(v) ==
    /\ v.at = "checked"
    /\ member' = "active"
    /\ Turn(v, "joined")
    /\ UNCHANGED <<invites, due, console>>

\* ... creates the account, which the key (tenant, email) allows once, ...
Join(v) ==
    /\ v.at = "checked"
    /\ \/ member = "none" /\ member' = "active" /\ Turn(v, "joined")
       \/ member # "none" /\ Turn(v, "form") /\ UNCHANGED member
    /\ UNCHANGED <<invites, due, console>>

\* ... and marks the invitation, whatever became of it meanwhile; the page is
\* complete.
MarkAccepted(v) ==
    /\ v.at = "joined"
    /\ SetStatus(v.invite, "accepted")
    /\ visits' = visits \ {v}
    /\ UNCHANGED <<due, member, console>>

MarkExpired(v) ==
    /\ v.at = "lapsed"
    /\ SetStatus(v.invite, "expired")
    /\ visits' = visits \ {v}
    /\ UNCHANGED <<due, member, console>>

\* The request fails or its answer is lost; the form can be sent again.
AcceptFails(v) ==
    /\ v.at # "form"
    /\ Turn(v, "form")
    /\ UNCHANGED <<invites, due, member, console>>

Leave(v) ==
    /\ v.at = "form"
    /\ visits' = visits \ {v}
    /\ UNCHANGED <<invites, due, member, console>>

-----------------------------------------------------------------------------
Next ==
    \/ SubmitInvite
    \/ \E i \in 1..MaxInvites : InvitationAction(i)
    \/ DeactivateMember
    \/ \E h \in changes : CheckPending(h)
    \/ \E h \in changes : Revoke(h)
    \/ \E h \in changes : CreateInvitation(h)
    \/ \E h \in changes : RemoveMember(h)
    \/ \E h \in changes : RequestFails(h)
    \/ \E h \in changes : HandlerEnds(h)
    \/ \E i \in 1..MaxInvites : OpenLink(i)
    \/ \E v \in visits : Accept(v)
    \/ \E v \in visits : CheckInvitation(v)
    \/ \E v \in visits : Join(v)
    \/ \E v \in visits : MarkAccepted(v)
    \/ \E v \in visits : MarkExpired(v)
    \/ \E v \in visits : AcceptFails(v)
    \/ \E v \in visits : Leave(v)

Spec == Init /\ [][Next]_vars

-----------------------------------------------------------------------------
(* Properties. *)

Changes ==
    [kind : {"create", "resend", "revoke", "remove"},
     at : {"sent", "checked", "revoked", "done"}, about : 0..MaxInvites]
Visits == [invite : 1..MaxInvites,
           at : {"form", "sent", "lapsed", "checked", "joined"}]

TypeOK ==
    /\ invites \in Seq(Statuses) /\ due \subseteq DOMAIN invites
    /\ member \in Accounts /\ visits \subseteq Visits
    /\ changing \in BOOLEAN /\ changes \subseteq Changes

\* Every account has at most one invitation it was admitted by, and an
\* accepted invitation has its account: two links of one address that are
\* followed at once, a link that is revoked, sent again or run out under the
\* acceptance, and an answer that is lost and asked for again admit a person
\* once.
OneAdmission ==
    /\ \A i, j \in DOMAIN invites :
          invites[i] = "accepted" /\ invites[j] = "accepted" => i = j
    /\ (\E i \in DOMAIN invites : invites[i] = "accepted") => member # "none"

\* A person that was removed is not let in again by a link that was sent to
\* them, whenever it was sent: the account exists, and only a new one is made.
RemovedStaysOut == [][member = "removed" => member' = "removed"]_vars
=============================================================================
