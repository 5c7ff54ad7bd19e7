------------------------------ MODULE Accounts ------------------------------
(***************************************************************************)
(* Signing up and in, the second factor and the way back to a forgotten    *)
(* password: the forms of apps/web/lib/auth (AuthForm, ForgotPasswordForm, *)
(* ResetPasswordForm) and the security section of the settings, over the   *)
(* routes of app/api/routes_auth.py.  For what becomes of a session see    *)
(* Session.                                                                *)
(*                                                                         *)
(* One user with one account and one browser, whose requests outlive the   *)
(* page they were sent from.  A route reads the account's row and, in a    *)
(* second step, writes to it.  Secrets of an authenticator are numbered;   *)
(* recovery codes are there or not, and the user knows one that is.  What  *)
(* is typed wrongly is a request that fails; lockouts and times of         *)
(* validity are left out.                                                  *)
(***************************************************************************)
EXTENDS Frontend

VARIABLES
    mandatory,  \* PB_REQUIRE_2FA
    account,    \* the row of the user
    minted,     \* secrets generated so far
    app,        \* the secrets in the user's authenticator
    place,      \* the page that is open and what it shows
    signed,     \* the browser has a session
    tries       \* requests under way

vars == <<mandatory, account, minted, app, place, signed, tries>>

Secrets == 1..MaxSecrets
Pages == {"form", "factor", "card", "forgot", "reset", "settings", "chat"}

\* Codes: of a secret, of a set of recovery codes.
Totp(s) == <<"totp", s>>
Recovery == <<"recovery", 0>>
NoCode == <<"none", 0>>

Page(page) == [page |-> page, enrolled |-> FALSE, secret |-> 0, busy |-> FALSE]

Init ==
    /\ mandatory \in BOOLEAN
    /\ account = [made |-> FALSE, secret |-> 0, enabled |-> FALSE, codes |-> FALSE,
                  overtaken |-> FALSE]
    /\ minted = 0 /\ app = {}
    /\ place = Page("form") /\ signed = FALSE /\ tries = {}

-----------------------------------------------------------------------------
(* The pages. *)

\* Answers that only change the page that they are shown on.
Shown == {"challenge", "setup", "pended", "codes", "on", "off", "failed"}

\* Going to another page: a request goes on as long as it changes anything but
\* the page that is gone.  The security section asks for the status as it opens.
Left(S) ==
    {[t EXCEPT !.here = FALSE] :
       t \in {u \in S : u.at \notin Shown /\ u.op \notin {"status", "forgot", "reset"}}}
Sends(op, code) == {[op |-> op, at |-> "sent", code |-> code, n |-> 0, here |-> TRUE]}
GoTo(page) ==
    /\ page \in Pages \ {place.page, "factor", "card"}
    /\ page \in {"settings", "chat"} => signed
    /\ page = "reset" => account.made
    /\ place' = Page(page)
    /\ page = "settings" => Cardinality(tries) < MaxHandlers
    /\ tries' = Left(tries) \cup (IF page = "settings" THEN Sends("status", NoCode) ELSE {})
    /\ UNCHANGED <<mandatory, account, minted, app, signed>>

SignOut ==
    /\ signed
    /\ signed' = FALSE
    /\ place' = Page("form")
    /\ tries' = Left(tries)
    /\ UNCHANGED <<mandatory, account, minted, app>>

Request(op, code) ==
    /\ Cardinality(tries) < MaxHandlers
    /\ tries' = tries \cup Sends(op, code)
    /\ UNCHANGED <<mandatory, account, minted, app, signed>>
Submit(op, code) == ~place.busy /\ place' = [place EXCEPT !.busy = TRUE] /\ Request(op, code)

UnderWay(op) == \E t \in tries : t.op = op /\ t.here

\* The forms.
SubmitForm ==
    /\ place.page = "form"
    /\ Submit("signup", NoCode) \/ Submit("signin", NoCode)
SubmitForgot == place.page = "forgot" /\ Submit("forgot", NoCode)
SubmitReset == place.page = "reset" /\ Submit("reset", NoCode)

\* The user takes the secret that is shown into the authenticator.
Scan ==
    /\ place.secret # 0
    /\ app' = app \cup {place.secret}
    /\ UNCHANGED <<mandatory, account, minted, place, signed, tries>>

\* The second step: a code of the authenticator or a recovery code, not while
\* the setup is being prepared.
SubmitCode(code) ==
    /\ place.page = "factor"
    /\ ~UnderWay("enroll")
    /\ Submit("verify", code)

\* "Continue" under the recovery codes.
Acknowledge ==
    /\ place.page = "card"
    /\ place' = Page("chat")
    /\ UNCHANGED <<mandatory, account, minted, app, signed, tries>>

\* The security section, once the status has arrived: set up, cancel, confirm;
\* turn off, new codes; refresh.
Section(enrolled) ==
    place.page = "settings" /\ place.enrolled = enrolled /\ ~UnderWay("status")
StartSetup ==
    /\ Section(FALSE) /\ place.secret = 0
    /\ Submit("enroll", NoCode)
CancelSetup ==
    /\ Section(FALSE) /\ place.secret # 0 /\ ~place.busy
    /\ place' = [place EXCEPT !.secret = 0]
    /\ UNCHANGED <<mandatory, account, minted, app, signed, tries>>
ConfirmSetup(code) ==
    /\ Section(FALSE) /\ place.secret # 0
    /\ Submit("activate", code)
ConfirmAction(code) ==
    /\ Section(TRUE)
    /\ (~mandatory /\ Submit("disable", code)) \/ Submit("regenerate", code)
RefreshStatus ==
    /\ place.page = "settings" /\ ~UnderWay("status")
    /\ UNCHANGED place /\ Request("status", NoCode)

-----------------------------------------------------------------------------
(* The routes. *)

\* What is to be written, or the answer; n is the secret whose code was right,
\* or the secret that was made.
ToWith(t, at, n) ==
    tries' = (tries \ {t}) \cup
             {u \in {[t EXCEPT !.at = at, !.code = NoCode, !.n = n]} : t.here \/ at \notin Shown}
To(t, at) == ToWith(t, at, IF at = "enable" THEN account.secret ELSE 0)
Decides(t, at) == To(t, at) /\ UNCHANGED <<mandatory, account, minted, app, place, signed>>

\* The password was right: a second factor if it is set up, its setup if it is
\* required, or else a session.
Admission == IF account.enabled THEN "challenge" ELSE IF mandatory THEN "setup" ELSE "session"

Signup(t) ==
    /\ t.op = "signup" /\ t.at = "sent"
    /\ account' = [account EXCEPT !.made = TRUE]
    /\ To(t, IF account.made THEN "failed" ELSE Admission)
    /\ UNCHANGED <<mandatory, minted, app, place, signed>>
Signin(t) ==
    /\ t.op = "signin" /\ t.at = "sent"
    /\ Decides(t, IF account.made THEN Admission ELSE "failed")

\* A link is mailed to whoever has an account; the answer is the same.  A link
\* gives a session; that it does so once, and not for long, is left out.
Forgot(t) ==
    /\ t.op = "forgot" /\ t.at = "sent"
    /\ Decides(t, "failed")
Reset(t) ==
    /\ t.op = "reset" /\ t.at = "sent"
    /\ Decides(t, "session")

Status(t) ==
    /\ t.op = "status" /\ t.at = "sent"
    /\ Decides(t, IF account.enabled THEN "on" ELSE "off")

\* Mutant: a code of any secret there ever was.
FitsAny(t) == account.secret # 0 /\ t.code[1] = "totp"

\* The second factor: a setup while none is on, a code of the stored secret,
\* at sign-in also the recovery code.
Fits(t) == account.secret # 0 /\ t.code = Totp(account.secret)

ReadSetup(t) ==
    /\ t.op = "enroll" /\ t.at = "sent"
    /\ Decides(t, IF account.enabled THEN "failed" ELSE "pend")
ReadVerify(t) ==
    /\ t.op = "verify" /\ t.at = "sent"
    /\ \/ Fits(t) /\ Decides(t, IF account.enabled THEN "session" ELSE "enable")
       \/ /\ ~Fits(t) /\ account.codes /\ t.code = Recovery
          /\ Decides(t, "consume")
       \/ /\ ~Fits(t) /\ ~(account.codes /\ t.code = Recovery)
          /\ Decides(t, "failed")
ReadManage(t) ==
    /\ t.at = "sent"
    /\ \/ t.op = "activate" /\ Decides(t, IF ~account.enabled /\ Fits(t) THEN "enable" ELSE "failed")
       \/ t.op = "disable" /\ Decides(t, IF account.enabled /\ Fits(t) THEN "disable" ELSE "failed")
       \/ t.op = "regenerate" /\ Decides(t, IF account.enabled /\ Fits(t) THEN "renew" ELSE "failed")

\* set_totp_pending stores a new secret, switched off.
WritePending(t) ==
    /\ t.at = "pend" /\ minted < MaxSecrets
    /\ minted' = minted + 1
    /\ account' = [account EXCEPT !.secret = minted + 1, !.enabled = FALSE,
                                  !.overtaken = FALSE]
    /\ ToWith(t, "pended", minted + 1)
    /\ UNCHANGED <<mandatory, app, place, signed>>
\* enable_totp switches on whatever secret is stored (overtaken is history: not
\* the one whose code was checked); either way there are new recovery codes.
WriteCodes(t) ==
    /\ t.at \in {"enable", "renew"}
    /\ account' = [account EXCEPT !.codes = TRUE,
                                  !.enabled = @ \/ t.at = "enable",
                                  !.overtaken = @ \/ (t.at = "enable" /\ t.n # account.secret)]
    /\ To(t, IF t.op = "verify" THEN "welcome" ELSE "codes")
    /\ UNCHANGED <<mandatory, minted, app, place, signed>>
WriteConsumed(t) ==
    /\ t.at = "consume"
    /\ account' = [account EXCEPT !.codes = FALSE]
    /\ To(t, "session")
    /\ UNCHANGED <<mandatory, minted, app, place, signed>>
WriteDisabled(t) ==
    /\ t.at = "disable"
    /\ account' = [account EXCEPT !.secret = 0, !.enabled = FALSE, !.codes = FALSE,
                                  !.overtaken = FALSE]
    /\ To(t, "off")
    /\ UNCHANGED <<mandatory, minted, app, place, signed>>

\* A request fails, at once or between two steps, or its answer is lost.
Fails(t) == t.at # "failed" /\ Decides(t, "failed")

-----------------------------------------------------------------------------
(* Answers. *)

Ends(t) == tries' = tries \ {t}

\* A session is kept and entered even if the form was left meanwhile.
Enter(t) ==
    /\ t.at = "session"
    /\ signed' = TRUE
    /\ place' = Page("chat")
    /\ tries' = Left(tries \ {t})
    /\ UNCHANGED <<mandatory, account, minted, app>>
\* After a setup the recovery codes are shown first, if there is still a page.
Welcome(t) ==
    /\ t.at = "welcome"
    /\ signed' = TRUE
    /\ place' = IF t.here THEN Page("card") ELSE place
    /\ Ends(t)
    /\ UNCHANGED <<mandatory, account, minted, app>>

\* The form asks for a code, and for a secret first if none is set up.
Challenge(t) ==
    /\ t.at \in {"challenge", "setup"}
    /\ place' = [Page("factor") EXCEPT !.enrolled = (t.at = "challenge")]
    /\ tries' = (tries \ {t}) \cup (IF t.at = "setup" THEN Sends("enroll", NoCode) ELSE {})
    /\ UNCHANGED <<mandatory, account, minted, app, signed>>

\* A secret to scan, recovery codes to note, the status, a failure: the page
\* that asked shows them and is free again.
Shows(t) ==
    /\ \/ /\ t.at = "pended"
          /\ place' = [place EXCEPT !.secret = t.n, !.busy = FALSE]
       \/ /\ t.at = "codes"
          /\ place' = [place EXCEPT !.enrolled = TRUE, !.secret = 0, !.busy = FALSE]
       \/ /\ t.at \in {"on", "off"}
          /\ place' = [place EXCEPT !.enrolled = (t.at = "on"), !.busy = @ /\ t.op = "status"]
       \/ /\ t.at = "failed"
          /\ place' = [place EXCEPT !.busy = @ /\ t.op = "status"]
    /\ Ends(t)
    /\ UNCHANGED <<mandatory, account, minted, app, signed>>

-----------------------------------------------------------------------------

Codes == {Totp(s) : s \in app} \cup {Recovery}

Next ==
    \/ SubmitForm \/ SubmitForgot \/ SubmitReset \/ Scan \/ Acknowledge \/ SignOut
    \/ StartSetup \/ CancelSetup \/ RefreshStatus
    \/ \E page \in Pages : GoTo(page)
    \/ \E code \in Codes : SubmitCode(code) \/ ConfirmSetup(code) \/ ConfirmAction(code)
    \/ \E t \in tries :
        \/ Signup(t) \/ Signin(t) \/ Forgot(t) \/ Reset(t) \/ Status(t) \/ ReadSetup(t)
        \/ ReadVerify(t) \/ ReadManage(t) \/ WritePending(t) \/ WriteCodes(t)
        \/ WriteConsumed(t) \/ WriteDisabled(t) \/ Fails(t)
        \/ Enter(t) \/ Welcome(t) \/ Challenge(t) \/ Shows(t)

Spec == Init /\ [][Next]_vars

-----------------------------------------------------------------------------
(* Properties. *)

AccountRecords == [made : BOOLEAN, secret : 0..MaxSecrets, enabled : BOOLEAN,
                   codes : BOOLEAN, overtaken : BOOLEAN]
Places == [page : Pages, enrolled : BOOLEAN, secret : 0..MaxSecrets, busy : BOOLEAN]
Tries ==
    [op : {"signup", "signin", "forgot", "reset", "status", "enroll", "verify",
           "activate", "disable", "regenerate"},
     at : {"sent", "pend", "enable", "consume", "disable", "renew", "session",
           "challenge", "setup", "welcome", "pended", "codes", "on", "off", "failed"},
     code : {Totp(s) : s \in Secrets} \cup {Recovery, NoCode},
     n : 0..MaxSecrets, here : BOOLEAN]

\* The state is one of the account, its requests and one page.
TypeOK ==
    /\ mandatory \in BOOLEAN /\ signed \in BOOLEAN
    /\ account \in AccountRecords /\ place \in Places /\ tries \subseteq Tries
    /\ minted \in 0..MaxSecrets /\ app \subseteq Secrets

\* The second factor is never switched on with a secret that is not in the
\* user's authenticator, however often a setup was begun, given up and begun
\* again on whichever page, except in one case: a new setup stored its secret
\* after the code of the one before was checked and before it was switched on
\* (routes_auth.py reads the secret, checks the code and calls enable_totp).
SecretIsInApp == account.enabled => account.overtaken \/ account.secret \in app
=============================================================================
