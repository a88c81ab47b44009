------------------------------ MODULE Accounts ------------------------------
(* People, their passwords and their sessions: signing in, renewing and        *)
(* closing a session, single-use links, passwords, leaving and coming back     *)
(* (apps/users, and the doors apps/tenants opens to providers and              *)
(* applications).                                                              *)
(*                                                                             *)
(* Every request is one transaction at READ COMMITTED and none of them locks   *)
(* the row of the person before reading it: what it decides on is a copy, and  *)
(* the row is locked only from the first UPDATE to the commit.  A request is   *)
(* used once; its own name stands for what it leaves behind: the password it   *)
(* set, the instant it signed somebody in, the session it issued.              *)
EXTENDS Naturals, FiniteSets

CONSTANTS
    People,            \* the people of one company, there or still to come
    Founder,           \* who signs the company up, and administers it
    Requests,          \* the requests of one behaviour, links included
    SignUp,            \* the one that signed the company up
    Trail,             \* the people who left a record (rastro_de)
    App,               \* an application with write:people
    Unset              \* no usable password, no sign-in yet, no one

ASSUME FounderAssumption == Founder \in People /\ SignUp \in Requests
ASSUME UnsetAssumption == Unset \notin Requests \cup People /\ App \notin People

VARIABLES
    person,    \* the row of each person, as committed
    session,   \* the refresh token each request issued: unissued, live or blacklisted
    req,       \* what each request has read and is about to write
    knew,      \* history: the revocations each session is allowed to outlive
    undercut   \* history: the edits under way whose reading another made untrue

vars == <<person, session, req, knew, undercut>>

-----------------------------------------------------------------------------
(* Kinds of request *)

SignIns   == {"person", "application"}
OwnSecret == {"setByLink", "changeOwn"}
Edits     == {"touch", "promote", "demote", "reset", "return", "leave", "delete", "erase"}
\* What an application may ask for: never a role or a password.
AppEdits  == {"touch", "return", "leave", "delete"}
\* A save() without update_fields writes every column of the copy it read.
WholeRow  == {"touch", "promote", "demote", "reset", "return", "leave"}
Revoking  == OwnSecret \cup {"reset", "leave", "delete", "backChannel"}
Kinds     == SignIns \cup OwnSecret \cup Edits \cup {"renew", "link", "backChannel"}

Roles   == {"ADMIN", "EMPLOYEE"}
\* A password: the one an account was created with, or the one a request set.
Secrets == Requests \cup {Unset, "given"}
Rows    == [state : {"unborn", "there", "erased"}, role : Roles, active : BOOLEAN,
            secret : Secrets, login : Requests \cup {Unset}]

Idle == [pc |-> "new", kind |-> "link", on |-> Unset, via |-> Unset,
         copy |-> Unset, closing |-> {}, seen |-> {}]

InFlight(r) == req[r].pc \in {"read", "saved", "revoked"}
Editing(r)  == InFlight(r) /\ req[r].kind \in Edits

There(p)  == person[p].state = "there"
Active(p) == There(p) /\ person[p].active

\* A refresh token serves until it is in the blacklist.
Usable(s) == session[s] \notin {"unissued", "blacklisted"}

\* The row of p is locked by a request that has updated it and not committed.
Locked(p) == \E q \in Requests :
                /\ req[q].on = p /\ req[q].kind # "backChannel"
                /\ req[q].pc \in {"saved", "revoked"}

\* revoke_sessions reads every refresh token on record as the person's; one not
\* committed yet is not there to be read.
SessionsOf(p) == {s \in Requests : req[s].on = p /\ session[s] = "live"}

\* The revocations of p that are over, and those that have listed what to close.
Done(p)  == {q \in Requests : req[q].on = p /\ req[q].kind \in Revoking /\ req[q].pc = "done"}
Begun(p) == Done(p) \cup {q \in Requests : /\ req[q].on = p /\ req[q].kind \in Revoking
                                           /\ req[q].pc = "revoked"}

\* Everybody else who administers the company (refuse_if_it_leaves_no_admin).
OtherAdmins(p) == {x \in People \ {p} : Active(x) /\ person[x].role = "ADMIN"}

LeavesNoAdminOnLeaving(row, p, kind) ==
    /\ kind \in {"leave", "delete", "erase"}
    /\ row.role = "ADMIN" /\ row.active
    /\ OtherAdmins(p) = {}

LeavesNoAdmin(row, p, kind) ==
    /\ kind \in {"demote", "leave", "delete", "erase"}
    /\ row.role = "ADMIN" /\ row.active
    /\ OtherAdmins(p) = {}

-----------------------------------------------------------------------------

NewRowWithBlankPassword(role, secret) ==
    [state |-> "there", role |-> role, active |-> TRUE,
     secret |-> IF secret = Unset THEN "" ELSE secret, login |-> Unset]

NewRow(role, secret) ==
    [state |-> "there", role |-> role, active |-> TRUE, secret |-> secret, login |-> Unset]

NoRow == [NewRow("EMPLOYEE", Unset) EXCEPT !.state = "unborn"]

\* Signing up leaves a company, its administrator and their session.
Init ==
    /\ person = [p \in People |->
                    IF p = Founder THEN [NewRow("ADMIN", "given") EXCEPT !.login = SignUp]
                    ELSE NoRow]
    /\ session = [r \in Requests |-> IF r = SignUp THEN "live" ELSE "unissued"]
    /\ req = [r \in Requests |->
                 IF r = SignUp THEN [Idle EXCEPT !.pc = "done", !.kind = "person", !.on = Founder]
                 ELSE Idle]
    /\ knew = [r \in Requests |-> {}]
    /\ undercut = {}

Begin(r, kind, p) == [Idle EXCEPT !.pc = "read", !.kind = kind, !.on = p]

Read(r, begun) ==
    /\ req[r].pc = "new"
    /\ req' = [req EXCEPT ![r] = begun]
    /\ UNCHANGED <<person, session, knew, undercut>>

\* A finished request holds nothing it read.
Over(r) == [Begin(r, req[r].kind, req[r].on) EXCEPT !.pc = "done"]

\* The request answers with an error and its transaction leaves nothing, or the
\* process dies before committing.
Abort(r) ==
    /\ InFlight(r)
    /\ req' = [req EXCEPT ![r] = [Idle EXCEPT !.pc = "failed"]]
    /\ undercut' = undercut \ {r}
    /\ UNCHANGED <<person, session, knew>>

-----------------------------------------------------------------------------
(* Sessions *)

\* A person with their password or on their provider's word, or an application
\* for them: the credentials are good and the account is looked at once.
SignIn(r, p, kind) ==
    /\ Read(r, Begin(r, kind, p))
    /\ Active(p)

\* issue_tokens: a refresh token on record, and last_login unless an application
\* asks for the session; that UPDATE waits for whoever holds the row.
Issue(r) ==
    /\ req[r].pc = "read" /\ req[r].kind \in SignIns
    /\ There(req[r].on)
    /\ req[r].kind = "application" \/ ~Locked(req[r].on)
    /\ person' = IF req[r].kind = "application" THEN person
                 ELSE [person EXCEPT ![req[r].on].login = r]
    /\ session' = [session EXCEPT ![r] = "live"]
    /\ knew' = [knew EXCEPT ![r] = Begun(req[r].on)]
    /\ req' = [req EXCEPT ![r] = Over(r)]
    /\ UNCHANGED undercut

\* RefreshView accepts a token that is not blacklisted, of somebody active.
Renew(r, s) ==
    /\ Read(r, [Begin(r, "renew", req[s].on) EXCEPT !.via = s, !.seen = Done(req[s].on)])
    /\ Usable(s)
    /\ Active(req[s].on)

RotatedOffTheRecord(s, r) == [session EXCEPT ![s] = "blacklisted", ![r] = "unlisted"]

\* The used token goes to the blacklist, whoever put it there first, and the
\* new one on record as live: revoke_sessions finds it there.  An insertion in
\* the blacklist waits for one of the same token that has not committed.
Rotated(s, r) == [session EXCEPT ![s] = "blacklisted", ![r] = "live"]

Rotate(r) ==
    /\ req[r].pc = "read" /\ req[r].kind = "renew"
    /\ \A q \in Requests : req[q].pc = "revoked" => req[r].via \notin req[q].closing
    /\ session' = Rotated(req[r].via, r)
    /\ knew' = [knew EXCEPT ![r] = knew[req[r].via] \cup (Begun(req[r].on) \ req[r].seen)]
    /\ req' = [req EXCEPT ![r] = Over(r)]
    /\ UNCHANGED <<person, undercut>>

SignOut(s) ==
    /\ Usable(s) /\ Active(req[s].on)
    /\ session' = [session EXCEPT ![s] = "blacklisted"]
    /\ UNCHANGED <<person, req, knew, undercut>>

-----------------------------------------------------------------------------
(* Links and passwords *)

\* An invitation or a recovery: the link signs the password and the last
\* sign-in of the moment, and is kept nowhere.
SendLink(r, p) ==
    /\ req[r].pc = "new" /\ Active(p)
    /\ req' = [req EXCEPT ![r] = [Idle EXCEPT !.pc = "done", !.on = p, !.copy = person[p]]]
    /\ UNCHANGED <<person, session, knew, undercut>>

\* resolve_token: the account is active and neither has changed since.
LinkHolds(l) ==
    /\ req[l].kind = "link" /\ req[l].pc = "done"
    /\ Active(req[l].on)
    /\ person[req[l].on].secret = req[l].copy.secret
    /\ person[req[l].on].login = req[l].copy.login

FollowLink(r, l) == Read(r, Begin(r, "setByLink", req[l].on)) /\ LinkHolds(l)

\* Whoever is inside and writes the current password.
ChangePassword(r, p) ==
    /\ Active(p) /\ person[p].secret # Unset
    /\ Read(r, Begin(r, "changeOwn", p))

-----------------------------------------------------------------------------
(* Administration of people *)

\* An administrator from the screen, or an application with its credential.
\* Nobody deactivates or erases the account they are using.
MayEdit(by, p, kind) ==
    \/ by = App /\ kind \in AppEdits
    \/ by \in People /\ Active(by) /\ person[by].role = "ADMIN"
       /\ (kind \in {"leave", "delete", "erase"} => by # p)

\* Whoever left a record, of theirs or in what they decided, stays on file.
Erasable(p) == p \notin Trail

StartEdit(r, by, p, kind) ==
    /\ Read(r, [Begin(r, kind, p) EXCEPT !.copy = person[p]])
    /\ There(p) /\ MayEdit(by, p, kind)
    /\ kind = "leave" => person[p].active
    /\ kind = "return" => ~person[p].active
    /\ kind = "delete" /\ by = App => person[p].active
    /\ kind = "erase" => Erasable(p)
    /\ ~LeavesNoAdmin(person[p], p, kind)

\* A new account, without a password unless the administrator gives one; an
\* application gives none and appoints no administrator.
Create(by, p, role, secret) ==
    /\ person[p].state = "unborn"
    /\ \/ by = App /\ role = "EMPLOYEE" /\ secret = Unset
       \/ by \in People /\ Active(by) /\ person[by].role = "ADMIN"
    /\ person' = [person EXCEPT ![p] = NewRow(role, secret)]
    /\ UNCHANGED <<session, req, knew, undercut>>

-----------------------------------------------------------------------------
(* Writing: the row, then the sessions, then the commit *)

\* The first UPDATE takes the row.  With update_fields it needs the row to be
\* there; a whole copy is inserted again if it is not.  Leaving by the form
\* saves the copy first and then checks, again, who else administers.
Save(r) ==
    /\ req[r].pc = "read" /\ req[r].kind \in OwnSecret \cup Edits
    /\ ~Locked(req[r].on)
    /\ req[r].kind \in WholeRow \/ There(req[r].on)
    /\ req[r].kind = "leave" => ~LeavesNoAdmin(req[r].copy, req[r].on, "leave")
    /\ req' = [req EXCEPT ![r].pc = "saved"]
    /\ UNCHANGED <<person, session, knew, undercut>>

\* revoke_sessions lists what is on record now.
Revoke(r) ==
    /\ req[r].pc = "saved" /\ req[r].kind \in Revoking
    /\ req' = [req EXCEPT ![r].pc = "revoked", ![r].closing = SessionsOf(req[r].on)]
    /\ UNCHANGED <<person, session, knew, undercut>>

\* The provider ends the sessions of somebody: nothing of the row is written.
BackChannel(r, p) ==
    /\ req[r].pc = "new" /\ There(p)
    /\ req' = [req EXCEPT ![r] = [Begin(r, "backChannel", p) EXCEPT
                                      !.pc = "revoked", !.closing = SessionsOf(p)]]
    /\ UNCHANGED <<person, session, knew, undercut>>

Written(r) ==
    LET now == person[req[r].on]
        old == [req[r].copy EXCEPT !.state = "there"]
    IN  CASE req[r].kind \in OwnSecret -> [now EXCEPT !.secret = r, !.login = r]
          [] req[r].kind = "delete"    -> [now EXCEPT !.active = FALSE]
          [] req[r].kind = "erase"     -> [now EXCEPT !.state = "erased"]
          [] req[r].kind = "touch"     -> old
          [] req[r].kind = "promote"   -> [old EXCEPT !.role = "ADMIN"]
          [] req[r].kind = "demote"    -> [old EXCEPT !.role = "EMPLOYEE"]
          [] req[r].kind = "reset"     -> [old EXCEPT !.secret = r]
          [] req[r].kind = "return"    -> [old EXCEPT !.active = TRUE]
          [] req[r].kind = "leave"     -> [old EXCEPT !.active = FALSE]
          [] OTHER                     -> now

\* Setting one's own password answers with a new session, issued after the
\* others were closed.
Closed(r) ==
    [s \in Requests |->
        IF s = r /\ req[r].kind \in OwnSecret THEN "live"
        ELSE IF s \in req[r].closing THEN "blacklisted" ELSE session[s]]

\* What an edit reads before it is let through: of its own row, whether it is
\* there, its role and whether it is active; of the others, who administers.
Standing(row)    == <<row.state = "there", row.role, row.active>>
Administers(row) == row.state = "there" /\ row.active /\ row.role = "ADMIN"

\* The edits under way that have read something r is about to make untrue: their
\* own row, or an administrator who will not be one.
Undercuts(r) ==
    LET p == req[r].on IN
    {q \in Requests \ {r} :
        /\ Editing(q)
        /\ IF req[q].on = p
           THEN Standing(Written(r)) # Standing(person[p])
           ELSE Administers(person[p]) /\ ~Administers(Written(r))}

Commit(r) ==
    /\ req[r].pc = IF req[r].kind \in Revoking THEN "revoked" ELSE "saved"
    /\ person' = [person EXCEPT ![req[r].on] = Written(r)]
    /\ session' = Closed(r)
    /\ knew' = IF req[r].kind \in OwnSecret
               THEN [knew EXCEPT ![r] = Begun(req[r].on)] ELSE knew
    /\ req' = [req EXCEPT ![r] = Over(r)]
    /\ undercut' = (undercut \cup Undercuts(r)) \ {r}

-----------------------------------------------------------------------------

\* The requests that have not been made yet, and may begin.
Unused == {r \in Requests : req[r].pc = "new"}

Next ==
    \/ \E by \in People \cup {App}, p \in People, role \in Roles, secret \in {Unset, "given"} :
            Create(by, p, role, secret)
    \/ \E r \in Unused :
        \/ \E p \in People, kind \in SignIns : SignIn(r, p, kind)
        \/ \E s \in Requests : Renew(r, s)
        \/ \E p \in People : SendLink(r, p)
        \/ \E l \in Requests : FollowLink(r, l)
        \/ \E p \in People : ChangePassword(r, p)
        \/ \E by \in People \cup {App}, p \in People, kind \in Edits : StartEdit(r, by, p, kind)
        \/ \E p \in People : BackChannel(r, p)
    \/ \E r \in Requests :
        \/ Issue(r)
        \/ Rotate(r)
        \/ SignOut(r)
        \/ Save(r)
        \/ Revoke(r)
        \/ Commit(r)
        \/ Abort(r)

Spec == Init /\ [][Next]_vars

-----------------------------------------------------------------------------
(* Properties *)

\* The variables hold what the program can hold.
TypeOK ==
    /\ person \in [People -> Rows]
    /\ session \in [Requests -> {"unissued", "live", "blacklisted"}]
    /\ req \in [Requests -> [pc : {"new", "read", "saved", "revoked", "done", "failed"},
                             kind : Kinds, on : People \cup {Unset},
                             via : Requests \cup {Unset},
                             copy : Rows \cup {Unset},
                             closing : SUBSET Requests, seen : SUBSET Requests]]
    /\ knew \in [Requests -> SUBSET Requests]
    /\ undercut \subseteq Requests

\* A new password, a leaving or a provider's word ends every session of the
\* person (revoke_sessions): one that lives on rests, however many times it was
\* renewed, on a sign-in or a renewal that was under way while they were listed.
SessionsEndWhenRevoked ==
    \A s \in Requests : Usable(s) => Done(req[s].on) \subseteq knew[s]

SomebodyAdministers == \E p \in People : Administers(person[p])

\* The company loses its last active administrator only by an edit that another
\* undercut: while it was under way, its own row or an administrator it had seen
\* stopped being so (refuse_if_it_leaves_no_admin looks without locking).  No
\* edit whose readings still hold, of whatever kind, by whom and through
\* whichever door, leaves nobody; nor does anything else.
OnlyUndercutEditsLeaveNobody ==
    [][SomebodyAdministers =>
          SomebodyAdministers' \/ \E r \in undercut : Commit(r)]_vars

=============================================================================
