--------------------------- MODULE Installation ---------------------------
(* The console of the installation and the doors it keeps: the accounts that  *)
(* administer it, the company they switch on and off, its applications and    *)
(* their credentials, the entries as support, and the addresses all of them   *)
(* share with the company's people (apps/tenants/platform_views.py,           *)
(* applications.py, application_views.py, apps/users/direcciones.py).         *)
(*                                                                            *)
(* A request is one transaction at READ COMMITTED without row locks: it       *)
(* decides on what it reads and writes at the end, so a hand holds one        *)
(* request between the two, and as many overlap as there are hands.           *)
EXTENDS Naturals, FiniteSets

CONSTANTS
    Accounts,        \* installation accounts, there or still to come
    Founder,         \* the one created in the container
    People,          \* the people of one company
    Addresses,
    FounderAddress,
    Credentials,     \* the credentials its application may be given
    Entries,         \* entries as support
    Hands,           \* how many requests may be under way at once
    SupportLife,     \* SUPPORT_SESSION
    AccessLife,      \* how long an access token lives
    Nothing

\* The rows, and what stands for one that is not there.
AccountRow == [address : Addresses, active : BOOLEAN]
PersonRow  == [address : Addresses, active : BOOLEAN]
AppRow    == [active : BOOLEAN]
EntryRow  == [by : Accounts, age : 0..SupportLife, refresh : 0..SupportLife,
              access : 0..AccessLife, open : BOOLEAN]

FounderAssumption == Founder \in Accounts /\ FounderAddress \in Addresses
LivesAssumption ==
    SupportLife \in Nat /\ AccessLife \in Nat /\ AccessLife \in 1..SupportLife
NothingAssumption ==
    Nothing \notin Accounts \cup People \cup Addresses \cup Credentials
                      \cup AccountRow \cup PersonRow \cup AppRow \cup EntryRow

VARIABLES
    account,   \* the installation accounts: users without a company
    person,    \* the company's people
    company,   \* the company: not signed up yet, active or deactivated
    app,       \* its application
    cred,      \* the credentials of the application
    struck,    \* history: the credentials a withdrawal found and closed
    hand,      \* what each request under way is about to write
    overtaken, \* history: those of them that another made decide on what is no longer so
    entry,     \* the sessions of those who entered as support
    renewing,  \* the support sessions being renewed
    idle       \* history: how long each account has been inactive

vars == <<account, person, company, app, cred, struck, hand, overtaken, entry, renewing, idle>>
console == <<account, person, company, app, cred, struck, hand, overtaken>>

-----------------------------------------------------------------------------
(* Rows and addresses *)

There(row) == row # Nothing
ActiveAccount(a) == There(account[a]) /\ account[a].active
ActivePerson(p) == There(person[p]) /\ person[p].active

\* correo_ocupado(de_la_instalacion=True): any other account of the installation,
\* active or not, or an active person.
TakenForAnAccount(address, except) ==
    \/ \E b \in Accounts \ {except} : There(account[b]) /\ account[b].address = address
    \/ \E p \in People : ActivePerson(p) /\ person[p].address = address

\* correo_ocupado(de_la_instalacion=False): an active account of the installation.
TakenForAPerson(address) ==
    \E a \in Accounts : ActiveAccount(a) /\ account[a].address = address

\* unique_email_without_company, unique_email_per_company
FreeAmongAccounts(address, a) ==
    \A b \in Accounts \ {a} : There(account[b]) => account[b].address # address
FreeAmongPeople(address, p) ==
    \A q \in People \ {p} : There(person[q]) => person[q].address # address

OtherActiveAccounts(a) == {b \in Accounts \ {a} : ActiveAccount(b)}

-----------------------------------------------------------------------------
(* What the application may do *)

\* ApplicationCredential.is_valid
IsValid(c) == cred[c] = "live" /\ There(app) /\ app.active

\* ApplicationAuthentication.authenticate
Serves(c) == IsValid(c) /\ company = "active"

-----------------------------------------------------------------------------
(* A request reads, decides and, unless something refuses it, is left with    *)
(* what it will write.                                                        *)

Idle == [kind |-> "none", on |-> Nothing, row |-> Nothing]

Request(kind, on, row) == [kind |-> kind, on |-> on, row |-> row]

Init ==
    /\ account = [a \in Accounts |->
                    IF a = Founder THEN [address |-> FounderAddress, active |-> TRUE] ELSE Nothing]
    /\ person = [p \in People |-> Nothing]
    /\ company = "unborn"
    /\ app = Nothing
    /\ cred = [c \in Credentials |-> "unissued"]
    /\ struck = {}
    /\ hand = [h \in Hands |-> Idle]
    /\ overtaken = {}
    /\ entry = [e \in Entries |-> Nothing]
    /\ renewing = {}
    /\ idle = [a \in Accounts |-> 0]

Take(h, request) ==
    /\ hand[h] = Idle
    /\ hand' = [hand EXCEPT ![h] = request]
    /\ UNCHANGED <<account, person, company, app, cred, struck, overtaken, entry, renewing, idle>>

-----------------------------------------------------------------------------
(* The accounts of the installation *)

CreateAccount(h, by, a, address) ==
    /\ ActiveAccount(by) /\ ~There(account[a])
    /\ ~TakenForAnAccount(address, Nothing)
    /\ Take(h, Request("account", a, [address |-> address, active |-> TRUE]))

\* A new password also brings the account back; never one's own.
ResetPassword(h, by, a) ==
    /\ ActiveAccount(by) /\ There(account[a]) /\ a # by
    /\ account[a].active \/ ~TakenForAnAccount(account[a].address, a)
    /\ Take(h, Request("password", a, Nothing))

\* MUTANT: only a change of address looks at who has it.
TouchesTheAddressByName(a, address, back) == address # account[a].address

\* A change of address, or coming back: who has it has to be looked at.
TouchesTheAddress(a, address, back) == address # account[a].address \/ back

\* save() writes the whole row it read, the changed fields on top.
ChangeAccount(h, by, a, address, wantsActive) ==
    /\ ActiveAccount(by) /\ There(account[a])
    /\ LET back == wantsActive /\ ~account[a].active IN
        /\ TouchesTheAddress(a, address, back) => ~TakenForAnAccount(address, a)
        /\ address # account[a].address \/ back
        /\ Take(h, Request("account", a,
                           [address |-> address, active |-> account[a].active \/ back]))

LeavesSomebody(a) == OtherActiveAccounts(a) # {}

DeactivateAccount(h, by, a) ==
    /\ ActiveAccount(by) /\ There(account[a])
    /\ by # a
    /\ LeavesSomebody(a)
    /\ Take(h, Request("deactivate", a, Nothing))

-----------------------------------------------------------------------------
(* The company, its people and the doors by which an address comes in *)

\* Signing up, from the street or from the console: the company and who will
\* administer it.
SignUp(h, by, p, address) ==
    /\ company = "unborn" /\ (by # Nothing => ActiveAccount(by))
    /\ ~TakenForAPerson(address)
    /\ Take(h, Request("signup", p, [address |-> address, active |-> TRUE]))

\* Somebody new, another address, or back from leaving.
Touches(p, address, active) ==
    ~There(person[p]) \/ person[p].address # address \/ (active /\ ~person[p].active)

\* MUTANT: only somebody new is looked at.
LookedAtIfNew(p, address, active) == ~There(person[p])

\* The administration's form looks when the person will be active.
LookedAt(p, address, active) == active /\ Touches(p, address, active)

WritePerson(h, p, address, active) ==
    /\ company = "active"
    /\ LookedAt(p, address, active) => ~TakenForAPerson(address)
    /\ ActivePerson(p) => active
    /\ FreeAmongPeople(address, p)
    /\ Take(h, Request("person", p, [address |-> address, active |-> active]))

\* An application with write:people looks even at somebody it leaves inactive.
PushPerson(h, c, p, address, active) ==
    /\ Serves(c)
    /\ Touches(p, address, active) => ~TakenForAPerson(address)
    /\ ActivePerson(p) => active
    /\ FreeAmongPeople(address, p)
    /\ Take(h, Request("person", p, [address |-> address, active |-> active]))

\* resolve_person: nobody of the company has the subject or the address, and the
\* provider creates them; nothing asks whose address it is.
ProvisionPerson(h, p, address) ==
    /\ company = "active" /\ ~There(person[p])
    /\ FreeAmongPeople(address, p)
    /\ Take(h, Request("provision", p, [address |-> address, active |-> TRUE]))

PersonLeaves(h, p) ==
    /\ company = "active" /\ ActivePerson(p)
    /\ \E q \in People \ {p} : ActivePerson(q)
    /\ Take(h, Request("leave", p, Nothing))

\* Switching the company off or on, or a change of its details: the whole row.
ChangeCompany(h, by, wanted) ==
    /\ ActiveAccount(by) /\ company # "unborn"
    /\ Take(h, Request("company", Nothing, [active |-> wanted]))

-----------------------------------------------------------------------------
(* The company's application, from its administrator's screen (by Nothing) or  *)
(* from the console                                                            *)

MayHandle(by) == company # "unborn" /\ IF by = Nothing THEN company = "active" ELSE ActiveAccount(by)

\* A credential is a new row: no other request is issuing it.
Fresh(c) ==
    /\ cred[c] = "unissued"
    /\ \A h \in Hands : hand[h].kind \in {"authorise", "issue"} => hand[h].on # c

\* From the console it comes with its first credential; from the screen, without.
Authorise(h, by, c) ==
    /\ MayHandle(by) /\ ~There(app)
    /\ (c = Nothing) = (by = Nothing)
    /\ c # Nothing => Fresh(c)
    /\ Take(h, Request("authorise", c, [active |-> TRUE]))

\* The console saves scopes and is_active, the screen the whole row: either way
\* is_active goes along, asked for or not.
ChangeApplication(h, by, wanted) ==
    /\ MayHandle(by) /\ There(app)
    /\ Take(h, Request("application", Nothing, [active |-> wanted]))

Withdraw(h, by) ==
    /\ MayHandle(by) /\ There(app)
    /\ Take(h, Request("withdraw", Nothing, Nothing))

IssueCredential(h, by, c) ==
    /\ MayHandle(by) /\ There(app) /\ app.active
    /\ Fresh(c)
    /\ Take(h, Request("issue", c, Nothing))

RevokeCredential(h, by, c) ==
    /\ MayHandle(by) /\ cred[c] \in {"live", "expired"}
    /\ Take(h, Request("revoke", c, Nothing))

Expire(c) ==
    /\ cred[c] = "live"
    /\ cred' = [cred EXCEPT ![c] = "expired"]
    /\ UNCHANGED <<account, person, company, app, struck, hand, overtaken, entry, renewing, idle>>

-----------------------------------------------------------------------------
(* Writing, and the answer *)

\* MUTANT: withdrawing only switches the application off.
SwitchedOff(c) == cred[c]

\* Withdrawing revokes whatever had not been revoked.
Closed(c) == IF cred[c] \in {"live", "expired"} THEN "revoked" ELSE cred[c]

AccountOf(e) ==
    CASE e.kind = "account"    -> e.row
      [] e.kind = "password"   -> [account[e.on] EXCEPT !.active = TRUE]
      [] e.kind = "deactivate" -> [account[e.on] EXCEPT !.active = FALSE]

\* The requests that give a person of the company a row.
Joining == {"signup", "person", "provision"}

\* What a request is about to use, on each side of the rule of the addresses.
ForAnAccount(r) == IF r.kind \in {"account", "password"} THEN {AccountOf(r).address} ELSE {}
ForAPerson(r)   == IF r.kind \in Joining THEN {r.row.address} ELSE {}

SameRow(r, q) ==
    /\ r.on = q.on
    /\ \/ {r.kind, q.kind} \subseteq {"account", "password", "deactivate"}
       \/ {r.kind, q.kind} \subseteq Joining \cup {"leave"}

\* The requests under way that h overtakes when it writes: it changes the row
\* they are about, or takes on one side the address they are about to use on the
\* other.
Overtakes(h) ==
    {g \in Hands \ {h} :
        \/ SameRow(hand[h], hand[g])
        \/ ForAnAccount(hand[h]) \cap ForAPerson(hand[g]) # {}
        \/ ForAPerson(hand[h]) \cap ForAnAccount(hand[g]) # {}}

WriteAccount(h) ==
    LET e == hand[h] IN
    /\ e.kind \in {"account", "password", "deactivate"}
    /\ FreeAmongAccounts(AccountOf(e).address, e.on)
    /\ account' = [account EXCEPT ![e.on] = AccountOf(e)]
    /\ idle' = [idle EXCEPT ![e.on] = IF AccountOf(e).active THEN 0 ELSE @]
    /\ UNCHANGED <<person, company, app, cred, struck, entry, renewing>>

WriteCompany(h) ==
    LET e == hand[h] IN
    /\ e.kind \in Joining \cup {"leave", "company"}
    /\ e.kind = "signup" => company = "unborn"
    /\ e.kind \in Joining => FreeAmongPeople(e.row.address, e.on)
    /\ person' = CASE e.kind \in Joining   -> [person EXCEPT ![e.on] = e.row]
                   [] e.kind = "leave"   -> [person EXCEPT ![e.on].active = FALSE]
                   [] e.kind = "company" -> person
    /\ company' = CASE e.kind = "signup"  -> "active"
                    [] e.kind = "company" -> IF e.row.active THEN "active" ELSE "off"
                    [] OTHER              -> company
    /\ UNCHANGED <<account, app, cred, struck, entry, renewing, idle>>

WriteApplication(h) ==
    LET e == hand[h] IN
    /\ e.kind \in {"authorise", "application", "withdraw", "issue", "revoke"}
    /\ app' = CASE e.kind \in {"authorise", "application"} -> e.row
                [] e.kind = "withdraw"                     -> [active |-> FALSE]
                [] OTHER                                   -> app
    /\ cred' = [c \in Credentials |->
                  CASE e.kind = "withdraw"                                   -> Closed(c)
                    [] e.kind \in {"authorise", "issue"} /\ e.on = c         -> "live"
                    [] e.kind = "revoke" /\ e.on = c                         -> "revoked"
                    [] OTHER                                                 -> cred[c]]
    /\ struck' = IF e.kind = "withdraw"
                 THEN struck \cup {c \in Credentials : cred[c] # "unissued"} ELSE struck
    /\ UNCHANGED <<account, person, company, entry, renewing, idle>>

\* A statement runs against what is there then: nobody signs a company up twice,
\* a constraint refuses an address somebody took meanwhile.
Write(h) ==
    /\ hand' = [hand EXCEPT ![h] = Idle]
    /\ overtaken' = (overtaken \cup Overtakes(h)) \ {h}
    /\ WriteAccount(h) \/ WriteCompany(h) \/ WriteApplication(h)

\* A constraint, an error or the end of the process: nothing is written.
Abort(h) ==
    /\ hand[h] # Idle
    /\ hand' = [hand EXCEPT ![h] = Idle]
    /\ overtaken' = overtaken \ {h}
    /\ UNCHANGED <<account, person, company, app, cred, struck, entry, renewing, idle>>

-----------------------------------------------------------------------------
(* Entering as support *)

Least(m, n) == IF m < n THEN m ELSE n

\* The company's support account gets a session of its own, short, that carries
\* who is behind it.
EnterAsSupport(e, by) ==
    /\ entry[e] = Nothing /\ ActiveAccount(by) /\ company = "active"
    /\ entry' = [entry EXCEPT ![e] = [by |-> by, age |-> 0, refresh |-> SupportLife,
                                      access |-> Least(AccessLife, SupportLife), open |-> TRUE]]
    /\ UNCHANGED <<console, renewing, idle>>

\* MUTANT: renewing looks at the support account alone.
AnybodyBehind(e) == TRUE

\* _support_session_still_valid
SomebodyBehind(e) == ActiveAccount(entry[e].by)

\* RefreshView: the token not expired and not in the blacklist, the company
\* active, and whoever entered active still.
AskToRenew(e) ==
    /\ There(entry[e]) /\ e \notin renewing
    /\ entry[e].open /\ entry[e].refresh > 0
    /\ company = "active"
    /\ SomebodyBehind(e)
    /\ renewing' = renewing \cup {e}
    /\ UNCHANGED <<console, entry, idle>>

\* MUTANT: a renewed refresh token starts to count again.
RefreshAfresh(e) == SupportLife

\* A support session keeps its end.
RefreshLeft(e) == entry[e].refresh

\* The new access token does not outlive the entry, and the used refresh token
\* gives way to another with the same end.
Renew(e) ==
    /\ e \in renewing
    /\ renewing' = renewing \ {e}
    /\ entry' = [entry EXCEPT ![e].refresh = RefreshLeft(e),
                              ![e].access = Least(AccessLife, RefreshLeft(e)),
                              ![e].open = TRUE]
    /\ UNCHANGED <<console, idle>>

SignOut(e) ==
    /\ There(entry[e]) /\ entry[e].open /\ entry[e].refresh > 0
    /\ entry' = [entry EXCEPT ![e].open = FALSE]
    /\ UNCHANGED <<console, renewing, idle>>

\* An entry that is over leaves its place to the next.
Forget(e) ==
    /\ There(entry[e]) /\ entry[e].refresh = 0 /\ entry[e].access = 0 /\ e \notin renewing
    /\ entry' = [entry EXCEPT ![e] = Nothing]
    /\ UNCHANGED <<console, renewing, idle>>

Down(n) == IF n = 0 THEN 0 ELSE n - 1

\* Time goes by, but not while a session is being renewed: that takes a moment.
Tick ==
    /\ renewing = {}
    /\ entry' = [e \in Entries |->
                   IF entry[e] = Nothing THEN Nothing
                   ELSE [entry[e] EXCEPT !.age = Least(@ + 1, SupportLife),
                                         !.refresh = Down(@), !.access = Down(@)]]
    /\ idle' = [a \in Accounts |-> IF There(account[a]) /\ ~account[a].active
                                   THEN Least(idle[a] + 1, AccessLife) ELSE 0]
    /\ \E e \in Entries : There(entry[e])
    /\ UNCHANGED <<console, renewing>>

-----------------------------------------------------------------------------

ConsoleStep(h) ==
    \E by \in Accounts :
        \/ \E a \in Accounts :
             \/ \E address \in Addresses :
                  \/ CreateAccount(h, by, a, address)
                  \/ \E wants \in BOOLEAN : ChangeAccount(h, by, a, address, wants)
             \/ ResetPassword(h, by, a)
             \/ DeactivateAccount(h, by, a)
        \/ \E wanted \in BOOLEAN : ChangeCompany(h, by, wanted)

PeopleStep(h) ==
    \E p \in People :
        \/ \E address \in Addresses :
             \/ \E by \in Accounts \cup {Nothing} : SignUp(h, by, p, address)
             \/ \E active \in BOOLEAN :
                  \/ WritePerson(h, p, address, active)
                  \/ \E c \in Credentials : PushPerson(h, c, p, address, active)
             \/ ProvisionPerson(h, p, address)
        \/ PersonLeaves(h, p)

ApplicationStep(h) ==
    \E by \in Accounts \cup {Nothing} :
        \/ \E c \in Credentials \cup {Nothing} : Authorise(h, by, c)
        \/ \E wanted \in BOOLEAN : ChangeApplication(h, by, wanted)
        \/ Withdraw(h, by)
        \/ \E c \in Credentials : IssueCredential(h, by, c) \/ RevokeCredential(h, by, c)

SupportStep(e) ==
    \/ \E by \in Accounts : EnterAsSupport(e, by)
    \/ AskToRenew(e) \/ Renew(e) \/ SignOut(e) \/ Forget(e)

Next ==
    \/ \E h \in Hands :
         ConsoleStep(h) \/ PeopleStep(h) \/ ApplicationStep(h) \/ Write(h) \/ Abort(h)
    \/ \E c \in Credentials : Expire(c)
    \/ \E e \in Entries : SupportStep(e)
    \/ Tick

Spec == Init /\ [][Next]_vars

-----------------------------------------------------------------------------

TypeOK ==
    /\ account \in [Accounts -> AccountRow \cup {Nothing}]
    /\ person \in [People -> PersonRow \cup {Nothing}]
    /\ company \in {"unborn", "active", "off"}
    /\ app \in AppRow \cup {Nothing}
    /\ cred \in [Credentials -> {"unissued", "live", "expired", "revoked"}]
    /\ struck \in SUBSET Credentials /\ renewing \in SUBSET Entries
    /\ overtaken \in SUBSET Hands
    /\ entry \in [Entries -> EntryRow \cup {Nothing}]
    /\ idle \in [Accounts -> 0..AccessLife]

AddressesMeet(a, p) ==
    ActiveAccount(a) /\ ActivePerson(p) /\ account[a].address = person[p].address

\* An installation account and a person of the company are never active with the
\* same address, whichever door it came in by: the account has no tax number to
\* tell the sign-in screen which of the two it is (direcciones.py:5-8).
AddressesDoNotMeet == \A a \in Accounts, p \in People : ~AddressesMeet(a, p)

\* Every door that puts an address in by hand, or brings a row back, keeps that
\* rule by looking at the other side first (correo_ocupado): two active rows come
\* to share an address only when the sign-in provider creates the person, or when
\* another request overtook the one that writes, changing its row or using its
\* address on the other side after it had looked.
MeetOnlyIfProvisionedOrOvertaken ==
    [][\A a \in Accounts, p \in People :
          AddressesMeet(a, p)' /\ ~AddressesMeet(a, p) =>
              \E h \in Hands :
                  Write(h) /\ (h \in overtaken \/ hand[h].kind = "provision")]_vars

\* There is always somebody to administer the installation, so that nobody has
\* to open a shell (platform_views.py:1417-1424).
SomebodyRunsTheInstallation == \E a \in Accounts : ActiveAccount(a)

\* An entry as support ends when it was said it would: no renewal, however many,
\* leaves an access or a refresh token beyond that instant.
SupportEndsOnTime ==
    \A e \in Entries :
        There(entry[e]) => /\ entry[e].age + entry[e].access <= SupportLife
                           /\ entry[e].age + entry[e].refresh <= SupportLife

\* Whoever entered as support stops being able to work there, at the latest one
\* access token after their own account is deactivated, whatever renewal was
\* under way at that moment.
SupportFollowsItsAccount ==
    \A e \in Entries :
        (There(entry[e]) /\ entry[e].access > 0 /\ ~ActiveAccount(entry[e].by))
            => idle[entry[e].by] + entry[e].access <= AccessLife

\* What an application had when it was withdrawn never serves again, even if the
\* application is brought back.
WithdrawnStaysOut == \A c \in struck : ~Serves(c)
=============================================================================
