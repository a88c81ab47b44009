------------------------- MODULE InstallationProofs -------------------------
(***************************************************************************)
(* Proofs about the console of the installation, for any accounts, people, *)
(* credentials and entries.                                                *)
(*                                                                         *)
(* Support: a session can be renewed only while its account is active, and *)
(* time waits for a renewal under way, so an account that has been         *)
(* inactive for a while has no renewal left and its access tokens run out  *)
(* as its idleness grows.                                                  *)
(* Credentials: what a withdrawal found it revoked, and a request only     *)
(* brings to life a row nobody else has.                                   *)
(* Addresses: what a request read still holds when it writes unless        *)
(* another overtook it, so a write that no other overtook makes nobody     *)
(* meet, however many are under way.                                       *)
(***************************************************************************)
EXTENDS Installation, TLAPS

InstallationAssumption == FounderAssumption /\ LivesAssumption /\ NothingAssumption

\* What a request may be left with.
Shaped(r) ==
    /\ r.kind = "account" => r.on \in Accounts /\ r.row \in AccountRow
    /\ r.kind \in {"password", "deactivate"} => r.on \in Accounts /\ There(account[r.on])
    /\ r.kind \in Joining => r.on \in People /\ r.row \in PersonRow
    /\ r.kind = "leave" => r.on \in People /\ There(person[r.on])
    /\ r.kind \in {"authorise", "application"} => r.row \in AppRow
    /\ r.kind = "revoke" => r.on \in Credentials /\ cred[r.on] # "unissued"

\* A request that gives a credential has it to itself.
Gives(r) == r.kind \in {"authorise", "issue"} /\ r.on # Nothing
FreshFor(h, r) ==
    Gives(r) => /\ r.on \in Credentials /\ cred[r.on] = "unissued"
                /\ \A g \in Hands \ {h} : Gives(hand[g]) => hand[g].on # r.on

HandsShaped == DOMAIN hand = Hands /\ \A h \in Hands : Shaped(hand[h]) /\ FreshFor(h, hand[h])

RenewingThere == \A e \in renewing : There(entry[e])

ConsoleInv == TypeOK /\ HandsShaped /\ RenewingThere

\* An active account has not been idle, nor has one whose entry is being renewed.
ActiveIsNotIdle == \A a \in Accounts : ActiveAccount(a) => idle[a] = 0
RenewersWereActive == \A e \in renewing : idle[entry[e].by] = 0

SupportInv ==
    ConsoleInv /\ ActiveIsNotIdle /\ RenewersWereActive /\ SupportEndsOnTime /\ SupportFollowsItsAccount

StruckAreRevoked == \A c \in struck : cred[c] = "revoked"

\* What a request read to keep the rule of the addresses still holds: nobody
\* active has on the other side the address it is about to write, or the row it
\* writes had it already.
Decent(r) ==
    /\ r.kind = "account" /\ r.row.active =>
          \A p \in People : ActivePerson(p) => person[p].address # r.row.address
    /\ r.kind = "password" =>
          \/ ActiveAccount(r.on)
          \/ \A p \in People : ActivePerson(p) => person[p].address # account[r.on].address
    /\ r.kind \in {"signup", "person"} /\ r.row.active =>
          \/ ActivePerson(r.on) /\ person[r.on].address = r.row.address
          \/ \A a \in Accounts : ActiveAccount(a) => account[a].address # r.row.address

AddressInv == ConsoleInv /\ \A h \in Hands \ overtaken : Decent(hand[h])

-----------------------------------------------------------------------------
(* Constants, and what a request is left with                              *)

LEMMA Constants ==
  ASSUME InstallationAssumption
  PROVE  /\ Founder \in Accounts /\ FounderAddress \in Addresses
         /\ SupportLife \in Nat /\ AccessLife \in Nat /\ AccessLife >= 1 /\ AccessLife <= SupportLife
         /\ Nothing \notin Accounts /\ Nothing \notin People /\ Nothing \notin Credentials
         /\ Nothing \notin AccountRow /\ Nothing \notin PersonRow
         /\ Nothing \notin AppRow /\ Nothing \notin EntryRow
  BY DEF InstallationAssumption, FounderAssumption, LivesAssumption, NothingAssumption

LEMMA IdleShaped == Shaped(Idle) /\ ~Gives(Idle) /\ Decent(Idle)
  BY DEF Shaped, Gives, Decent, Idle, Joining

LEMMA InitConsole == ASSUME InstallationAssumption, Init PROVE ConsoleInv
<1> USE Constants DEF Init
<1>1. [address |-> FounderAddress, active |-> TRUE] \in AccountRow
  BY DEF AccountRow
<1>2. TypeOK
  BY <1>1 DEF TypeOK
<1>3. HandsShaped
  BY IdleShaped DEF HandsShaped, FreshFor
<1> QED
  BY <1>2, <1>3 DEF ConsoleInv, RenewingThere

\* Every request reads before it is left with something that can be written.
TakesShaped(h) == \E r : Take(h, r) /\ Shaped(r) /\ FreshFor(h, r)

LEMMA RequestFields ==
  ASSUME NEW kind, NEW on, NEW row
  PROVE  /\ Request(kind, on, row).kind = kind /\ Request(kind, on, row).on = on
         /\ Request(kind, on, row).row = row
  BY DEF Request

LEMMA ConsoleTakes ==
  ASSUME InstallationAssumption, ConsoleInv, NEW h \in Hands, ConsoleStep(h)
  PROVE  TakesShaped(h)
<1> USE RequestFields DEF ConsoleInv
<1>1. ASSUME NEW by \in Accounts, NEW a \in Accounts, NEW address \in Addresses,
             CreateAccount(h, by, a, address)
      PROVE  TakesShaped(h)
  <2>1. [address |-> address, active |-> TRUE] \in AccountRow
    BY DEF AccountRow
  <2> QED
    BY <1>1, <2>1 DEF CreateAccount, TakesShaped, Shaped, FreshFor, Gives, Joining
<1>2. ASSUME NEW by \in Accounts, NEW a \in Accounts, NEW address \in Addresses,
             NEW wants \in BOOLEAN, ChangeAccount(h, by, a, address, wants)
      PROVE  TakesShaped(h)
  <2> DEFINE back == wants /\ ~account[a].active
             row == [address |-> address, active |-> account[a].active \/ back]
  <2>1. There(account[a]) /\ Take(h, Request("account", a, row))
    BY <1>2 DEF ChangeAccount
  <2>2. account[a].active \in BOOLEAN
    BY <2>1 DEF TypeOK, AccountRow, There
  <2>3. row \in AccountRow
    BY <2>2 DEF AccountRow
  <2> HIDE DEF row
  <2> QED
    BY <2>1, <2>3 DEF TakesShaped, Shaped, FreshFor, Gives, Joining
<1>3. ASSUME NEW by \in Accounts, NEW a \in Accounts, ResetPassword(h, by, a)
      PROVE  TakesShaped(h)
  BY <1>3 DEF ResetPassword, TakesShaped, Shaped, FreshFor, Gives, Joining
<1>4. ASSUME NEW by \in Accounts, NEW a \in Accounts, DeactivateAccount(h, by, a)
      PROVE  TakesShaped(h)
  BY <1>4 DEF DeactivateAccount, TakesShaped, Shaped, FreshFor, Gives, Joining
<1>5. ASSUME NEW by \in Accounts, NEW wanted \in BOOLEAN, ChangeCompany(h, by, wanted)
      PROVE  TakesShaped(h)
  BY <1>5 DEF ChangeCompany, TakesShaped, Shaped, FreshFor, Gives, Joining
<1> QED
  BY <1>1, <1>2, <1>3, <1>4, <1>5 DEF ConsoleStep

LEMMA PeopleTake ==
  ASSUME InstallationAssumption, ConsoleInv, NEW h \in Hands, PeopleStep(h)
  PROVE  TakesShaped(h)
<1> USE RequestFields DEF ConsoleInv
<1>1. \A address \in Addresses, active \in BOOLEAN : [address |-> address, active |-> active] \in PersonRow
  BY DEF PersonRow
<1>2. ASSUME NEW p \in People, NEW address \in Addresses, NEW active \in BOOLEAN, NEW kind \in Joining,
             Take(h, Request(kind, p, [address |-> address, active |-> active]))
      PROVE  TakesShaped(h)
  BY <1>1, <1>2 DEF TakesShaped, Shaped, FreshFor, Gives, Joining
<1>3. ASSUME NEW p \in People, NEW address \in Addresses, NEW by \in Accounts \cup {Nothing},
             SignUp(h, by, p, address)
      PROVE  TakesShaped(h)
  BY <1>2, <1>3 DEF SignUp, Joining
<1>4. ASSUME NEW p \in People, NEW address \in Addresses, NEW active \in BOOLEAN,
             WritePerson(h, p, address, active) \/ \E c \in Credentials : PushPerson(h, c, p, address, active)
      PROVE  TakesShaped(h)
  BY <1>2, <1>4 DEF WritePerson, PushPerson, Joining
<1>5. ASSUME NEW p \in People, NEW address \in Addresses, ProvisionPerson(h, p, address)
      PROVE  TakesShaped(h)
  BY <1>2, <1>5 DEF ProvisionPerson, Joining
<1>6. ASSUME NEW p \in People, PersonLeaves(h, p) PROVE TakesShaped(h)
  BY <1>6 DEF PersonLeaves, ActivePerson, TakesShaped, Shaped, FreshFor, Gives, Joining
<1> QED
  BY <1>3, <1>4, <1>5, <1>6 DEF PeopleStep

LEMMA ApplicationTakes ==
  ASSUME InstallationAssumption, ConsoleInv, NEW h \in Hands, ApplicationStep(h)
  PROVE  TakesShaped(h)
<1> USE RequestFields
<1>1. ASSUME NEW by \in Accounts \cup {Nothing}, NEW c \in Credentials \cup {Nothing},
             Authorise(h, by, c)
      PROVE  TakesShaped(h)
  <2>1. [active |-> TRUE] \in AppRow
    BY DEF AppRow
  <2> QED
    BY <1>1, <2>1 DEF Authorise, TakesShaped, Shaped, FreshFor, Gives, Joining, Fresh
<1>2. ASSUME NEW by \in Accounts \cup {Nothing}, NEW wanted \in BOOLEAN,
             ChangeApplication(h, by, wanted)
      PROVE  TakesShaped(h)
  <2>1. [active |-> wanted] \in AppRow
    BY DEF AppRow
  <2> QED
    BY <1>2, <2>1 DEF ChangeApplication, TakesShaped, Shaped, FreshFor, Gives, Joining
<1>3. ASSUME NEW by \in Accounts \cup {Nothing}, Withdraw(h, by) PROVE TakesShaped(h)
  BY <1>3 DEF Withdraw, TakesShaped, Shaped, FreshFor, Gives, Joining
<1>4. ASSUME NEW by \in Accounts \cup {Nothing}, NEW c \in Credentials,
             IssueCredential(h, by, c) \/ RevokeCredential(h, by, c)
      PROVE  TakesShaped(h)
  BY <1>4 DEF IssueCredential, RevokeCredential, TakesShaped, Shaped, FreshFor, Gives, Joining, Fresh
<1> QED
  BY <1>1, <1>2, <1>3, <1>4 DEF ApplicationStep

-----------------------------------------------------------------------------
(* Types                                                                   *)

\* A hand that takes a request or lets it go, and nothing written.
LEMMA HandMoves ==
  ASSUME ConsoleInv, NEW h \in Hands, NEW r, hand' = [hand EXCEPT ![h] = r],
         Shaped(r), FreshFor(h, r), overtaken' \subseteq overtaken,
         UNCHANGED <<account, person, company, app, cred, struck, entry, renewing, idle>>
  PROVE  ConsoleInv'
<1>1. DOMAIN hand' = Hands /\ hand'[h] = r /\ \A g \in Hands \ {h} : hand'[g] = hand[g]
  BY DEF ConsoleInv, HandsShaped
<1>2. TypeOK' /\ RenewingThere'
  BY DEF ConsoleInv, TypeOK, RenewingThere
<1>3. HandsShaped'
  <2> SUFFICES ASSUME NEW g \in Hands PROVE Shaped(hand[g])' /\ FreshFor(g, hand[g])'
    BY <1>1 DEF HandsShaped
  <2>1. CASE g = h
    BY <1>1, <2>1 DEF Shaped, FreshFor, Gives
  <2>2. CASE g # h
    BY <1>1, <2>2 DEF Shaped, FreshFor, Gives, ConsoleInv, HandsShaped
  <2> QED
    BY <2>1, <2>2
<1> QED
  BY <1>2, <1>3 DEF ConsoleInv

\* What a hand that writes finds in its request.
LEMMA Writer ==
  ASSUME ConsoleInv, NEW h \in Hands, Write(h)
  PROVE  /\ Shaped(hand[h]) /\ FreshFor(h, hand[h])
         /\ DOMAIN hand' = Hands /\ hand'[h] = Idle /\ \A g \in Hands \ {h} : hand'[g] = hand[g]
  BY DEF ConsoleInv, HandsShaped, Write

LEMMA AccountWritten ==
  ASSUME InstallationAssumption, ConsoleInv, NEW h \in Hands, Write(h), WriteAccount(h)
  PROVE  /\ hand[h].on \in Accounts /\ AccountOf(hand[h]) \in AccountRow
         /\ account' = [account EXCEPT ![hand[h].on] = AccountOf(hand[h])]
         /\ account' \in [Accounts -> AccountRow \cup {Nothing}]
         /\ \A a \in Accounts : There(account[a]) => There(account'[a])
         /\ idle' = [idle EXCEPT ![hand[h].on] = IF AccountOf(hand[h]).active THEN 0 ELSE @]
         /\ UNCHANGED <<person, company, app, cred, struck, entry, renewing>>
<1> USE DEF ConsoleInv
<1> DEFINE e == hand[h]
<1>1. /\ Shaped(e) /\ e.kind \in {"account", "password", "deactivate"}
      /\ account' = [account EXCEPT ![e.on] = AccountOf(e)]
  BY Writer DEF WriteAccount
<1>2. e.on \in Accounts /\ AccountOf(e) \in AccountRow
  <2>1. CASE e.kind = "account"
    BY <1>1, <2>1 DEF Shaped, AccountOf
  <2>2. CASE e.kind \in {"password", "deactivate"}
    <3>1. e.on \in Accounts /\ account[e.on] \in AccountRow
      BY <1>1, <2>2 DEF Shaped, TypeOK, There
    <3> QED
      BY <2>2, <3>1 DEF AccountOf, AccountRow
  <2> QED
    BY <1>1, <2>1, <2>2
<1> HIDE DEF e
<1>3. /\ account' \in [Accounts -> AccountRow \cup {Nothing}]
      /\ \A a \in Accounts : There(account[a]) => There(account'[a])
  BY <1>1, <1>2, Constants DEF TypeOK, There
<1> QED
  BY <1>1, <1>2, <1>3 DEF WriteAccount, e

LEMMA CompanyWritten ==
  ASSUME InstallationAssumption, ConsoleInv, NEW h \in Hands, Write(h), WriteCompany(h)
  PROVE  /\ person' \in [People -> PersonRow \cup {Nothing}]
         /\ \A p \in People : There(person[p]) => There(person'[p])
         /\ company' \in {"unborn", "active", "off"}
         /\ UNCHANGED <<account, app, cred, struck, entry, renewing, idle>>
<1> USE DEF ConsoleInv
<1> DEFINE e == hand[h]
<1>1. Shaped(e) /\ e.kind \in Joining \cup {"leave", "company"}
  BY Writer DEF WriteCompany
<1>2. company' \in {"unborn", "active", "off"}
  BY <1>1 DEF WriteCompany, TypeOK, Joining
<1>3. /\ person' \in [People -> PersonRow \cup {Nothing}]
      /\ \A p \in People : There(person[p]) => There(person'[p])
  <2>1. CASE e.kind \in Joining
    <3>1. e.on \in People /\ e.row \in PersonRow
      BY <1>1, <2>1 DEF Shaped
    <3>2. person' = [person EXCEPT ![e.on] = e.row]
      BY <2>1 DEF WriteCompany, Joining
    <3> HIDE DEF e
    <3> QED
      BY <3>1, <3>2, Constants DEF TypeOK, There
  <2>2. CASE e.kind = "leave"
    <3>1. /\ e.on \in People /\ person[e.on] \in PersonRow
          /\ person' = [person EXCEPT ![e.on] = [person[e.on] EXCEPT !.active = FALSE]]
      BY <1>1, <2>2 DEF Shaped, WriteCompany, TypeOK, There, Joining
    <3>2. [person[e.on] EXCEPT !.active = FALSE] \in PersonRow
      BY <3>1 DEF PersonRow
    <3> HIDE DEF e
    <3> QED
      BY <3>1, <3>2, Constants DEF TypeOK, There
  <2>3. CASE e.kind = "company"
    BY <2>3 DEF WriteCompany, TypeOK, Joining
  <2> QED
    BY <1>1, <2>1, <2>2, <2>3
<1> QED
  BY <1>2, <1>3 DEF WriteCompany

LEMMA ApplicationWritten ==
  ASSUME InstallationAssumption, ConsoleInv, NEW h \in Hands, Write(h), WriteApplication(h)
  PROVE  /\ app' \in AppRow \cup {Nothing}
         /\ cred' \in [Credentials -> {"unissued", "live", "expired", "revoked"}]
         /\ \A c \in Credentials :
              /\ cred[c] # "unissued" => cred'[c] # "unissued"
              /\ cred[c] = "unissued" /\ ~(Gives(hand[h]) /\ hand[h].on = c) => cred'[c] = "unissued"
         /\ struck' \subseteq Credentials
         /\ UNCHANGED <<account, person, company, entry, renewing, idle>>
<1> USE DEF ConsoleInv
<1> DEFINE e == hand[h]
<1>1. Shaped(e) /\ e.kind \in {"authorise", "application", "withdraw", "issue", "revoke"}
  BY Writer DEF WriteApplication
<1>2. app' \in AppRow \cup {Nothing}
  BY <1>1 DEF WriteApplication, Shaped, TypeOK, AppRow
<1>3. cred' \in [Credentials -> {"unissued", "live", "expired", "revoked"}]
  BY <1>1 DEF WriteApplication, TypeOK, Closed
<1>4. \A c \in Credentials :
         /\ cred[c] # "unissued" => cred'[c] # "unissued"
         /\ cred[c] = "unissued" /\ ~(Gives(hand[h]) /\ hand[h].on = c) => cred'[c] = "unissued"
  BY <1>1, Constants DEF WriteApplication, TypeOK, Closed, Gives, Shaped
<1>5. struck' \subseteq Credentials
  BY <1>1 DEF WriteApplication, TypeOK
<1> QED
  BY <1>2, <1>3, <1>4, <1>5 DEF WriteApplication

LEMMA WriteKeepsConsole ==
  ASSUME InstallationAssumption, ConsoleInv, NEW h \in Hands, Write(h)
  PROVE  ConsoleInv'
<1> USE DEF ConsoleInv
<1>1. TypeOK' /\ renewing' = renewing /\ entry' = entry
  <2> overtaken' \in SUBSET Hands
    BY DEF Write, Overtakes, TypeOK
  <2>1. CASE WriteAccount(h)
    BY <2>1, AccountWritten, Constants DEF TypeOK
  <2>2. CASE WriteCompany(h)
    BY <2>2, CompanyWritten DEF TypeOK
  <2>3. CASE WriteApplication(h)
    BY <2>3, ApplicationWritten DEF TypeOK
  <2> QED
    BY <2>1, <2>2, <2>3 DEF Write
<1>2. /\ \A a \in Accounts : There(account[a]) => There(account'[a])
      /\ \A p \in People : There(person[p]) => There(person'[p])
      /\ \A c \in Credentials :
           /\ cred[c] # "unissued" => cred'[c] # "unissued"
           /\ cred[c] = "unissued" /\ ~(Gives(hand[h]) /\ hand[h].on = c) => cred'[c] = "unissued"
  <2>1. CASE WriteAccount(h)
    BY <2>1, AccountWritten
  <2>2. CASE WriteCompany(h)
    BY <2>2, CompanyWritten
  <2>3. CASE WriteApplication(h)
    BY <2>3, ApplicationWritten
  <2> QED
    BY <2>1, <2>2, <2>3 DEF Write
<1>3. HandsShaped'
  <2> SUFFICES ASSUME NEW g \in Hands PROVE Shaped(hand[g])' /\ FreshFor(g, hand[g])'
    BY Writer DEF HandsShaped
  <2>1. CASE g = h
    BY <2>1, Writer, IdleShaped DEF Shaped, FreshFor, Gives, Idle
  <2>2. CASE g # h
    <3>1. hand'[g] = hand[g] /\ Shaped(hand[g]) /\ FreshFor(g, hand[g])
      BY <2>2, Writer DEF HandsShaped
    <3>2. Shaped(hand[g])'
      BY <3>1, <1>2 DEF Shaped, There
    <3>3. FreshFor(g, hand[g])'
      BY <2>2, <3>1, <1>2, Writer, IdleShaped DEF FreshFor, Gives
    <3> QED
      BY <3>2, <3>3
  <2> QED
    BY <2>1, <2>2
<1> QED
  BY <1>1, <1>3 DEF RenewingThere

\* Nothing but the sessions of support, or a credential that expires.
LEMMA SupportSteps ==
  ASSUME InstallationAssumption, ConsoleInv, NEW e \in Entries, SupportStep(e)
  PROVE  /\ UNCHANGED console
         /\ entry' \in [Entries -> EntryRow \cup {Nothing}]
         /\ renewing' \subseteq Entries
         /\ \A f \in renewing' : There(entry'[f])
         /\ idle' = idle
<1> USE Constants DEF ConsoleInv
<1>1. ASSUME NEW by \in Accounts, EnterAsSupport(e, by)
      PROVE  /\ entry' \in [Entries -> EntryRow \cup {Nothing}] /\ renewing' = renewing
             /\ \A f \in renewing' : There(entry'[f])
  <2> DEFINE row == [by |-> by, age |-> 0, refresh |-> SupportLife,
                     access |-> Least(AccessLife, SupportLife), open |-> TRUE]
  <2>1. row \in EntryRow
    BY DEF EntryRow, Least
  <2>2. entry' = [entry EXCEPT ![e] = row] /\ entry[e] = Nothing /\ renewing' = renewing
    BY <1>1 DEF EnterAsSupport
  <2> HIDE DEF row
  <2> QED
    BY <2>1, <2>2 DEF TypeOK, RenewingThere, There
<1>2. CASE AskToRenew(e)
  BY <1>2 DEF AskToRenew, TypeOK, RenewingThere
<1>3. ASSUME Renew(e) \/ SignOut(e)
      PROVE  /\ entry' \in [Entries -> EntryRow \cup {Nothing}] /\ renewing' \subseteq renewing
             /\ \A f \in renewing' : There(entry'[f])
  <2>1. There(entry[e]) /\ entry[e] \in EntryRow
    BY <1>3 DEF Renew, SignOut, RenewingThere, TypeOK, There
  <2>2. PICK row \in EntryRow : entry' = [entry EXCEPT ![e] = row]
    <3>1. CASE Renew(e)
      <4> DEFINE row == [entry[e] EXCEPT !.refresh = RefreshLeft(e),
                           !.access = Least(AccessLife, RefreshLeft(e)), !.open = TRUE]
      <4>1. entry[e].refresh \in 0 .. SupportLife
        BY <2>1 DEF EntryRow
      <4>2. Least(AccessLife, entry[e].refresh) \in 0 .. AccessLife
        BY <4>1 DEF Least
      <4>3. row \in EntryRow
        BY <2>1, <4>1, <4>2 DEF EntryRow, RefreshLeft
      <4>4. entry' = [entry EXCEPT ![e] = row]
        BY <3>1 DEF Renew
      <4> QED
        BY <4>3, <4>4
    <3>2. CASE SignOut(e)
      <4> DEFINE row == [entry[e] EXCEPT !.open = FALSE]
      <4>1. row \in EntryRow
        BY <2>1 DEF EntryRow
      <4>2. entry' = [entry EXCEPT ![e] = row]
        BY <3>2 DEF SignOut
      <4> QED
        BY <4>1, <4>2
    <3> QED
      BY <1>3, <3>1, <3>2
  <2>3. renewing' \subseteq renewing
    BY <1>3 DEF Renew, SignOut
  <2> QED
    BY <2>1, <2>2, <2>3 DEF TypeOK, RenewingThere, There
<1>4. CASE Forget(e)
  BY <1>4 DEF Forget, TypeOK, RenewingThere, There
<1>5. UNCHANGED console /\ idle' = idle
  BY DEF SupportStep, EnterAsSupport, AskToRenew, Renew, SignOut, Forget
<1> QED
  BY <1>1, <1>2, <1>3, <1>4, <1>5 DEF SupportStep, TypeOK, AskToRenew, Forget

LEMMA TickRows ==
  ASSUME InstallationAssumption, ConsoleInv, Tick
  PROVE  /\ UNCHANGED console /\ renewing = {} /\ renewing' = {}
         /\ entry' \in [Entries -> EntryRow \cup {Nothing}]
         /\ idle' \in [Accounts -> 0 .. AccessLife]
         /\ \A e \in Entries : entry[e] = Nothing => entry'[e] = Nothing
         /\ \A e \in Entries : There(entry[e]) =>
               /\ There(entry'[e]) /\ entry'[e].by = entry[e].by
               /\ entry'[e].age = Least(entry[e].age + 1, SupportLife)
               /\ entry'[e].refresh = Down(entry[e].refresh)
               /\ entry'[e].access = Down(entry[e].access)
<1> USE Constants DEF ConsoleInv
<1>1. ASSUME NEW e \in Entries, There(entry[e])
      PROVE  /\ entry'[e] \in EntryRow /\ There(entry'[e]) /\ entry'[e].by = entry[e].by
             /\ entry'[e].age = Least(entry[e].age + 1, SupportLife)
             /\ entry'[e].refresh = Down(entry[e].refresh)
             /\ entry'[e].access = Down(entry[e].access)
  <2>1. /\ entry[e] \in EntryRow
        /\ entry'[e] = [entry[e] EXCEPT !.age = Least(@ + 1, SupportLife),
                                        !.refresh = Down(@), !.access = Down(@)]
    BY <1>1 DEF Tick, There, TypeOK
  <2>2. /\ Least(entry[e].age + 1, SupportLife) \in 0 .. SupportLife
        /\ Down(entry[e].refresh) \in 0 .. SupportLife /\ Down(entry[e].access) \in 0 .. AccessLife
    BY <2>1 DEF EntryRow, Least, Down
  <2>3. entry'[e] = [by |-> entry[e].by, age |-> Least(entry[e].age + 1, SupportLife),
                     refresh |-> Down(entry[e].refresh), access |-> Down(entry[e].access),
                     open |-> entry[e].open]
    BY <2>1 DEF EntryRow
  <2>4. entry[e].by \in Accounts /\ entry[e].open \in BOOLEAN
    BY <2>1 DEF EntryRow
  <2>5. entry'[e] \in EntryRow
    BY <2>2, <2>3, <2>4 DEF EntryRow
  <2>6. There(entry'[e])
    BY <2>5 DEF There
  <2> QED
    BY <2>3, <2>5, <2>6
<1>2. \A e \in Entries : entry[e] = Nothing => entry'[e] = Nothing
  BY DEF Tick
<1>3. idle' \in [Accounts -> 0 .. AccessLife]
  <2>1. \A n \in 0 .. AccessLife : Least(n + 1, AccessLife) \in 0 .. AccessLife
    BY DEF Least
  <2>2. \A a \in Accounts : idle[a] \in 0 .. AccessLife
    BY DEF TypeOK
  <2> DEFINE Out(a) == There(account[a]) /\ ~account[a].active
  <2>3. idle' = [a \in Accounts |-> IF Out(a) THEN Least(idle[a] + 1, AccessLife) ELSE 0]
    BY DEF Tick
  <2> HIDE DEF Out
  <2>4. 0 \in 0 .. AccessLife
    OBVIOUS
  <2> QED
    BY <2>1, <2>2, <2>3, <2>4
<1>4. entry' \in [Entries -> EntryRow \cup {Nothing}]
  BY <1>1, <1>2 DEF Tick, There
<1>5. UNCHANGED console /\ renewing = {} /\ renewing' = {}
  BY DEF Tick
<1> QED
  BY <1>1, <1>2, <1>3, <1>4, <1>5

LEMMA NextConsole == ASSUME InstallationAssumption, ConsoleInv, [Next]_vars PROVE ConsoleInv'
<1>1. ASSUME NEW h \in Hands, ConsoleStep(h) \/ PeopleStep(h) \/ ApplicationStep(h)
      PROVE  ConsoleInv'
  <2>1. PICK r : Take(h, r) /\ Shaped(r) /\ FreshFor(h, r)
    BY <1>1, ConsoleTakes, PeopleTake, ApplicationTakes DEF TakesShaped
  <2> QED
    BY <2>1, HandMoves DEF Take
<1>2. ASSUME NEW h \in Hands, Write(h) PROVE ConsoleInv'
  BY <1>2, WriteKeepsConsole
<1>3. ASSUME NEW h \in Hands, Abort(h) PROVE ConsoleInv'
  BY <1>3, HandMoves, IdleShaped DEF Abort, FreshFor
<1>4. ASSUME NEW c \in Credentials, Expire(c) PROVE ConsoleInv'
  <2>1. TypeOK' /\ \A d \in Credentials : cred'[d] = "unissued" <=> cred[d] = "unissued"
    BY <1>4 DEF Expire, TypeOK, ConsoleInv
  <2> QED
    BY <1>4, <2>1 DEF Expire, ConsoleInv, HandsShaped, Shaped, FreshFor, Gives, RenewingThere
<1>5. ASSUME NEW e \in Entries, SupportStep(e) PROVE ConsoleInv'
  BY <1>5, SupportSteps DEF ConsoleInv, console, TypeOK, HandsShaped, Shaped, FreshFor, Gives,
                            RenewingThere
<1>6. CASE Tick
  BY <1>6, TickRows DEF ConsoleInv, console, TypeOK, HandsShaped, Shaped, FreshFor, Gives,
                        RenewingThere
<1>7. CASE UNCHANGED vars
  BY <1>7 DEF vars, ConsoleInv, TypeOK, HandsShaped, Shaped, FreshFor, Gives, RenewingThere
<1> QED
  BY <1>1, <1>2, <1>3, <1>4, <1>5, <1>6, <1>7 DEF Next

-----------------------------------------------------------------------------
(* Support                                                                 *)

LEMMA InitSupport == ASSUME InstallationAssumption, Init PROVE SupportInv
<1>1. ConsoleInv
  BY InitConsole
<1>2. ActiveIsNotIdle /\ RenewersWereActive /\ SupportEndsOnTime /\ SupportFollowsItsAccount
  BY DEF Init, ActiveIsNotIdle, RenewersWereActive, SupportEndsOnTime, SupportFollowsItsAccount,
         There
<1> QED
  BY <1>1, <1>2 DEF SupportInv

\* The numbers of a session.
LEMMA EntryNumbers ==
  ASSUME InstallationAssumption, TypeOK, NEW e \in Entries, There(entry[e])
  PROVE  /\ entry[e].by \in Accounts /\ entry[e].age \in Nat /\ entry[e].age <= SupportLife
         /\ entry[e].refresh \in Nat /\ entry[e].refresh <= SupportLife
         /\ entry[e].access \in Nat /\ entry[e].access <= AccessLife
         /\ idle[entry[e].by] \in Nat
<1>1. entry[e] \in EntryRow
  BY DEF TypeOK, There
<1> QED
  BY <1>1, Constants DEF EntryRow, TypeOK

LEMMA EndsOnTimeStep ==
  ASSUME InstallationAssumption, SupportInv, Tick \/ \E e \in Entries : SupportStep(e)
  PROVE  SupportEndsOnTime'
<1> USE DEF SupportInv, ConsoleInv
<1> DEFINE OnTime(s) == s.age + s.access <= SupportLife /\ s.age + s.refresh <= SupportLife
<1> SUFFICES ASSUME NEW f \in Entries, There(entry'[f]) PROVE OnTime(entry'[f])
  BY DEF SupportEndsOnTime
<1>1. There(entry[f]) => OnTime(entry[f])
  BY DEF SupportEndsOnTime
<1>2. CASE Tick
  <2>1. There(entry[f])
    BY <1>2, TickRows DEF There
  <2> QED
    BY <2>1, <1>1, <1>2, TickRows, EntryNumbers, Constants DEF Least, Down
<1>3. ASSUME NEW e \in Entries, SupportStep(e), entry'[f] # entry[f] PROVE OnTime(entry'[f])
  <2>1. ASSUME NEW by \in Accounts, EnterAsSupport(e, by) PROVE OnTime(entry'[f])
    <3>1. /\ f = e
          /\ entry'[f] = [by |-> by, age |-> 0, refresh |-> SupportLife,
                          access |-> Least(AccessLife, SupportLife), open |-> TRUE]
      BY <1>3, <2>1 DEF EnterAsSupport, TypeOK
    <3> QED
      BY <3>1, Constants DEF Least
  <2>2. CASE Renew(e)
    <3>1. f = e /\ There(entry[f]) /\ entry[f] \in EntryRow
      BY <1>3, <2>2 DEF Renew, RenewingThere, TypeOK, There
    <3>2. entry'[f] = [entry[f] EXCEPT !.refresh = entry[f].refresh,
                                       !.access = Least(AccessLife, entry[f].refresh),
                                       !.open = TRUE]
      BY <2>2, <3>1 DEF Renew, RefreshLeft, TypeOK
    <3>3. /\ entry'[f].age = entry[f].age /\ entry'[f].refresh = entry[f].refresh
          /\ entry'[f].access = Least(AccessLife, entry[f].refresh)
      BY <3>1, <3>2 DEF EntryRow
    <3> QED
      BY <1>1, <3>1, <3>3, EntryNumbers, Constants DEF Least
  <2>3. CASE SignOut(e)
    <3>1. f = e /\ There(entry[f]) /\ entry[f] \in EntryRow
      BY <1>3, <2>3 DEF SignOut, TypeOK, There
    <3>2. entry'[f] = [entry[f] EXCEPT !.open = FALSE]
      BY <2>3, <3>1 DEF SignOut, TypeOK
    <3> QED
      BY <1>1, <3>1, <3>2 DEF EntryRow
  <2>4. CASE AskToRenew(e) \/ Forget(e)
    BY <1>3, <2>4 DEF AskToRenew, Forget, TypeOK, There
  <2> QED
    BY <1>3, <2>1, <2>2, <2>3, <2>4 DEF SupportStep
<1> QED
  BY <1>1, <1>2, <1>3

\* What the clock and the sessions themselves do.
LEMMA FollowsSupportStep ==
  ASSUME InstallationAssumption, SupportInv, NEW e \in Entries, SupportStep(e)
  PROVE  ActiveIsNotIdle' /\ RenewersWereActive' /\ SupportFollowsItsAccount'
<1> USE DEF SupportInv, ConsoleInv
<1>1. UNCHANGED <<account, idle>>
  BY SupportSteps DEF console
<1>2. ActiveIsNotIdle'
  BY <1>1 DEF ActiveIsNotIdle, ActiveAccount
<1>3. ASSUME NEW by \in Accounts, EnterAsSupport(e, by)
      PROVE  RenewersWereActive' /\ SupportFollowsItsAccount'
  <2>1. /\ entry'[e] = [by |-> by, age |-> 0, refresh |-> SupportLife,
                        access |-> Least(AccessLife, SupportLife), open |-> TRUE]
        /\ \A f \in Entries \ {e} : entry'[f] = entry[f]
        /\ renewing' = renewing /\ e \notin renewing /\ ActiveAccount(by)
    BY <1>3 DEF EnterAsSupport, TypeOK, RenewingThere, There
  <2>2. entry'[e].by = by
    BY <2>1
  <2> QED
    BY <1>1, <2>1, <2>2 DEF RenewersWereActive, SupportFollowsItsAccount, ActiveAccount, TypeOK
<1>4. CASE AskToRenew(e)
  <2>1. idle[entry[e].by] = 0
    BY <1>4, EntryNumbers DEF AskToRenew, SomebodyBehind, ActiveIsNotIdle
  <2> QED
    BY <1>1, <1>2, <1>4, <2>1 DEF AskToRenew, RenewersWereActive, SupportFollowsItsAccount, ActiveAccount
<1>5. CASE Renew(e)
  <2>1. e \in renewing /\ There(entry[e]) /\ entry[e] \in EntryRow /\ idle[entry[e].by] = 0
    BY <1>5 DEF Renew, RenewingThere, TypeOK, There, RenewersWereActive
  <2>2. /\ entry'[e] = [entry[e] EXCEPT !.refresh = entry[e].refresh,
                                        !.access = Least(AccessLife, entry[e].refresh),
                                        !.open = TRUE]
        /\ \A f \in Entries \ {e} : entry'[f] = entry[f]
        /\ renewing' = renewing \ {e}
    BY <1>5, <2>1 DEF Renew, RefreshLeft, TypeOK
  <2>3. entry'[e].by = entry[e].by /\ entry'[e].access <= AccessLife
    BY <2>1, <2>2, EntryNumbers, Constants DEF EntryRow, Least
  <2>4. RenewersWereActive'
    BY <1>1, <2>2 DEF RenewersWereActive, TypeOK
  <2>5. entry'[e].access \in Nat
    BY <2>1, <2>2, EntryNumbers, Constants DEF EntryRow, Least
  <2>6. SupportFollowsItsAccount'
    <3> SUFFICES ASSUME NEW f \in Entries, There(entry'[f]), entry'[f].access > 0,
                        ~ActiveAccount(entry'[f].by)
                 PROVE  idle[entry'[f].by] + entry'[f].access <= AccessLife
      BY <1>1 DEF SupportFollowsItsAccount, ActiveAccount
    <3>1. CASE f = e
      BY <3>1, <2>1, <2>3, <2>5, Constants
    <3>2. CASE f # e
      BY <3>2, <2>2 DEF SupportFollowsItsAccount
    <3> QED
      BY <3>1, <3>2
  <2> QED
    BY <1>2, <2>4, <2>6
<1>6. CASE SignOut(e)
  <2>1. entry[e] \in EntryRow /\ entry' = [entry EXCEPT ![e].open = FALSE] /\ renewing' = renewing
    BY <1>6 DEF SignOut, TypeOK, There
  <2>2. \A f \in Entries : /\ There(entry'[f]) => There(entry[f])
                           /\ There(entry[f]) => /\ entry'[f].by = entry[f].by
                                                 /\ entry'[f].access = entry[f].access
    BY <2>1, <1>6 DEF TypeOK, EntryRow, There, SignOut
  <2> QED
    BY <1>1, <1>2, <2>1, <2>2 DEF RenewersWereActive, SupportFollowsItsAccount, ActiveAccount,
                            RenewingThere, TypeOK
<1>7. CASE Forget(e)
  <2>1. /\ e \notin renewing /\ renewing' = renewing /\ entry'[e] = Nothing
        /\ \A f \in Entries \ {e} : entry'[f] = entry[f]
    BY <1>7 DEF Forget, TypeOK
  <2> QED
    BY <1>1, <1>2, <2>1 DEF RenewersWereActive, SupportFollowsItsAccount, ActiveAccount, TypeOK,
                            There
<1> QED
  BY <1>2, <1>3, <1>4, <1>5, <1>6, <1>7 DEF SupportStep

LEMMA FollowsTick ==
  ASSUME InstallationAssumption, SupportInv, Tick
  PROVE  ActiveIsNotIdle' /\ RenewersWereActive' /\ SupportFollowsItsAccount'
<1> USE DEF SupportInv, ConsoleInv
<1>1. /\ account' = account /\ renewing' = {}
      /\ \A a \in Accounts : idle'[a] = IF There(account[a]) /\ ~account[a].active
                                        THEN Least(idle[a] + 1, AccessLife) ELSE 0
  BY TickRows DEF Tick, console
<1>2. ActiveIsNotIdle' /\ RenewersWereActive'
  BY <1>1 DEF ActiveIsNotIdle, RenewersWereActive, ActiveAccount
<1>3. SupportFollowsItsAccount'
  <2> SUFFICES ASSUME NEW e \in Entries, There(entry'[e]), entry'[e].access > 0,
                      ~ActiveAccount(entry'[e].by)
               PROVE  idle'[entry'[e].by] + entry'[e].access <= AccessLife
    BY <1>1 DEF SupportFollowsItsAccount, ActiveAccount
  <2>1. There(entry[e]) /\ entry'[e].by = entry[e].by /\ entry'[e].access = Down(entry[e].access)
    BY TickRows DEF There
  <2>2. entry[e].access \in Nat /\ entry[e].access <= AccessLife /\ entry[e].by \in Accounts
        /\ idle[entry[e].by] \in Nat
    BY <2>1, EntryNumbers
  <2>3. entry[e].access > 0 /\ entry'[e].access = entry[e].access - 1
    BY <2>1, <2>2 DEF Down
  <2>4. idle[entry[e].by] + entry[e].access <= AccessLife
    BY <2>1, <2>3 DEF SupportFollowsItsAccount
  <2>5. idle'[entry[e].by] \in Nat /\ idle'[entry[e].by] <= idle[entry[e].by] + 1
    BY <1>1, <2>2, Constants DEF Least
  <2> QED
    BY <2>1, <2>2, <2>3, <2>4, <2>5, Constants
<1> QED
  BY <1>2, <1>3

\* A write that may switch an account off.
LEMMA FollowsAccount ==
  ASSUME InstallationAssumption, SupportInv, NEW h \in Hands, Write(h), WriteAccount(h)
  PROVE  ActiveIsNotIdle' /\ RenewersWereActive' /\ SupportFollowsItsAccount'
<1> USE DEF SupportInv, ConsoleInv
<1> DEFINE a == hand[h].on
           row == AccountOf(hand[h])
<1>1. /\ a \in Accounts /\ row \in AccountRow /\ account' = [account EXCEPT ![a] = row]
      /\ idle' = [idle EXCEPT ![a] = IF row.active THEN 0 ELSE @]
      /\ UNCHANGED <<entry, renewing>>
  BY AccountWritten
<1> HIDE DEF a, row
<1>2. \A b \in Accounts : /\ idle'[b] = idle[b] \/ idle'[b] = 0
                          /\ b # a => account'[b] = account[b] /\ idle'[b] = idle[b]
  BY <1>1 DEF TypeOK
<1>3. account'[a] = row /\ idle'[a] = IF row.active THEN 0 ELSE idle[a]
  BY <1>1 DEF TypeOK
<1>4. ActiveIsNotIdle'
  BY <1>2, <1>3 DEF ActiveIsNotIdle, ActiveAccount
<1>5. RenewersWereActive'
  BY <1>1, <1>2, EntryNumbers DEF RenewersWereActive, RenewingThere, TypeOK
<1>6. SupportFollowsItsAccount'
  <2> SUFFICES ASSUME NEW e \in Entries, There(entry[e]), entry[e].access > 0,
                      ~ActiveAccount(entry[e].by)'
               PROVE  idle'[entry[e].by] + entry[e].access <= AccessLife
    BY <1>1 DEF SupportFollowsItsAccount
  <2>1. /\ entry[e].access \in Nat /\ entry[e].access <= AccessLife /\ entry[e].by \in Accounts
        /\ idle[entry[e].by] \in Nat
    BY EntryNumbers
  <2>2. CASE ActiveAccount(entry[e].by)
    <3>1. idle[entry[e].by] = 0
      BY <2>1, <2>2 DEF ActiveIsNotIdle
    <3> QED
      BY <1>2, <2>1, <3>1, Constants
  <2>3. CASE ~ActiveAccount(entry[e].by)
    <3>1. idle[entry[e].by] + entry[e].access <= AccessLife
      BY <2>3 DEF SupportFollowsItsAccount
    <3> QED
      BY <1>2, <2>1, <3>1, Constants
  <2> QED
    BY <2>2, <2>3
<1> QED
  BY <1>4, <1>5, <1>6

LEMMA NextSupport == ASSUME InstallationAssumption, SupportInv, [Next]_vars PROVE SupportInv'
<1>1. ConsoleInv'
  BY NextConsole DEF SupportInv
<1>2. CASE UNCHANGED <<account, entry, renewing, idle>>
  <2>1. /\ ActiveIsNotIdle' /\ RenewersWereActive' /\ SupportEndsOnTime'
        /\ SupportFollowsItsAccount'
    BY <1>2 DEF SupportInv, ActiveIsNotIdle, RenewersWereActive, SupportEndsOnTime,
                SupportFollowsItsAccount, ActiveAccount
  <2> QED
    BY <1>1, <2>1 DEF SupportInv
<1>3. ASSUME NEW h \in Hands, ConsoleStep(h) \/ PeopleStep(h) \/ ApplicationStep(h) \/ Abort(h)
      PROVE  UNCHANGED <<account, entry, renewing, idle>>
  BY <1>3, ConsoleTakes, PeopleTake, ApplicationTakes DEF TakesShaped, Take, Abort, SupportInv
<1>4. ASSUME NEW h \in Hands, Write(h) PROVE SupportInv'
  <2>1. CASE WriteAccount(h)
    <3>1. SupportEndsOnTime'
      BY <1>4, <2>1, AccountWritten DEF SupportInv, SupportEndsOnTime
    <3> QED
      BY <1>1, <1>4, <2>1, <3>1, FollowsAccount DEF SupportInv
  <2>2. CASE WriteCompany(h) \/ WriteApplication(h)
    BY <2>2, <1>2 DEF WriteCompany, WriteApplication
  <2> QED
    BY <1>4, <2>1, <2>2 DEF Write
<1>5. ASSUME NEW c \in Credentials, Expire(c) PROVE UNCHANGED <<account, entry, renewing, idle>>
  BY <1>5 DEF Expire
<1>6. ASSUME NEW e \in Entries, SupportStep(e) PROVE SupportInv'
  BY <1>1, <1>6, EndsOnTimeStep, FollowsSupportStep DEF SupportInv
<1>7. CASE Tick
  BY <1>1, <1>7, EndsOnTimeStep, FollowsTick DEF SupportInv
<1>8. CASE UNCHANGED vars
  BY <1>2, <1>8 DEF vars
<1> QED
  BY <1>2, <1>3, <1>4, <1>5, <1>6, <1>7, <1>8 DEF Next

-----------------------------------------------------------------------------
(* Credentials                                                             *)

LEMMA NextStruck ==
  ASSUME InstallationAssumption, ConsoleInv, StruckAreRevoked, [Next]_vars
  PROVE  StruckAreRevoked'
<1> USE DEF ConsoleInv
<1>1. CASE UNCHANGED <<cred, struck>>
  BY <1>1 DEF StruckAreRevoked
<1>2. ASSUME NEW h \in Hands, Write(h), WriteApplication(h) PROVE StruckAreRevoked'
  <2> DEFINE e == hand[h]
  <2>1. Shaped(e) /\ FreshFor(h, e)
    BY <1>2, Writer
  <2> SUFFICES ASSUME NEW c \in struck' PROVE cred'[c] = "revoked"
    BY DEF StruckAreRevoked
  <2>2. c \in Credentials
    BY <1>2, ApplicationWritten
  <2>3. CASE e.kind = "withdraw"
    <3>1. c \in struck \/ cred[c] # "unissued"
      BY <1>2, <2>3 DEF WriteApplication
    <3>2. cred'[c] = Closed(c)
      BY <1>2, <2>2, <2>3 DEF WriteApplication
    <3> QED
      BY <2>2, <3>1, <3>2 DEF StruckAreRevoked, Closed, TypeOK
  <2>4. CASE e.kind # "withdraw"
    <3>1. c \in struck /\ cred[c] = "revoked"
      BY <1>2, <2>4 DEF WriteApplication, StruckAreRevoked
    <3>2. ~(e.kind \in {"authorise", "issue"} /\ e.on = c)
      BY <2>1, <2>2, <3>1, Constants DEF FreshFor, Gives
    <3> QED
      BY <1>2, <2>2, <2>4, <3>1, <3>2 DEF WriteApplication
  <2> QED
    BY <2>3, <2>4
<1>3. ASSUME NEW h \in Hands, Write(h), WriteAccount(h) \/ WriteCompany(h)
      PROVE  UNCHANGED <<cred, struck>>
  BY <1>3 DEF WriteAccount, WriteCompany
<1>4. ASSUME NEW h \in Hands, ConsoleStep(h) \/ PeopleStep(h) \/ ApplicationStep(h) \/ Abort(h)
      PROVE  UNCHANGED <<cred, struck>>
  BY <1>4, ConsoleTakes, PeopleTake, ApplicationTakes DEF TakesShaped, Take, Abort
<1>5. ASSUME NEW c \in Credentials, Expire(c) PROVE StruckAreRevoked'
  BY <1>5 DEF Expire, StruckAreRevoked, TypeOK
<1>6. ASSUME NEW e \in Entries, SupportStep(e) PROVE UNCHANGED <<cred, struck>>
  BY <1>6, SupportSteps DEF console
<1>7. CASE Tick \/ UNCHANGED vars
  BY <1>7, <1>1 DEF Tick, console, vars
<1> QED
  BY <1>1, <1>2, <1>3, <1>4, <1>5, <1>6, <1>7 DEF Next, Write

LEMMA StruckStayOut == ASSUME StruckAreRevoked PROVE WithdrawnStaysOut
  BY DEF StruckAreRevoked, WithdrawnStaysOut, Serves, IsValid

-----------------------------------------------------------------------------
(* Addresses                                                               *)

TakesDecent(h) == \E r : Take(h, r) /\ Decent(r)

LEMMA ConsoleTakesDecent ==
  ASSUME InstallationAssumption, AddressInv, NEW h \in Hands, ConsoleStep(h)
  PROVE  TakesDecent(h)
<1> USE RequestFields DEF AddressInv, ConsoleInv
<1>1. ASSUME NEW a \in Accounts, NEW address \in Addresses, NEW active \in BOOLEAN, NEW except,
             Take(h, Request("account", a, [address |-> address, active |-> active])),
             ~TakenForAnAccount(address, except)
      PROVE  TakesDecent(h)
  <2> DEFINE row == [address |-> address, active |-> active]
  <2>1. row.address = address
    OBVIOUS
  <2> HIDE DEF row
  <2>2. Decent(Request("account", a, row))
    BY <1>1, <2>1 DEF Decent, TakenForAnAccount
  <2> QED
    BY <1>1, <2>2 DEF TakesDecent, row
<1>2. ASSUME NEW by \in Accounts, NEW a \in Accounts, NEW address \in Addresses,
             CreateAccount(h, by, a, address)
      PROVE  TakesDecent(h)
  BY <1>1, <1>2 DEF CreateAccount
<1>3. ASSUME NEW by \in Accounts, NEW a \in Accounts, NEW address \in Addresses,
             NEW wants \in BOOLEAN, ChangeAccount(h, by, a, address, wants)
      PROVE  TakesDecent(h)
  <2> DEFINE active == account[a].active \/ (wants /\ ~account[a].active)
  <2>1. /\ There(account[a]) /\ ~TakenForAnAccount(address, a)
        /\ Take(h, Request("account", a, [address |-> address, active |-> active]))
    BY <1>3 DEF ChangeAccount, TouchesTheAddress
  <2>2. active \in BOOLEAN
    BY <2>1 DEF TypeOK, AccountRow, There
  <2> HIDE DEF active
  <2> QED
    BY <1>1, <2>1, <2>2
<1>4. ASSUME NEW by \in Accounts, NEW a \in Accounts, ResetPassword(h, by, a)
      PROVE  TakesDecent(h)
  <2>1. /\ Take(h, Request("password", a, Nothing)) /\ There(account[a])
        /\ account[a].active \/ ~TakenForAnAccount(account[a].address, a)
    BY <1>4 DEF ResetPassword
  <2>2. Decent(Request("password", a, Nothing))
    BY <2>1 DEF Decent, TakenForAnAccount, ActiveAccount
  <2> QED
    BY <2>1, <2>2 DEF TakesDecent
<1>5. ASSUME NEW by \in Accounts, NEW a \in Accounts, DeactivateAccount(h, by, a)
      PROVE  TakesDecent(h)
  BY <1>5 DEF DeactivateAccount, TakesDecent, Decent
<1>6. ASSUME NEW by \in Accounts, NEW wanted \in BOOLEAN, ChangeCompany(h, by, wanted)
      PROVE  TakesDecent(h)
  BY <1>6 DEF ChangeCompany, TakesDecent, Decent
<1> QED
  BY <1>2, <1>3, <1>4, <1>5, <1>6 DEF ConsoleStep

LEMMA PeopleTakeDecent ==
  ASSUME InstallationAssumption, NEW h \in Hands, PeopleStep(h)
  PROVE  TakesDecent(h)
<1> USE RequestFields
<1>1. ASSUME NEW kind \in {"signup", "person"}, NEW p \in People, NEW address \in Addresses,
             NEW active \in BOOLEAN,
             Take(h, Request(kind, p, [address |-> address, active |-> active])),
             active => \/ ~TakenForAPerson(address)
                       \/ ActivePerson(p) /\ person[p].address = address
      PROVE  TakesDecent(h)
  <2> DEFINE row == [address |-> address, active |-> active]
  <2>1. row.address = address /\ row.active = active
    OBVIOUS
  <2> HIDE DEF row
  <2>2. Decent(Request(kind, p, row))
    BY <1>1, <2>1 DEF Decent, TakenForAPerson
  <2> QED
    BY <1>1, <2>2 DEF TakesDecent, row
<1>2. ASSUME NEW p \in People, NEW address \in Addresses, NEW by \in Accounts \cup {Nothing},
             SignUp(h, by, p, address)
      PROVE  TakesDecent(h)
  BY <1>1, <1>2 DEF SignUp
<1>3. ASSUME NEW p \in People, NEW address \in Addresses, NEW active \in BOOLEAN,
             WritePerson(h, p, address, active) \/ \E c \in Credentials : PushPerson(h, c, p, address, active)
      PROVE  TakesDecent(h)
  <2>1. active => \/ ~TakenForAPerson(address)
                  \/ ActivePerson(p) /\ person[p].address = address
    BY <1>3 DEF WritePerson, PushPerson, LookedAt, Touches, ActivePerson
  <2> QED
    BY <1>1, <1>3, <2>1 DEF WritePerson, PushPerson
<1>4. ASSUME NEW p \in People, NEW address \in Addresses, ProvisionPerson(h, p, address)
      PROVE  TakesDecent(h)
  BY <1>4 DEF ProvisionPerson, TakesDecent, Decent
<1>5. ASSUME NEW p \in People, PersonLeaves(h, p) PROVE TakesDecent(h)
  BY <1>5 DEF PersonLeaves, TakesDecent, Decent
<1> QED
  BY <1>2, <1>3, <1>4, <1>5 DEF PeopleStep

LEMMA ApplicationTakesDecent ==
  ASSUME NEW h \in Hands, ApplicationStep(h)
  PROVE  TakesDecent(h)
<1> USE RequestFields DEF TakesDecent, Decent
<1>1. ASSUME NEW by, NEW c, Authorise(h, by, c) PROVE TakesDecent(h)
  BY <1>1 DEF Authorise
<1>2. ASSUME NEW by, NEW wanted, ChangeApplication(h, by, wanted) PROVE TakesDecent(h)
  BY <1>2 DEF ChangeApplication
<1>3. ASSUME NEW by, Withdraw(h, by) PROVE TakesDecent(h)
  BY <1>3 DEF Withdraw
<1>4. ASSUME NEW by, NEW c, IssueCredential(h, by, c) \/ RevokeCredential(h, by, c)
      PROVE  TakesDecent(h)
  BY <1>4 DEF IssueCredential, RevokeCredential
<1> QED
  BY <1>1, <1>2, <1>3, <1>4 DEF ApplicationStep

\* The two sides of a write: at most one row of one of them changes.
LEMMA WrittenAccount ==
  ASSUME InstallationAssumption, ConsoleInv, NEW h \in Hands, Write(h), WriteAccount(h)
  PROVE  /\ UNCHANGED person
         /\ hand[h].on \in Accounts /\ account'[hand[h].on] = AccountOf(hand[h])
         /\ \A b \in Accounts \ {hand[h].on} : account'[b] = account[b]
         /\ hand[h].kind \in {"account", "password", "deactivate"}
         /\ hand[h].kind = "account" => AccountOf(hand[h]) = hand[h].row
         /\ hand[h].kind = "password" =>
               There(account[hand[h].on]) /\ AccountOf(hand[h]).address = account[hand[h].on].address
         /\ hand[h].kind = "deactivate" => ~AccountOf(hand[h]).active
<1> DEFINE e == hand[h]
<1>1. /\ e.on \in Accounts /\ account' = [account EXCEPT ![e.on] = AccountOf(e)]
      /\ UNCHANGED person /\ e.kind \in {"account", "password", "deactivate"} /\ Shaped(e)
  BY AccountWritten, Writer DEF WriteAccount
<1>2. e.kind \in {"password", "deactivate"} => There(account[e.on]) /\ account[e.on] \in AccountRow
  BY <1>1 DEF Shaped, There, ConsoleInv, TypeOK
<1>3. e.kind = "password" => AccountOf(e) = [account[e.on] EXCEPT !.active = TRUE]
  BY DEF AccountOf
<1>4. e.kind = "deactivate" => AccountOf(e) = [account[e.on] EXCEPT !.active = FALSE]
  BY DEF AccountOf
<1>5. e.kind = "account" => AccountOf(e) = e.row
  BY DEF AccountOf
<1> HIDE DEF e
<1>6. /\ account'[e.on] = AccountOf(e)
      /\ \A b \in Accounts \ {e.on} : account'[b] = account[b]
  BY <1>1 DEF ConsoleInv, TypeOK
<1>7. e.kind = "password" => There(account[e.on]) /\ AccountOf(e).address = account[e.on].address
  BY <1>2, <1>3 DEF AccountRow
<1>8. e.kind = "deactivate" => ~AccountOf(e).active
  BY <1>2, <1>4 DEF AccountRow
<1> QED
  BY <1>1, <1>5, <1>6, <1>7, <1>8 DEF e

LEMMA WrittenPerson ==
  ASSUME InstallationAssumption, ConsoleInv, NEW h \in Hands, Write(h), WriteCompany(h)
  PROVE  /\ UNCHANGED account
         /\ hand[h].kind \in Joining \cup {"leave", "company"}
         /\ hand[h].kind = "company" => UNCHANGED person
         /\ hand[h].kind # "company" =>
               /\ hand[h].on \in People
               /\ \A q \in People \ {hand[h].on} : person'[q] = person[q]
         /\ hand[h].kind \in Joining => person'[hand[h].on] = hand[h].row
         /\ hand[h].kind = "leave" => ~person'[hand[h].on].active
<1> DEFINE e == hand[h]
<1>1. Shaped(e) /\ e.kind \in Joining \cup {"leave", "company"} /\ UNCHANGED account
  BY Writer DEF WriteCompany
<1>2. CASE e.kind = "company"
  BY <1>1, <1>2 DEF WriteCompany, Joining
<1>3. CASE e.kind \in Joining
  <2>1. e.on \in People
    BY <1>1, <1>3 DEF Shaped
  <2>2. person' = [person EXCEPT ![e.on] = e.row]
    BY <1>3 DEF WriteCompany, Joining
  <2> HIDE DEF e
  <2>3. person'[e.on] = e.row /\ \A q \in People \ {e.on} : person'[q] = person[q]
    BY <2>1, <2>2 DEF ConsoleInv, TypeOK
  <2> QED
    BY <1>1, <1>3, <2>1, <2>3 DEF e, Joining
<1>4. CASE e.kind = "leave"
  <2>1. /\ e.on \in People /\ person[e.on] \in PersonRow
        /\ person' = [person EXCEPT ![e.on] = [person[e.on] EXCEPT !.active = FALSE]]
    BY <1>1, <1>4 DEF WriteCompany, Shaped, ConsoleInv, TypeOK, There, Joining
  <2> HIDE DEF e
  <2>2. ~person'[e.on].active /\ \A q \in People \ {e.on} : person'[q] = person[q]
    BY <2>1 DEF ConsoleInv, TypeOK, PersonRow
  <2> QED
    BY <1>1, <1>4, <2>1, <2>2 DEF e, Joining
<1> QED
  BY <1>1, <1>2, <1>3, <1>4

\* What a request read still holds if the one that writes did not overtake it.
LEMMA WriteKeepsDecent ==
  ASSUME InstallationAssumption, AddressInv, NEW h \in Hands, Write(h),
         NEW g \in Hands, g \notin overtaken'
  PROVE  Decent(hand[g])'
<1> DEFINE e == hand[h]
           r == hand[g]
<1>1. CASE g = h
  BY <1>1, Writer, IdleShaped DEF AddressInv, Decent, Idle
<1>2. CASE g # h
  <2>1. /\ hand'[g] = r /\ Decent(r) /\ Shaped(r) /\ Shaped(e)
        /\ ~SameRow(e, r)
        /\ ForAnAccount(e) \cap ForAPerson(r) = {} /\ ForAPerson(e) \cap ForAnAccount(r) = {}
    BY <1>2, Writer DEF AddressInv, ConsoleInv, HandsShaped, Write, Overtakes
  <2>2. CASE WriteAccount(h)
    <3>1. /\ UNCHANGED person /\ \A b \in Accounts \ {e.on} : account'[b] = account[b]
          /\ account'[e.on] = AccountOf(e)
          /\ e.kind \in {"account", "password", "deactivate"}
          /\ e.kind = "deactivate" => ~AccountOf(e).active
      BY <2>2, WrittenAccount DEF AddressInv
    <3>2. ASSUME r.kind = "password" PROVE account'[r.on] = account[r.on]
      BY <2>1, <3>1, <3>2 DEF SameRow, Shaped
    <3>3. ASSUME r.kind \in {"signup", "person"}, AccountOf(e).active
          PROVE  AccountOf(e).address # r.row.address
      BY <2>1, <3>1, <3>3 DEF ForAnAccount, ForAPerson, Joining
    <3> HIDE DEF r, e
    <3> QED
      BY <2>1, <3>1, <3>2, <3>3 DEF Decent, ActiveAccount, ActivePerson
  <2>3. CASE WriteCompany(h)
    <3>1. /\ UNCHANGED account /\ e.kind \in Joining \cup {"leave", "company"}
          /\ e.kind = "company" => UNCHANGED person
          /\ e.kind # "company" => \A q \in People \ {e.on} : person'[q] = person[q]
          /\ e.kind \in Joining => person'[e.on] = e.row
          /\ e.kind = "leave" => ~person'[e.on].active
      BY <2>3, WrittenPerson DEF AddressInv
    <3>2. ASSUME r.kind \in {"signup", "person"} PROVE person'[r.on] = person[r.on]
      BY <2>1, <3>1, <3>2 DEF SameRow, Shaped, Joining
    <3>3. ASSUME r.kind = "account", e.kind \in Joining PROVE e.row.address # r.row.address
      BY <2>1, <3>3 DEF ForAnAccount, ForAPerson, AccountOf
    <3>4. ASSUME r.kind = "password", e.kind \in Joining PROVE e.row.address # account[r.on].address
      <4>1. account[r.on] \in AccountRow
        BY <2>1, <3>4 DEF Shaped, There, AddressInv, ConsoleInv, TypeOK
      <4>2. AccountOf(r).address = account[r.on].address
        BY <3>4, <4>1 DEF AccountOf, AccountRow
      <4> QED
        BY <2>1, <3>4, <4>2 DEF ForAnAccount, ForAPerson
    <3> HIDE DEF r, e
    <3> QED
      BY <2>1, <3>1, <3>2, <3>3, <3>4 DEF Decent, ActiveAccount, ActivePerson, Joining
  <2>4. CASE WriteApplication(h)
    BY <2>1, <2>4 DEF WriteApplication, Decent, ActiveAccount, ActivePerson
  <2> QED
    BY <2>2, <2>3, <2>4 DEF Write
<1> QED
  BY <1>1, <1>2

LEMMA InitAddresses == ASSUME InstallationAssumption, Init PROVE AddressInv
  BY IdleShaped, InitConsole DEF Init, AddressInv

LEMMA NextAddresses ==
  ASSUME InstallationAssumption, AddressInv, [Next]_vars
  PROVE  AddressInv'
<1>1. ConsoleInv'
  BY NextConsole DEF AddressInv
<1>2. ASSUME UNCHANGED <<account, person>>,
             \A h \in Hands \ overtaken' :
                \/ hand'[h] = hand[h] /\ h \notin overtaken
                \/ Decent(hand'[h])
      PROVE  AddressInv'
  BY <1>1, <1>2 DEF AddressInv, Decent, ActiveAccount, ActivePerson
<1>3. ASSUME NEW h \in Hands, ConsoleStep(h) \/ PeopleStep(h) \/ ApplicationStep(h)
      PROVE  AddressInv'
  <2>1. PICK r : Take(h, r) /\ Decent(r)
    BY <1>3, ConsoleTakesDecent, PeopleTakeDecent, ApplicationTakesDecent DEF TakesDecent
  <2>2. \A g \in Hands : hand'[g] = hand[g] \/ Decent(hand'[g])
    BY <2>1 DEF Take, AddressInv, ConsoleInv, HandsShaped
  <2> QED
    BY <1>2, <2>1, <2>2 DEF Take
<1>4. ASSUME NEW h \in Hands, Write(h) PROVE AddressInv'
  BY <1>1, <1>4, WriteKeepsDecent DEF AddressInv
<1>5. ASSUME NEW h \in Hands, Abort(h) PROVE AddressInv'
  <2>1. \A g \in Hands \ overtaken' : \/ hand'[g] = hand[g] /\ g \notin overtaken
                                      \/ Decent(hand'[g])
    BY <1>5, IdleShaped DEF Abort, AddressInv, ConsoleInv, HandsShaped
  <2> QED
    BY <1>2, <1>5, <2>1 DEF Abort
<1>6. ASSUME NEW c \in Credentials, Expire(c) PROVE AddressInv'
  BY <1>2, <1>6 DEF Expire
<1>7. ASSUME NEW e \in Entries, SupportStep(e) PROVE AddressInv'
  BY <1>2, <1>7, SupportSteps DEF console, AddressInv
<1>8. CASE Tick \/ UNCHANGED vars
  BY <1>2, <1>8 DEF Tick, console, vars
<1> QED
  BY <1>3, <1>4, <1>5, <1>6, <1>7, <1>8 DEF Next

\* A write by a request nobody overtook, unless it is the provider's, makes no
\* account and person meet.
LEMMA DecentMeetNobody ==
  ASSUME InstallationAssumption, AddressInv, NEW h \in Hands, Write(h),
         h \notin overtaken, hand[h].kind # "provision",
         NEW a \in Accounts, NEW p \in People, AddressesMeet(a, p)'
  PROVE  AddressesMeet(a, p)
<1> DEFINE e == hand[h]
<1>1. Decent(e)
  BY DEF AddressInv
<1>2. CASE WriteAccount(h)
  <2>1. /\ UNCHANGED person /\ \A b \in Accounts \ {e.on} : account'[b] = account[b]
        /\ account'[e.on] = AccountOf(e)
        /\ e.kind \in {"account", "password", "deactivate"}
        /\ e.kind = "account" => AccountOf(e) = e.row
        /\ e.kind = "password" => AccountOf(e).address = account[e.on].address
        /\ e.kind = "deactivate" => ~AccountOf(e).active
    BY <1>2, WrittenAccount DEF AddressInv
  <2> HIDE DEF e
  <2> QED
    BY <1>1, <2>1 DEF Decent, AddressesMeet, ActiveAccount, ActivePerson
<1>3. CASE WriteCompany(h)
  <2>1. /\ UNCHANGED account /\ e.kind \in {"signup", "person", "leave", "company"}
        /\ e.kind = "company" => UNCHANGED person
        /\ e.kind # "company" => \A q \in People \ {e.on} : person'[q] = person[q]
        /\ e.kind \in {"signup", "person"} => person'[e.on] = e.row
        /\ e.kind = "leave" => ~person'[e.on].active
    BY <1>3, WrittenPerson DEF AddressInv, Joining
  <2> HIDE DEF e
  <2> QED
    BY <1>1, <2>1 DEF Decent, AddressesMeet, ActiveAccount, ActivePerson
<1>4. CASE WriteApplication(h)
  BY <1>4 DEF WriteApplication, AddressesMeet, ActiveAccount, ActivePerson
<1> QED
  BY <1>2, <1>3, <1>4 DEF Write

LEMMA OnlyWritesMeet ==
  ASSUME InstallationAssumption, ConsoleInv, [Next]_vars, ~\E h \in Hands : Write(h)
  PROVE  UNCHANGED <<account, person>>
<1>1. ASSUME NEW h \in Hands, ConsoleStep(h) \/ PeopleStep(h) \/ ApplicationStep(h) \/ Abort(h)
      PROVE  UNCHANGED <<account, person>>
  BY <1>1, ConsoleTakes, PeopleTake, ApplicationTakes DEF TakesShaped, Take, Abort
<1>2. ASSUME NEW c \in Credentials, Expire(c) PROVE UNCHANGED <<account, person>>
  BY <1>2 DEF Expire
<1>3. ASSUME NEW e \in Entries, SupportStep(e) PROVE UNCHANGED <<account, person>>
  BY <1>3, SupportSteps DEF console
<1>4. CASE Tick \/ UNCHANGED vars
  BY <1>4 DEF Tick, console, vars
<1> QED
  BY <1>1, <1>2, <1>3, <1>4 DEF Next

-----------------------------------------------------------------------------
(* Theorems                                                                *)

\* Types, for any accounts, people, credentials and entries, and any number of
\* requests under way.
THEOREM TypeCorrect == ASSUME InstallationAssumption PROVE Spec => []TypeOK
<1>1. Init => ConsoleInv
  BY InitConsole
<1>2. ConsoleInv /\ [Next]_vars => ConsoleInv'
  BY NextConsole
<1> QED
  BY <1>1, <1>2, PTL DEF Spec, ConsoleInv

\* However often it is renewed, an entry as support leaves no token beyond its end.
THEOREM SupportEnds == ASSUME InstallationAssumption PROVE Spec => []SupportEndsOnTime
<1>1. Init => SupportInv
  BY InitSupport
<1>2. SupportInv /\ [Next]_vars => SupportInv'
  BY NextSupport
<1> QED
  BY <1>1, <1>2, PTL DEF Spec, SupportInv

\* Whoever entered as support stops being able to work there at the latest one
\* access token after their account is deactivated, whatever requests and
\* renewals were under way.
THEOREM SupportFollows == ASSUME InstallationAssumption PROVE Spec => []SupportFollowsItsAccount
<1>1. Init => SupportInv
  BY InitSupport
<1>2. SupportInv /\ [Next]_vars => SupportInv'
  BY NextSupport
<1> QED
  BY <1>1, <1>2, PTL DEF Spec, SupportInv

\* What an application had when it was withdrawn never serves again, for any
\* number of requests that overlap and stale rows they write back.
THEOREM WithdrawalIsFinal == ASSUME InstallationAssumption PROVE Spec => []WithdrawnStaysOut
<1>1. Init => ConsoleInv /\ StruckAreRevoked
  BY InitConsole DEF Init, StruckAreRevoked
<1>2. ConsoleInv /\ StruckAreRevoked /\ [Next]_vars => ConsoleInv' /\ StruckAreRevoked'
  BY NextConsole, NextStruck
<1>3. StruckAreRevoked => WithdrawnStaysOut
  BY StruckStayOut
<1> QED
  BY <1>1, <1>2, <1>3, PTL DEF Spec

\* However many requests overlap, an active account of the installation and an
\* active person come to share an address only when the provider creates the
\* person or by a request that another overtook.
THEOREM DoorsKeepAddressesApart ==
  ASSUME InstallationAssumption PROVE Spec => MeetOnlyIfProvisionedOrOvertaken
<1>1. Init => AddressInv
  BY InitAddresses
<1>2. AddressInv /\ [Next]_vars => AddressInv'
  BY NextAddresses
<1>3. AddressInv /\ [Next]_vars =>
         [\A a \in Accounts, p \in People :
             AddressesMeet(a, p)' /\ ~AddressesMeet(a, p) =>
                 \E h \in Hands :
                     Write(h) /\ (h \in overtaken \/ hand[h].kind = "provision")]_vars
  <2> SUFFICES ASSUME AddressInv, [Next]_vars, NEW a \in Accounts, NEW p \in People,
                      AddressesMeet(a, p)', ~AddressesMeet(a, p)
               PROVE  \E h \in Hands :
                          Write(h) /\ (h \in overtaken \/ hand[h].kind = "provision")
    OBVIOUS
  <2>1. PICK h \in Hands : Write(h)
    <3>1. AddressesMeet(a, p)' /\ UNCHANGED <<account, person>> => AddressesMeet(a, p)
      BY DEF AddressesMeet, ActiveAccount, ActivePerson
    <3> QED
      BY <3>1, OnlyWritesMeet DEF AddressInv
  <2> QED
    BY <2>1, DecentMeetNobody
<1> QED
  BY <1>1, <1>2, <1>3, PTL DEF Spec, MeetOnlyIfProvisionedOrOvertaken
=============================================================================
