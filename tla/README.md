# Formal models of the working-time register

This directory holds TLA+ specifications of the parts of the system on which the
value of the register rests: how an event gets into it and how it is corrected
afterwards, what is made of it, and what the rest of the company's data has to
keep true around it. They are translated from the Python code under
`src/backend/apps`; each module says which files, and `PROJECT.json` ("map")
gives the lines of every definition.

Contents: 1. the system; 2. the modules; 3. how state and actions correspond to
the code; 4. the runs; 5. the proofs; 6. disagreements and observations; 7. what
is not modelled; 8. the plan.

## 1. The system

A Django/DRF service on PostgreSQL, one database for many companies, with a web
client, integrated applications (connectors, terminals) and scheduled commands.
Every HTTP request is one transaction (`ATOMIC_REQUESTS`, isolation READ
COMMITTED). Nothing else serialises requests: several workers run at once, so
between any two queries of one request others may commit. The code defends
itself with row locks in four places only (`common/transitions.py`: `hold`,
`claim`, and two direct `select_for_update`), with unique indexes, and with
`on_commit` for what must not be said of a change that rolled back. That is why
most of the models are about transactions that interleave; the rest are about
figures read from records that go on changing.

| Component | State | Operations | What makes it correct | What is hard |
|---|---|---|---|---|
| Clocking (`punches/services.py`, `views.py`, `delegated.py`, `idempotency.py`) | `Punch`, `DelegatedPunchReceipt` | `register_punch` through two doors | one event per tap; openings and closings alternate; times somebody vouches for | lost answers and retries, double taps, two devices, queues that drain late, clocks ahead |
| Corrections (`punches/corrections.py`, `correction_views.py`) | `PunchCorrection`, `Punch.is_active/replaced_by` | request, propose, accept, dispute, apply anyway, withdraw, approve, reject | art. 4.b: agreement or a recorded disagreement; nothing lost; four eyes | the person and the company deciding at once; two corrections of one event; roles that change |
| Working days (`punches/workday.py`) | none | assign events to days | each event belongs to one day, the same for every reader | night shifts, windows |
| Overtime, rest debt, complementary hours (`punches/overtime*.py`, `rest_debt.py`, `complementary.py`, `irregular.py`) | `OvertimeDecision` | decide, account | the decision is about the figure that was true | corrections between reading and ruling; clocks that change |
| Jobs (`punches/reminders.py`, management commands) | `PunchReminder`, deletions | remind, purge | nothing goes before its time, seals hold; nudges are true | a correction opened during a purge; two runs at once |
| Absences (`absences/`) | `Absence`, `RecoveredHoliday`, documents | request, record, approve, reject, cancel, confirm recovery | nobody is away twice; days trodden on are given back once | two approvals at once; a document dropped before a commit that fails |
| Rosters and notices (`shifts/`) | `Shift`, `PendingShiftChange`, `ShiftNotice` | paint, add, change, move, remove, publish, deliver, read | whoever's roster changed is told what changed, once | edits during publication, marks that arrive twice |
| The review of a roster (`shifts/services.py`, `coverage.py`) | none | findings of a window; who can cover | it says of a week the same whatever window it is asked about | weeks that straddle windows, the night of an hour less |
| Users (`users/`) | `User`, sessions, `Department`, assignments, papers | roles, leaving, coming back, erasing, moving | never without an administrator; a leaver's sessions end; the past is not rewritten | stale whole-row saves; two administrators at once |
| Companies and integrations (`tenants/`) | `Tenant`, `WorkingTimeRules`, `ComputationRuleChange`, `Application`, SSO | configuration, provisioning, support, sign-in | dated rules do not rewrite the past; credentials and entries end | doors into one set of addresses |
| Audit (`audit/`) | `AuditLog`, append only by trigger | `record` | says only what was committed | |
| Reports, notifications, legal tables, help, web client | derived or static | | | |

Interactions: clocking and corrections both write `Punch`, under different locks
(the person; the correction's row). Corrections, absences, recoveries and
overtime share `common/four_eyes.py` and, except overtime, `claim`. Clocking
asks absences whether leave blocks the day. Everything asks `users` for roles
and `tenants` for rules, without locks. The review reads rosters, absences,
contracts, papers and punches and writes nothing.

## 2. The modules

| Module | What it is | Run from | Proofs |
|---|---|---|---|
| `RecordChange` | abstract: the steps a change to the register may go through under art. 4.b | | |
| `Corrections` | the correction procedure as requests, locks and rows; implements `RecordChange` | `MCCorrections` | `CorrectionsProofs` |
| `PunchRecord` | abstract: an append-only register in which a tap leaves at most one event | | |
| `Punching` | `register_punch`, its two doors and the receipts, as calls and locks; implements `PunchRecord` | `MCPunching` | `PunchingProofs` |
| `LeaveBook` | abstract: each leave is settled once, each note of eaten holiday once | | |
| `Absences` | the leave procedure as requests, locks, rows and documents; implements `LeaveBook` | `MCAbsences` | `TimeProofs` |
| `RosterTelling` | abstract: who was told what of each day | | |
| `Rosters` | editing, queueing, publishing, delivering; implements `RosterTelling` | `MCRosters` | `RostersProofs` |
| `Accounts` | people, passwords, sessions and the edits of people | `MCAccounts` | `AccountsProofs` |
| `Installation` | the console, support entries, credentials, and the addresses all doors share | `MCInstallation` | `InstallationProofs` |
| `Retention` | the purge, the seals of the events, erasure | `MCJobs` | `RetentionProofs` |
| `Reminders` | two overlapping runs of the reminders | `MCJobs` | |
| `Dated` | what is kept by the day: the days, and the two values that stand for none | through the two that follow | |
| `Placements` | departments, workplaces, their history, and who reads whom | `MCCompany` | `CompanyProofs` |
| `DatedRules` | the rules and the days their changes apply from | `MCFigures` | `CompanyProofs` |
| `Situations` | contracts, reliefs, reductions, petitions, agreements and the findings about them | `MCCompany` | `CompanyProofs` |
| `WorkingDay` | pure: which day an event belongs to, and the four readers of a day | through `Hours`, `Reminders` | `TimeProofs` |
| `Hours` | one person's register growing and being corrected, and the rulings on its excess | `MCFigures` | `TimeProofs` |
| `ShiftHours`, `WorkedHours` | pure: hours of shifts, of spans and of nights; the accounts of rest debt and complementary hours | through `RosterReview` | |
| `RosterReview` | the roster of a person, the findings about it, and who can cover a shift | `MCFigures` | `TimeProofs` |
| `LeaveBalance` | what each leave costs and what remains | `MCFigures` | `TimeProofs` |

`MCCorrections`, `MCPunching`, `MCAbsences`, `MCRosters`, `MCAccounts` and
`MCInstallation` give one specification small constants. `MCJobs`, `MCCompany` and
`MCFigures` look at several components that share no variable in one run: one of
them moves while the others rest in their first state (`MCNext` has one disjunct
per component, guarded by the `Init` of the others), so TLC visits the behaviours
of each, side by side and never multiplied. The module that holds the
proofs extends the component itself, and so does the module TLC runs where there
are theorems (`MCFigures` and `MCCompany` extend all of theirs, `MCJobs` extends
`Retention` and instances `Reminders`):
what is proved is what is checked. Components that are extended side by side name
apart what they would share: `RulesSpec`, `BalanceSpec`, `HoursSpec` and `ReviewSpec`,
`RulesTypeOK` and `BalanceTypeOK`, `Days` of `DatedRules` and `Dates` of `RosterReview`,
`Hands` of `Placements` and `Requests` of `Situations`. The assumptions of an instanced component
are stated in the MC module and evaluated there.

Definitions preceded by a comment that starts with MUTANT are variants of the
definition that follows, with a plausible bug in it. They are used by nothing:
substituting one shows that the property named in `PROJECT.json` notices.

## 3. State, actions and code

What is common to the models of requests: a request is a record with the stage
its transaction has reached; what it read is kept in it until it writes; its last
action writes everything, since nobody sees it before the commit; a refusal or a
crash drops it. A row lock is a variable, or a stage that others wait for.

### Corrections

A decision is a request `r`, with the stages of its transaction in `req[r].pc`:

| Stage | What has run |
|---|---|
| `sent` | authentication, permission class and `get_object()` (`Start`) |
| `held` | `claim` / `_reclamar_pendiente`: the row is locked, its status and what depends on it checked (`Claim`) |
| `looked` | `correction.target.is_active` read, without a lock (`LookAtTarget`) |
| `decided` | `refuse_self_decision`, which reads the staff without a lock (`RefuseSelfDecision`) |
| `done`, `refused`, `lost` | commit, business error with rollback, worker gone |

`ApproveCorrection` is the tail of `approve_correction` with `_create` and `_void`;
accepting and applying anyway go through the same steps because the code calls
`approve_correction`, and their intermediate `PENDING` is never visible. `asked` is
what `request_correction` stores and nothing changes afterwards; `answer` are the
columns of the person's side; `outcome` those of the company's; the mark
`_note_alone` leaves in the note is `outcome.alone`. A substitute event is named by
the request that created it, so that two substitutes of one event are different
rows. `Change` writes `void` and `next` whatever the event's state is by then: the
code writes from the copy read in `LookAtTarget`.

The four ways in which people can read records (`common/scope.py`) are the
constant `Reach`; departments do not change during a behaviour. `SetRole`
changes any role at any moment. It is freer than the code, which refuses to
leave a company without an administrator, because that check reads other rows
without locking them; properties that need an administrator say so. The labour
advisor can read and not decide, and appears in none of these paths.

Days are the unit of time: the only clock the procedure reads is the answer
window.

### Punching

One person. A tap is what the person did; a call is one request that carries it;
`Keyless` taps are those of the web page, which has no queue and sends no
`Idempotency-Key`. The stages of a call are `sent`, `unclaimed` (no receipt was
found), `claimed` (the receipt is inserted, not committed: `claimed[t]` is the
unique index entry that makes a rival wait), `held` (the person's row is
locked), `inferred` and the ends. `LookUp`, `Claim`, `HoldPerson`, `Infer` and
`Commit` are `already_recorded`, `claim`, `hold`, the body of `register_punch`
up to the type, and its end with `settle`. The type is inferred at one reading
of the clock and the time of arrival is another, so time may pass between
`Infer` and `Commit`. Refusals that depend on other components (no such person,
inactive, leave, overtime rules) are the nondeterministic `TurnAway`. An answer
may be lost at any time, and the client may send the tap again even while the
first call runs: `Send` has no other guard.

`LastOpen` is a set: `order_by("timestamp").last()` among equal timestamps may
return any of them. `pressed[t] + Ahead[t]` is `declared_at`. Device clocks that
run behind are not modelled: such a punch only looks older.

One unit of time stands for whatever the constants are compared with;
`MaxOpen`, `DoubleTap`, `Skew` and `Grace` are in that unit and take small
values that keep the order of magnitude between them where a run depends on it.

### Absences

`leave`, `status`, `judge` and `back` are the columns of `Absence` and
`RecoveredHoliday` the procedure decides on; `paper` and `store` are the two sides of a
supporting document, the path in the row and the file in the store, which no
transaction covers. Filing is `StartFiling`, `HoldPerson` (`hold(person)`), `CheckClash`
(`_overlapping`, of whose rows only the first one, the latest to start, is judged:
`LatestOf`), `StoreDocument` and `File`, which for what the company records also grants it
(`RecordedByCompany`). Deciding is `Start`, `Claim`, `CheckGrant` (the re-check of what has
been granted since, without the times of day: `WholeDay`) and `Approve`, `Reject` or
`Cancel`; a grant notes the holiday eaten (`Note`, `detect_recoveries`). A note is settled by
`SettleRecovery`. `Sweep` is the `on_commit` that deletes the file; a crash may come
before it.

### Rosters

`shift` is the row of each day; `pending` the queue of changes to tell; `notices` the
notices with their four marks; `held` and `queued` the rows or unique keys a transaction has
written and others wait for. An edit is `Photograph` (`avisando`), `Aim` (the rows a
`DELETE` sees when it begins), `Write` (refused by the unique key or by a row that is
gone), `LookUp` (photograph again, keep what differs, find the queue's rows), `Note`
(`anotar`, which fails when the row it found has been published meanwhile) and `Commit`. A run of the job and a page are the same steps (`Load`, `LockRows`,
`PhotographNow`, `Publish`, `Finish`, `Send`) with another wait. `told` and `left` are
history: what each person was last told, and who has ever been deactivated.

### Accounts

A request is used once, and its own name stands for what it leaves: the password
it set, the instant it signed somebody in, the session it issued. `SignIn` and
`Issue`, `Renew` and `Rotate` are the two halves of a sign-in and of a renewal;
`StartEdit`, `Save`, `Revoke` and `Commit` those of an edit of a person, whose `copy` is
the whole row it will write back. `Save` takes the row and it is released at the
commit. `Revoke` lists the sessions on record (`revoke_sessions`); `knew` is history:
the revocations each session may outlive because its sign-in or renewal was
under way. `undercut` is history too: the edits under way of which another one that
committed made a reading untrue, their own row or an administrator they had seen
(`refuse_if_it_leaves_no_admin` looks without locking). Any number of edits overlap.

### Installation

`account` and `person` are the two kinds of users (without and with a company),
`company`, `app` and `cred` the company's switch, its application and its credentials,
`entry` the sessions of those who entered as support. A hand holds one request
between what it reads and its `Write`, and as many overlap as there are hands. The
sign-in provider's door (`ProvisionPerson`, `sso.py`) puts a person's address in without
looking at the accounts; the others look without locking. `overtaken` is history: the
requests under way of which another, that wrote, changed the row or used the address on
the other side. `Tick` ages tokens and entries, and waits for a renewal under way.

### Retention and Reminders

`event` has, of each punch, what its seal covers (`version`, `zone`, `recorder`,
`metadata`) and the day the purge looks at. A run of the purge is `LookAtCompany` (the
period, the cut, the ids held by open requests and the count, all before the
transaction), `DropRequests` and `DropEvents` (its two deletions) and `Note` (the trail, after the
commit); `Refused` is Django's `ProtectedError`. Requests, `Declare`, `Move`, `AskToErase` and
`Erase` run in between. `Sealed` says what each version of the hash pins down of what may
change afterwards, and `VerifyHash` reads it again. In `Reminders` a run reads everything it owes
(`Look`), claims a row of `PunchReminder` (`Claim`) and delivers (`Deliver`); taps and the
switch of the person's preference come in between.

### Placements and Situations

The unit of a person is a column; the signal that follows each save writes the
history in the same transaction, so `SaveFile` is one step and `ReadFile` another: what is
written back is what was read. `SetMembers`, `SetManagers`, the deletions of departments and
workplaces, `Backfill` (the command that gives the undated a department history) and `NextDay` complete
the module. `was` is what nobody stores: where
everybody was at the end of each day; the properties compare the history with it.
`bare` are those who were ever left without a workplace, which the code shows and
the history cannot: an absence of spans is read as "the current one".

`Situations` has the papers of each person and the functions of the review that read
them; each is a set of findings for a window, a person and who asks.

### DatedRules, Hours, RosterReview, LeaveBalance

`DatedRules`: an edit `Load`s the row, and `Save`s the whole of it, declaring a change from a
day when asked (`_declare`, which anchors the past the first time); `ApplyFile` is the
file of an agreement.
`Hours`: `Tap`, `Amend` and `Redraw` change the register and the roster; a ruling reads the figure
(`ReadFigure`) and writes it (`Rule`). The readers are in `WorkingDay`, as folds
over the events in order: the screen, the document, the comparison and the overtime queue.
`RosterReview`: the roster is drawn day by day, then the days are lived as they were
drawn; the findings are functions of roster and window.
`LeaveBalance`: each request is one step (how they overlap is `Absences`); every
figure is counted when it is asked for, except the days a sick leave ate, which are
noted. `Request` looks at the first leave it clashes with and at no other (`.first()`),
`Grant` at every one granted and as whole days, whatever their hours.

## 4. The runs

All bounds are constants of the configuration files, or (`jobs`) of the `INSTANCE` in
the MC module. `CHECK_DEADLOCK FALSE` everywhere: requests, edits and days of a behaviour are
finite in number and, once they are spent and the calendar is at its bound, nothing
is left to do; the system does stop there.

| Run | Question | Bounds, and why they are enough | States |
|---|---|---|---|
| `corrections_consent` | What do a correction and its event say after any race between the person, the company and the calendar, with managers leaving and returning? | 1 correction of the administrator's own event, 2 requests, 3 people, a window of one day. The administrator as subject is the case the four-eyes rule is for; every race but the one of `corrections_twice` is between two requests and one row. | 69,024 |
| `corrections_twice` | Can two corrections of one event both be applied? | 2 corrections, 2 requests, 1 event. Expected: yes, see 6. | |
| `punching_online` | Do retries, double taps and two doors leave a readable day? | 3 taps (one-tap, break, web), 4 calls, 5 instants, `MaxOpen` 2. A retry needs two calls of one tap, plus the taps it could disturb. Five calls give the same answers (1.6 million states). | 133,942 |
| `punching_offline` | What time does a queued tap count by, do the calls implement the register, does every call end? | 2 queued taps, a device ahead within the skew and one beyond it, 3 calls, 3 instants. | 92,679 |
| `absences` | Is anybody away twice, do eaten days come back once, do documents stand? | 3 rows, 2 requests, 4 days of 3 hours, an administrator who also asks. Three leaves are needed for two to tread on one holiday; each row has the forms that make its clash. | 127,290 |
| `rosters` | Is anybody left untold, and is each notice true? | 2 people, 1 day, 1 editor, a job and a page, 2 edits, 1 mishap. A reassignment needs two people; a publication during an edit, one editor and two publishers. | 96,443 |
| `accounts` | What outlives a revocation, and does an administrator remain? | 2 people, 4 requests of which one signed the company up: all of them may overlap. Two edits that cross, and one for what they build on; a sign-in or a renewal under way while a revocation lists what to close, and what it lives on by. | 618,618 |
| `installation` | Do the doors keep addresses apart, and do entries as support end? | 2 accounts, 2 people, 2 addresses, 1 credential, 1 entry of two access lives, 2 requests. A constraint of the run (`OverlapBound`) keeps an entry as support and the application apart, which read nothing of each other, and lets two requests overlap when both are about accounts and people, while nobody is in as support and no account has been inactive for a while; the theorems have no such bound. | 172,496 |
| `jobs` | What do the nightly jobs delete, break and say? | 3 events of three seals and two clocks, 1 request, 1 manager, 4 days of one per year, one of them after a leap day; and two runs of the reminders over nine ticks with a night shift. | 1,189,381 |
| `company` | Does the history stay true, and does the review of the papers say the same to everybody? | 2 people, 2 departments, 2 workplaces, 4 days, 3 edits by two hands; and weeks of two days, months of four and years of eight, 2 people, 3 edits. Three edits: two that cross and one for them to have something to spoil. | 333,463 |
| `review_alone` | Does one's own review say more than the company's? | As `company`. Expected: yes, see 6. | |
| `figures` | Are rules, hours, findings and balances the same for whoever asks and whenever? | 2 edits over 2 days; 4 events over a day and a third, of six ticks a day, with one correction and one ruling; rosters of 4 drawn days in weeks of three for 5 contracts, with the night of an hour less; 3 leaves over two leave years. | 248,685 |

Properties, in the terms of the code:

*Register.*
- `EveryChangeHasItsPaper`: no substitute without exactly one applied correction
  about its owner, no void event without one that asked to change it or to void it,
  no applied correction without its effect: what it asked for is there, and what it
  asked to retire is void. A request to add may name an event too, which must be in
  force when it is approved and is left in force. Breaks if the row is read without `FOR UPDATE`.
- `RecordSaysOneThing`: a correction never says both that there was agreement and
  that there was not; imposed means with an account and with the
  representatives told. Breaks if the status of the loaded object is trusted.
- `SomebodyCanAlwaysDecide`: with an administrator, no open correction is stuck
  between "you may not" and "there is nobody else".
- `ImplementsRecordChange`: the window, the objection and the agreement are the only
  ways to change somebody's record.
- `OneEventPerTap`, `OpeningsAlternate`: idempotency, and what a reader of the day
  needs; each depends on reading after locking the person.
- `TimeIsVouchedFor`: `_accepted_time` under delays and clocks ahead.
- `ImplementsRegister`: one event per tap, appended in one go, its type following from the
  record as it stood at a moment after which nothing was written.
- `EveryDecisionEnds`, `EveryCallEnds`: progress, below.
- `EventBelongsToOneDay`, `ReportAgreesWithScreen`, `NoExcessIsSilent`: what the screen,
  the document and the overtime queue make of a register that is being corrected. A
  register with two entries in a row (`TwoEntriesInARow`), which only a correction
  makes, is left out; see 6.

*Leave and rosters.*
- `LiveLeavesDoNotClash`, `HolidayDaysReturnOnce`, `NoRowWithoutItsDocument`,
  `ImplementsLeaveBook`.
- `HolidayChargedIsHolidayEnjoyed`: the balance of a year is the days really enjoyed,
  however grants and recoveries are ordered. `NobodyOverrunsUnwarned`: a sum over the
  limit was warned of by the request that passed it.
- `NobodyIsLeftUntold`: a change of the roster is in the queue or in a notice.
  `ImplementsTelling`: each notice goes from what its person was last told to what
  holds. `EveryChangeIsSettled`: the queue empties.
- `MonthByMonthSaysTheSame`, `WarningsAreTrue`, `PlanAndRecordAgree`: the review does
  not depend on the window, its rest is real time also on the night of the change, and who
  keeps to the roster is told of the record what was told of the plan.

*People and company.*
- `SessionsEndWhenRevoked`: a session outlives a revocation only from a sign-in or a
  renewal that was under way.
- `OnlyUndercutEditsLeaveNobody`: of all that can happen to the people of a company,
  only the commit of an edit that another undercut takes its last administrator away.
  Breaks if demoting stops looking. That such edits exist is a fact of the code, see 6.
- `NobodyIsMissingFromTheReport`, `ClosedDaysKeepTheirHolidays`: a later move does not
  rewrite an earlier day.
- `NobodyIsToldLess`, `ExcessIsSaidMonthByMonth`: a person who asks alone, or month by
  month, is not spared a finding.
- `OutsideTheLawIsSaid`, `ClosedDaysStand`: figures below the law are told of when saved, and
  declaring a change leaves earlier days as they were counted.
- `MeetOnlyIfProvisionedOrOvertaken`: whatever doors an address comes in by, an account and
  a person who share it were put together by the provider or by two requests that crossed.
- `SupportFollowsItsAccount`.
- `SealsHold`, `NothingGoesEarly`, `NudgesAreTrue`.

Some properties the modules define are checked by no run of their own, because a theorem
covers them (section 5: `TypeOK` of the proved modules, `SelfDecidedIsMarked`,
`PreviousVersionStays`, `ResolvedIsFinal`, `AnswersAgree`, `SupportEndsOnTime`,
`WithdrawnStaysOut`, `TrailCountsWhatWent`, `OpenRequestsKeepTheirEvent`,
`HistoryFollowsTheFile`, `LosingADepartmentNarrows`, `ReturnTapEndsTheBreak`,
`ProofStands`), or because they are worth keeping beside
the others to be run when their component changes; TLC agrees with these today, under the
same bounds: `ScreenFollowsTheWork`,
`BrokenContractsLoseNothing`, `CoveringAddsNoWarning`, `AnswersAreReasoned`, `RemindedOnce`.
The others state what the code does not keep, and are told in section 6.

Fairness: weak fairness of each request's own steps. A request the server has
taken runs on; PostgreSQL queues those who wait for a row or for an index entry,
and every transaction ends. A step that waits is continuously enabled only once
the lock is free; since requests are finite in number and each holds the lock
through a bounded number of its own steps, weak fairness is enough and strong is
not assumed. Nothing is assumed of clients, crashes, roles or the calendar.
`Rosters` also assumes that the job is run again (cron or celery-beat, `WF` of
`RunJob`) and that the clock goes on.

## 5. The proofs

TLAPS checks, for every value of the constants that meets the assumptions named:

| Module | Theorem | States |
|---|---|---|
| `CorrectionsProofs` | `TypeCorrect` | `Spec => []TypeOK` |
| | `ConsentIsUnambiguous` | `Spec => []RecordSaysOneThing` |
| | `SelfDecisionsAreMarked` | `Spec => []SelfDecidedIsMarked` |
| | `NoDeadEnd` | `Spec => []SomebodyCanAlwaysDecide` |
| | `ResolvedStays` | `Spec => ResolvedIsFinal` |
| | `ProcedureImplementsLaw` | `Spec => ImplementsRecordChange` |
| | `PapersMatchTheRecord` | `Spec => []EveryChangeHasItsPaper` |
| | `VersionsStay` | `Spec => PreviousVersionStays` |
| `PunchingProofs` | `TypeCorrect` | `Spec => []TypeOK` |
| | `EachTapOnce` | `Spec => []OneEventPerTap` |
| | `AnswersAreOne` | `Spec => []AnswersAgree` |
| | `TimesAreVouched` | `Spec => []TimeIsVouchedFor` |
| | `DaysAreReadable` | `OnTheSpot` implies `Spec => []OpeningsAlternate` |
| | `BreaksEndFirst` | `OnTheSpot` implies `Spec => []ReturnTapEndsTheBreak` |
| | `CallsImplementRegister` | `Spec => ImplementsRegister` |
| `TimeProofs` | `TypeCorrect` | `Spec => []TypeOK` |
| | `DocumentsStand` | `Spec => []NoRowWithoutItsDocument` |
| | `ProcedureKeepsTheBook` | `Spec => ImplementsLeaveBook` |
| | `NobodyIsAwayTwice` | `NothingHidesBehindHoliday` implies `Spec => []LiveLeavesDoNotClash` |
| | `HolidayComesBackOnce` | with `RecoveringTakesWholeDays` too, `Spec => []HolidayDaysReturnOnce` |
| | `BalanceTypeCorrect` | `BalanceSpec => []BalanceTypeOK` |
| | `OverrunsAreSeen` | `BalanceSpec => []NobodyOverrunsUnwarned` |
| | `HolidayIsChargedOnce` | `HolidayGivesNothingBack` implies `BalanceSpec => []HolidayChargedIsHolidayEnjoyed` |
| | `HoursTypeCorrect` | `HoursSpec => []HoursTypeOK` |
| | `EventsBelongToOneDay` | `OpenAtMostADay` implies `HoursSpec => []EventBelongsToOneDay` |
| | `ReportAgrees` | `HoursSpec => []ReportAgreesWithScreen` |
| | `NoExcessGoesSilent` | `OpenAtMostADay` implies `HoursSpec => []NoExcessIsSilent` |
| | `NothingFallsInTheCrack` | `ADayOffIsARest` implies `ReviewSpec => []MonthByMonthSaysTheSame` |
| `RostersProofs` | `TypeCorrect` | `Spec => []TypeOK` |
| | `NobodyWaitsInVain` | `Spec /\ []EditsApart => []NobodyIsLeftUntold` |
| | `NoticesKeepThePromise` | `Spec /\ []EditsApart => ImplementsTelling` |
| | `MarksAreWrittenOnce` | `Spec => ProofStands` |
| `AccountsProofs` | `TypeCorrect` | `Spec => []TypeOK` |
| | `RevocationEndsSessions` | `Spec => []SessionsEndWhenRevoked` |
| | `AdministrationSurvives` | `Spec => OnlyUndercutEditsLeaveNobody` |
| `RetentionProofs` | `TypeCorrect` | `Spec => []TypeOK` |
| | `NothingElseBreaksASeal` | `Spec => []SealsHold` |
| | `NothingGoesBeforeItsTime` | `Spec => NothingGoesEarly` |
| | `OpenRequestsStay` | `Spec => OpenRequestsKeepTheirEvent` |
| | `TheTrailCounts` | `Spec => []TrailCountsWhatWent` |
| `InstallationProofs` | `TypeCorrect` | `Spec => []TypeOK` |
| | `SupportEnds` | `Spec => []SupportEndsOnTime` |
| | `SupportFollows` | `Spec => []SupportFollowsItsAccount` |
| | `WithdrawalIsFinal` | `Spec => []WithdrawnStaysOut` |
| | `DoorsKeepAddressesApart` | `Spec => MeetOnlyIfProvisionedOrOvertaken` |
| `CompanyProofs` | `RulesTypeCorrect` | `RulesSpec => []RulesTypeOK` |
| | `NoFigureGoesUntold` | `RulesSpec => []OutsideTheLawIsSaid` |
| | `ClosedDaysAreSafe` | `RulesSpec => ClosedDaysStand` |
| | `TypeCorrect` | `Spec => []TypeOK` (of `Placements`) |
| | `TheHistoryFollows` | `Spec => []HistoryFollowsTheFile` |
| | `TheReportHasEverybody` | `Spec => []NobodyIsMissingFromTheReport` |
| | `HolidaysStayClosed` | `Spec => []ClosedDaysKeepTheirHolidays` |
| | `LosingNarrows` | `Spec => LosingADepartmentNarrows` |
| | `SituationsTypeCorrect` | `SituationsSpec => []SituationsTypeOK` |
| | `NobodyIsToldLessAlone` | `SituationsSpec => []NobodyIsToldLess` |
| | `ExcessIsSaid` | `SituationsSpec => []ExcessIsSaidMonthByMonth` |

The assumptions are those of each module: distinct identifiers, constants of the
right kind, the values that stand for nothing outside the others. Some theorems
have one more, which the code does not enforce. Each is met by the run that checks
the property; without it the property is false, and section 6 says how. The theorem
says that this is the only reason.

| Hypothesis | Of | What it says |
|---|---|---|
| `EditsApart` | `Rosters` | no two edits under way are about the same day of the same person; it is a condition on behaviours (`[]EditsApart`), any number of editors may work at once |
| `OnTheSpot` | `Punching` | every event counts by its arrival: no taps are queued, or queued ones are given no grace |
| `NothingHidesBehindHoliday` | `Absences` | among the forms, what clashes with a holiday that starts no later than another leave it stands with clashes with nothing but holidays it may tread on |
| `RecoveringTakesWholeDays` | `Absences` | what gives holiday back is taken in whole days, and is not holiday itself |
| `HolidayGivesNothingBack` | `LeaveBalance` | no holiday gives holiday back; so it is in the catalogue of the law (`legal/es.py`), but a company may change the family of its own copy (`absences/views.py:176`) |
| `OpenAtMostADay` | `Hours` | a working day may stay open a day at most (`MaxOpen <= DayLength`); the default is 16 hours, and the code sets no upper bound |
| `ADayOffIsARest` | `RosterReview` | two shifts with a whole day between them are the daily rest apart, as they are under the twelve hours of the law unless a shift ends late the day after it began; the code bounds neither a shift nor the rest a company asks for |

How each argument goes:

**Corrections.** The inductive invariant `IInv` is `TypeOK` with two halves. The
properties alone are not inductive, because a request acts at `decided` on what
it saw at `held`. `Holding` says what still connects the two: whoever is between
claiming and committing holds the lock, is alone with it, and finds the status
its operation starts from, the subject it is entitled to answer for and the
window that was over. `Filed` says that an open correction has the status its
author and subject gave it, which is what makes approval without agreement
possible only for requests of the person. `Undisturbed` says that an undecided
correction has nothing on the company's side. The step lemmas go action by
action; `HoldingKept` and `RefusedIInv` carry the cases in which a transaction
ends, and the refinement adds one lemma per step over the same invariant.
`PaperInv` adds `Backed` for the papers: a request writes its event only when it
commits, so the substitute it is about to write has nobody's paper yet; a
correction names an event that exists, and one that changes or voids does name one;
and a result is the event of a request that applied the correction. `EveryChangeHasItsPaper` needs no more, and holds also where
two corrections of one event are both applied: each has its own substitute.

**Punching.** `IInv` rests on two locks. `Keys` says that the
call that reserved a key in the unique index is its only owner, and that a
reserved key has no receipt yet; with `Paperwork`, which ties events, receipts and
answers to each other, the owner of a key writes the first event of its tap
(`FirstOfItsTap`). `Reading` says that a call that has read the record holds the
person, so nothing is written between the inference of a type and the commit: the
type still follows from the record as it stood at `settled`, which is the witness
the abstract `Record` asks for. `DayInv` is for the order of the events: who has
inferred a type has also checked that the last tap is not too recent, and for the
one-tap that no break is open (`Checked`), and no two events of one interval are at
one time (`OneAtATime`). When events count by their arrival, the new one comes after
all others of its interval, and its type is the other one of the last of them; that a
non-empty set of times has a last is `LeastNatural`, below.

**Absences.** `IInv` is `TypeOK`, the shape of each request (`AllShaped`), that two
requests never file the same row (`OneFiling`), that whoever claimed a row holds it and
finds it open (`ClaimsHold`), and the property about documents, which is inductive
beside them: the document goes to the store before the row points at it, and leaves it
after the row has stopped. For the refinement, `Grant` of the book finds its
notes in those the step made, all of granted holiday. `AloneInv` is for the clashes:
whoever is filing and has looked still holds the person, and all that is live of that
person may stand beside what it files (`FilesAlone`), though it judged only the first of
the clashes. That is where `NothingHidesBehindHoliday` comes in: what the first one
allows, it allows of those that would come after it. Days return once because two
leaves that eat the same day of holiday would be two leaves of one person that
clash.

**LeaveBalance.** Its figures are sums over sets of rows. The sum of the community modules is a
recursive function, `CHOOSE`n to satisfy its equation; the proof that there is one
(`SumTakesApart`) takes a least subset for which there would be none, in the order of
strict inclusion, and so do the facts the sums are used through: a sum over more, or of
more, is no less (`SumGrows`), and the sum of the sizes of sets that do not meet is the size of
all of them (`SumOfSizes`). `RightInv` (`WithinTheRight`): the leaves that stand for a
right without a warning never pass it together. What is shown is counted with all that
stand at that moment, so each reading of the queue that leaves one of them without a warning
has counted them all; afterwards they only become fewer, since what is asked for
later has not been shown. `EnjoyedInv`: granted leaves are apart, except what may tread on
holiday; a note is of the days a granted leave and a granted holiday have in common
(`NotesStand`), and one of each pair (`NotesDiffer`). The cost of a year is then the size
of one set of days, what comes back the size of a subset of it, and what is left is their
difference.

**Hours.** The readers are two loops over the events in order, folds that the provers see
only as a `CHOOSE`n function; `NextTurn` shows, as for the sums, that such a function exists and
that reading one event more is one turn more. That the order exists is counting: the events
before an event are fewer than all, no two events have as many before them, so each place
from the first to the last is somebody's (`EveryPlaceIsTaken`). From there the induction is over
the first `k` events, by the least `k` at which it would fail. What the loop of
`assign_workdays` carries after `k` events is, for any moment before the next one, the entry open at it
(`DaysSoFar`): recent, with no exit since (`Opens`), and the only such one when no two entries
follow each other (`OneOpening`). So the day of an event is a property of the register and not of
the loop (`DayIn`), and a window gives a day the events the whole register gives it as soon as
it leaves `MaxOpen` on each side (`TheWindowIsEnough`): an event whose entry is cut off would be
of the day it falls on, and then the entry is not cut off. The screen leaves exactly that much, the document
a day more, and the queue a day, which is where `OpenAtMostADay` comes in. The loop of
the hours keeps what it has counted within the time gone by (`Fits`), which is what makes the figure of a
ruling one. The invariant of the behaviours, `HoursInv`, is small: no two events at one moment, none of a moment to
come, and a request that rules has read an excess; the properties are about any register, not
about how it came to be.

**Roster review.** The invariant, `RosterInv`, says only that the roster has shifts of `Patterns`
on days of `Dates`: the property is about any roster. A window reads up to the ends of the weeks it
opens and closes in, and at least a day on each side, so what it reads is what its two halves
read (`HalvesReadItAll`). From there each reader has its reason. A reader of one day says
the same in any window that holds the day (`DaysByHalves`), and a window its days one by one. The
rest before a shift is counted from the shift before it, which a narrower window may not have read:
one that opens on a Monday or a Tuesday reads a single day back. It has then read the eve, so the shift it
misses has a whole day in between, and `ADayOffIsARest` says nobody lacks rest after that
(`RestInANarrowWindow`). A week that meets a window is read whole (`WeekIsRead`) and is told by its
Monday (`OneMonday`), so its hours are the same for each window it meets. What it is measured
against is not: the contract of a window has the reductions that meet window and week. A reduction,
a week and a window that meet two by two have a day in common, which is of one of the two
halves; so a week is over in a window when, and only when, it is over in a half (`WeekByHalves`).

**Rosters.** `TInv` is `TypeOK` with what keeps new keys new: a request or a run has seen at
most one key of each day (`SoundEdit`, `SoundRun`), so that the keys in use are fewer
than there are. `KInv` says what each transaction knows: keys are unique; who has left is
not told; a request that has locked its rows finds them as it saw them (`EditKnows`), and so does a
run the rows of the queue it took (`RunKnows`); and each day that matters is as its person was
last told, or in the queue with what they were told as "before", or about to be put there by a
request under way (`ToldOrWaiting`). The photograph a request takes before locking is
only as good as `EditsApart` makes it. The refinement takes one lemma per step over the same
invariant: a commit changes what holds, a publication tells it.

**Accounts.** `Sound` says that what a request has read is there while it is under way;
`Survives`, that every revocation a usable session has outlived is in `knew` of it, that
is, was passing by while the session was being made; `Carries`, that a renewal takes over what
the session it renews knew. A revocation that commits has closed all it listed, and what it
did not list was unissued. `AdminInv` adds `ReadingsHold`: what an edit under way read (its
copy, and that somebody else administers if it takes one away) is still so unless it is in
`undercut`. A commit keeps it because whatever it makes untrue it undercuts
(`CommitKeepsReadings`), and an edit whose readings hold leaves somebody (`TrueEditKeepsAdmin`).

**Retention.** `SealInv`: events with the first seal keep their metadata; and who records
nothing, because they are being erased or have been, records only events the invariant
names as late. `PurgeInv`: the cut of a run is before the floor and before the years
it read (`CutIsLawful`, which survives a change of the period because today never goes
back); as long as nothing reached the register while it ran, its held events cover every
open request (`HoldsOpen`), the requests it drops were not held (`DropsUnheld`) and what it
counted is what it deletes (`CountStands`).

**Installation.** `ConsoleInv` is the shape of what each hand holds and that a credential
being given belongs to one hand. `SupportInv`: an active account has not been idle, and
neither has one whose entry is being renewed, so what is left of an access token is
bounded by how long the account has been idle. `StruckAreRevoked` is inductive because only
a fresh row is brought to life. `AddressInv` says that what a hand that has not been
overtaken is about to write is decent (`Decent`), door by door: nobody active has the
address on the other side, or the row had it already. A write that does not overtake a
hand changes nothing its `Decent` speaks of, and a decent write makes nobody meet.

**Dated rules.** `ToldInv`: what a copy held that was below the floor had been told, or
belongs to the agreement. `CountInv`: the first declaration anchors the past
(`PastIsAnchored`), and until then every copy counts like the row (`CopiesCountAlike`). A day is counted by the last change at or
before it; that a set of days has a last one is induction, which the provers reach through the
first-order form of the least element: the intervals `0 .. x` are well ordered by strict
inclusion (`LeastNatural`, from `WFMin` and `FS_StrictSubsetOrderingWellFounded`).

**Placements.** `HistoryInv`, per person and axis: the history is one (spans do not overlap
nor run ahead of today) and ends in the unit of the file (`Told`); each day gone by is in it,
unless its unit was deleted (`Covered`); who has no workplace is among the bare; and each past
day is covered once for who never was (`OnlyThere`). `Closing`, `Remembering` and
`Losing` say what the operators on histories preserve; every action is, for each person and axis,
one of four things (stays, moves, loses, gets), or the day that goes by.

**Situations.** `NobodyIsToldLess` rests on the checks and not on the history: each of the
twelve says of a person alone what it says of them among everybody (`SeniorityAlone` to
`StandbyAlone`, `ReviewAlone`). The one that may differ, the range of a partial retirement,
only narrows when its reliever is not under review, so it may say more and never less; that it says
more is what `review_alone` shows. `ExcessIsSaid` needs an invariant, `SituationsInv`: a part-time contract
has hours (`PartTimeHasHours`), since nobody may write one without them and leaving changes only its end.
A cap that is passed was passed by working: the sum of no day is nothing (`NoHoursOnNoDay`), so something was
worked on some day of the period. The month of that day lies in the period, as a natural year is so many natural
months (`MonthWithin`, and the assumption `YearDays % MonthDays = 0`), and the last day of the month is
counted over the same period (`OnePeriod`). For a contract agreed by week that last day is of another week, and the
property is false (section 6).

TLC finds every one of these inductive invariants true on the configuration of its run.

Only model-checked:
- the liveness properties and everything about fairness, which need ENABLED;
- what the review of a roster (`RosterReview`) makes of hours it counts one by one, and what
  the reminders (`Reminders`) compute: `WarningsAreTrue`, `PlanAndRecordAgree`, `NudgesAreTrue`.
  They compare readers that are folds of their own over hours, punches or runs with another
  account of the same. The library's induction theorems take an operator as a parameter, which the
  provers cannot instantiate; the way taken for the loops of `Hours` would serve for each reader on
  its own. `MonthByMonthSaysTheSame` compares each reader with itself over another window, and
  needs no induction.

## 6. Disagreements and observations

Two runs expect a violation:

- `corrections_twice` / `AppliedOncePerEvent`. `approve_correction` locks the
  correction and checks `correction.target.is_active` on a row it reads without a
  lock (`corrections.py:652`). Two corrections of the same event, decided by
  overlapping requests, both see it in force and both apply: two substitutes are
  active, and the event points at the later one. The test that introduced the
  check (`test_dos_correcciones_sobre_el_mismo_fichaje.py:3-6`) says that this is
  what cannot happen, and covers it one request after the other.
- `review_alone` / `ReviewAloneAgrees`. `_check_relief_contracts` narrows the relievers to the
  person under review before working out who is fully relieved
  (`shifts/services.py:1596`): somebody retired by sixty per cent and relieved full time is
  within the range for the company and out of it in their own review.

Others are told here with the way to see them, since each needs a property, and
constants, of its own. Change the constants named and check the property named:

| Property | Constants | What happens |
|---|---|---|
| `Punching.OpeningsAlternate` | 2 queued taps, `Grace` longer than `MaxOpen` (not `OnTheSpot`) | The type of a queued tap follows from the events of the last `max_open_hours` before its **arrival** (`punches/services.py:221`), while it may arrive `offline_punch_grace_hours` late: with the defaults (16 and 24) an exit of 17:00 that leaves the device after midnight is a second opening. `serializers.py:109` says inference keeps those out. |
| `Rosters.NobodyIsLeftUntold` | `Editors = {e1, e2}` (not `[]EditsApart`) | Two edits of one day photograph it before either locks it; the second sees as "before" what it found and not what the first left (`notices.py:77`, against its opening comment at `:15`). |
| `Absences.LiveLeavesDoNotClash` | forms: holiday 2–4, sick leave 1–3, sick leave 3–4 (not `NothingHidesBehindHoliday`) | Only the first clash is judged (`absences/services.py:473`), and holiday does not stop sick leave: what hides behind it does not either. The comment at `:773` says two sick leaves that overlap still clash. |
| `Absences.HolidayDaysReturnOnce` | forms: holiday 1–3, two sick leaves of part of one day of it, hours 0–1 and 1–2 (not `RecoveringTakesWholeDays`) | Part-day leaves of different hours do not clash, and each notes the whole day of holiday it touches: two approvals that cross give the same day back twice (`recovery.py:62-73` looks at the holiday, not at what was noted before). |
| `LeaveBalance.HolidayChargedIsHolidayEnjoyed` | as `figures`, `Askable` with a holiday and a leave that was sick leave and has become holiday (not `HolidayGivesNothingBack`) | The family of a type may be changed and what it gives back not (`absences/views.py:172-201`): the second holiday treads on the first and gives back days that it charges itself. |
| `Accounts.SomebodyAdministers` | as `accounts` | Two administrators demote each other, each seeing the other (`baja.py:47`, against the docstring at `:27`): eight steps. |
| `Installation.SomebodyRunsTheInstallation` | as `installation` | Two accounts deactivate each other (`platform_views.py:1418-1424`). |
| `Installation.AddressesDoNotMeet` | as `installation` | The sign-in provider creates people without looking at the installation's accounts (`sso.py:383-433`, against `direcciones.py:5-8`); and two requests that cross each look before the other writes. |
| `Hours.NoExcessIsSilent`, `Hours.EventBelongsToOneDay` | `DayLength = 3`, `MaxOpen = 4`, a shift on day 0 only (not `OpenAtMostADay`) | The queue reads one whole day around the days with a shift (`overtime.py:93-94`), while a day may stay open `max_open_hours`, for which there is no upper bound and the comment on it asks more than 24 of companies with guards of a day (`tenants/rules.py:411-418`). A guard that begins late on the last rostered day and ends two days later loses its exit there: the screen and the ruling see its excess, the queue nothing. |
| `RosterReview.WorkIsWatched` | as `figures`; also people with `pauses = TRUE` | The punches are read up to the end of the window, and a night shift that ends after it is not counted; the loop that remembers a single opening also loses the morning of who records breaks (`shifts/services.py:2059`, against `:2032-2034`). |
| `RosterReview.MonthByMonthSaysTheSame` | as `figures`, with `Patterns` of a shift 05:00–11:00 and of one from 20:00 to 19:00 of the next day (not `ADayOffIsARest`) | A window that opens on a Monday or a Tuesday reads one day back (`shifts/services.py:241`, `first.weekday() or 1`). The rest after a shift that ends in the evening of the next day, before one in the morning that follows, is short; asked about both days the review says so, asked about the second alone it has not read the first. |
| `Situations.WeeklyExcessIsSaid` | as `company` | The cap is measured over the period that holds the last day of the window (`shifts/services.py:1993`): reviewed month by month, the excess of a weekly contract is said of its last week only. |
| `Situations.AnswersAreSigned` | as `company` | A petition may be posted with its status, and so answered by nobody (`views.py:1146-1147` says what that leaves). |
| `Situations.PapersDoNotOverlap` | as `company` | Two saves that cross leave two agreements of one day (`users/serializers.py`, the check of each reads without a lock). |
| `Placements.NobodyIsInTwoPlaces` | as `company` | A move on the day of another leaves a span that is empty and still covers its day (`adscription.py:45-47`). |
| `Placements.UnassigningNeverWidens` | as `company` | Taking off the last manager of the last department ends scoping and everybody reads everything (`scope.py:36-42`). |
| `DatedRules.ScreenCountsAsTheDocument` | `Files = {}`, one edit | The screen counts by today's row and the document by the rule in force on each day (`reports/services.py:386-389`, `punches/services.py:361`). |
| `LeaveBalance.SettlementPaysWhatWasNotEnjoyed` | as `figures` | The settlement counts approved holiday after the end of the contract as enjoyed (`absences/services.py:196-198`). |
| `LeaveBalance.EatenDaysComeBackOnce` | as `figures` | Days noted keep the figure they had, though the roster they were counted by changes (`recovery.py:203-216`). |
| `LeaveBalance.RestBeyondTheDebtIsSaid` | as `figures`, `Askable` with two hours of rest on each of two days | What is left counts the rest enjoyed up to today (`punches/rest_debt.py:321`): two leaves to come that fit one by one are both granted without a warning, and together they pass what is owed (`absences/services.py:634-643`). |

What reading the code for the models also showed, by component:

- *Retention.* The purge cuts at the company's midnight, so the entrance of a night shift
  may go and its exit stay. The held ids and the count are read before the transaction: a request
  filed between is deleted with its event; one filed between the two deletions stops the
  job. A correction that moved an event to another day loses its paper one run
  earlier, and corrections that add an event are never purged. Seals before the fourth break when the
  person moves to a workplace on another clock; a recorder erased while recording breaks later ones.
- *Reminders.* A nudge may arrive just after the punch; a mail that fails is not repeated.
- *Accounts.* A stale whole-row save can undo a deactivation, restore a password, revive a used
  link (`serializers.py:604-609`) or re-insert an erased person; a sign-in or renewal in flight survives a
  revocation (`passwords.py:81`); two uses of one link both succeed.
- *Installation.* Overlapped saves write back a stale `is_active`; a credential issued while a withdrawal is
  under way stays; reactivating an account within the life of an entry lets it be renewed.
- *Rules.* Declaring the cap from an earlier day carries today's break value back with it
  (`rules.py:607`); `PATCH` never clears `from_agreement`; a stale save of another field reverts
  figures.
- *Hours.* Two entries in a row can leave an event that belongs to no day; a ruling whose figure
  falls to zero never reopens; a day without a shift can be ruled on though the
  queue leaves it out; a break left open after an exit keeps shrinking the day.
- *Review.* Fortnights, night averages and worked weeks that straddle two months are never reviewed
  month by month; a minor's weekly rest is read from the first day of the window; the pause of a split
  shift counts as a changeover; who can cover looks neither at overlapping shifts nor at
  reduced hours.
- *Leave.* Part-day leave is granted again as if it took whole days (`services.py:797`, against `:590`); the
  weekly unit with a yearly period counts days against weeks; leave that straddles two periods is measured
  against the first.
- *Rosters.* A reassigned row that is destroyed by an older request takes the other person's shift unnoted;
  changes for somebody who is deactivated are not queued.
- *Placements.* The first move of somebody without a date rewrites their past; deleting a unit takes
  its history with it.

## 7. What is not modelled, and why

- The contents of an event beyond its type, interval, time and owner; the
  bytes of the integrity hash; mails, push and audit entries, which neither decide nor block
  (except where the trail is the evidence: `Retention.Note`).
- A correction of a person's events while a tap of theirs is running: the two
  take different locks. `Hours` has both in one register, each in one step.
- The attendance API (slices by calendar day), payroll summaries, delivery links, the
  rendering of reports, shift patterns and rotations, imports, the text of the catalogue of leave,
  representation, invitations by file.
- The annual account of irregular distribution and overdue overtime beyond what the
  review reads of them (`Situations`, `WorkedHours`).
- Legal tables, help, seeds, notifications, the web client: data, wording or
  wiring, with no behaviour of their own that a small model would check better than
  their tests.

Abstractions that bound what is claimed: one company in every model; one person in
`Punching`, `Hours`, `RosterReview`, `LeaveBalance`, `Reminders`; one clock in `Placements`; days of a few ticks and weeks
and years of a few days, with the same code over them; the hours of a day stand for the pairing of its
events in `Situations`; each request is one step in `LeaveBalance`, `RosterReview` and the retiring of a workplace.

## 8. The plan

1. **Done.** The modules, runs and proofs above; every transactional component has its invariants and
   its refinement proved, and so have the figures that are sums, the hours of a register, the review of
   the papers and what the review of a roster says of days and weeks.
2. **Proofs.** The rest of the review of a roster (`WarningsAreTrue`), reader by reader; what the screen says of who is working now
   (`Hours.ScreenFollowsTheWork`).
3. **Model.** Punching and corrections over one table with both locks; delivery links and the
   audit trail.
