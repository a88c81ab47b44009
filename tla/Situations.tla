----------------------------- MODULE Situations -----------------------------
(***************************************************************************)
(* What the company has written down about each person - the contract, the *)
(* relief, the reductions of the working day, the requests to adapt it,    *)
(* the agreements and seasons - and what the review of the roster says of  *)
(* it for a window of days (shifts/services.py, from _check_seniority on). *)
(*                                                                         *)
(* The review is asked for everybody, or by one person about themselves;   *)
(* the papers are edited through requests that read first and save the     *)
(* whole row afterwards.  The hours of a day stand for what pairing its    *)
(* events gives, which is module WorkedHours.                              *)
(***************************************************************************)
EXTENDS Integers, FiniteSets, FiniteSetsExt

CONSTANTS
    Persons,
    Requests,       \* the requests that edit a paper, each between reading and saving
    CalendarEnd, WeekDays, MonthDays, YearDays,
    Windows,        \* the windows somebody reviews: [first, last]
    Contracts,      \* the contracts an administrator may write
    Spans,          \* what may be worked on a day: [kind, hours]
    BusyDays,       \* BOUND: the days on which something is worked
    Rows, Cuts,     \* approved absences that reduce the day, and what they may say
    Petitions, PetitionWishes,  \* ScheduleAdaptation, and what a PATCH may bring
    Papers, PaperForms,         \* RemoteWorkAgreement, ActivityPeriod
    Turns,          \* BOUND: the edits of a behaviour
    \* The company's own rules (WorkingTimeRules) and its catalogue.
    WeeklyHours, ComplementaryShare, SettlementMonths, SeniorityLeave,
    SpecialRegime, StandbyWeekly, Credit,
    \* Figures of the law, small here.
    AnswerDays, RemoteMonths, UnionMaximum, Scale,
    Open, Blank, Untouched

Calendar == 0 .. CalendarEnd
Regimes == {"FULL_TIME", "PART_TIME", "REDUCED", "VARIABLE",
            "TRAINING", "TRAINING_ALT", "TRAINING_PRO"}
Rights == {"CHILDCARE", "SERIOUS_ILLNESS", "PARTIAL_RETIREMENT"}
Statuses == {"PENDING", "ACCEPTED", "ALTERNATIVE", "REFUSED", "WITHDRAWN"}
Resolved == {"ACCEPTED", "ALTERNATIVE", "REFUSED"}

Contract == [regime : Regimes, hours : Nat \cup {Blank}, period : {"WEEK", "MONTH", "YEAR"},
             start : Calendar \cup {Open}, end : Calendar \cup {Open},
             seasonal : BOOLEAN, representative : BOOLEAN, workplace : Nat \cup {Blank}]
Cut == [who : Persons, right : Rights, share : 0 .. 1000, from : Calendar, to : Calendar]
Petition == [who : Persons, asked : Calendar, status : Statuses, answered : Calendar \cup {Blank},
             reason : BOOLEAN, by : {"ADMIN", Blank}]
Wish == [asked : Calendar \cup {Untouched}, status : Statuses \cup {Untouched},
         answered : Calendar \cup {Blank, Untouched}, reason : BOOLEAN \cup {Untouched}]
\* written: signed_on of an agreement, called_on of a season.
Paper == [who : Persons, kind : {"REMOTE", "SEASON"}, written : Calendar \cup {Blank},
          from : Calendar, to : Calendar \cup {Open}]

SituationsAssumption ==
    /\ {CalendarEnd, WeeklyHours, ComplementaryShare, SettlementMonths, StandbyWeekly,
        AnswerDays, RemoteMonths, UnionMaximum, Turns} \subseteq Nat
    /\ {WeekDays, MonthDays, YearDays} \subseteq Nat \ {0}
    /\ Contracts \subseteq Contract /\ Cuts \subseteq Cut /\ PaperForms \subseteq Paper
    /\ YearDays % MonthDays = 0  \* a natural year is so many natural months
    /\ \A w \in Windows : w.first \in Calendar /\ w.last \in w.first .. CalendarEnd
    /\ BusyDays \subseteq Calendar /\ Spans \subseteq [kind : {"WORK", "REMOTE", "STANDBY"}, hours : Nat]
    /\ PetitionWishes \subseteq Wish
    /\ Petitions \cap Papers = {}

VARIABLES
    contract,  \* each person's
    engaged, relieves,
    worked,    \* what each day of each person holds
    cut, petition, paper,
    draft,      \* the request of each hand: the row it read and is about to save
    turns      \* BOUND: the edits that are left

situationsVars == <<contract, engaged, relieves, worked, cut, petition, paper, draft, turns>>

-----------------------------------------------------------------------------
(* What is agreed, and the natural periods it is agreed over *)

Window(d, length) == LET first == d - (d % length) IN first .. first + length - 1

PeriodDays(period) == CASE period = "WEEK"  -> WeekDays
                        [] period = "MONTH" -> MonthDays
                        [] OTHER            -> YearDays

\* User.agreed_hours: nothing where no figure was agreed.
AgreedHours(p) ==
    LET c == contract[p] IN
    IF c.regime = "VARIABLE" THEN Blank
    ELSE IF c.hours # Blank THEN [hours |-> c.hours, period |-> c.period]
    ELSE IF c.regime \in {"FULL_TIME", "REDUCED"} THEN [hours |-> WeeklyHours, period |-> "WEEK"]
    ELSE Blank

HoursOf(p, days, kinds) ==
    SumFunction([d \in {x \in days \cap Calendar : worked[p][x].kind \in kinds} |-> worked[p][d].hours])

HasWorked(p, days, kinds) == \E d \in days \cap Calendar : worked[p][d].kind \in kinds

\* UserWriteSerializer.validate.
Writable(c) ==
    /\ c.regime = "VARIABLE" => c.hours = Blank
    /\ c.regime \in {"PART_TIME", "TRAINING", "TRAINING_ALT", "TRAINING_PRO"} => c.hours # Blank
    /\ c.hours # Blank => c.hours > 0 /\ (c.period = "WEEK" => c.hours <= WeeklyHours)
    /\ c.start # Open /\ c.end # Open => c.start <= c.end

-----------------------------------------------------------------------------
(* The checks of review_roster that read these papers, asked of "whom" -    *)
(* everybody, or one person - for the days from f to l                      *)

Finding(p, code, day) == [who |-> p, code |-> code, day |-> day]

Later(a, b) == IF a > b THEN a ELSE b

StaffOf(whom) == {p \in whom : engaged[p]}

SeniorityFindings(l, whom) ==
    {Finding(p, "seniority_without_a_start_date", l) :
        p \in {q \in StaffOf(whom) : SeniorityLeave /\ contract[q].start = Open}}

\* representation_hours: by the size of the workplace, or of the company.
CreditDue(p) ==
    LET place == contract[p].workplace
        count == Cardinality({q \in Persons :
                     engaged[q] /\ (place # Blank => contract[q].workplace = place)})
    IN  IF count <= Scale.upto THEN Scale.few ELSE Scale.many

CreditFindings(l, whom) ==
    {Finding(p, "representation_credit_below_the_floor", l) :
        p \in {q \in StaffOf(whom) : /\ contract[q].representative
                                     /\ Credit # Blank
                                     /\ Credit < CreditDue(q)}}

CutsSeen(right, f, l) == {r \in Rows : /\ cut[r] # Blank
                                       /\ cut[r].right = right
                                       /\ cut[r].from <= l /\ cut[r].to >= f}

\* The ranges of art. 37.6, in tenths of a percent.
OutsideTheRight(r) == \/ cut[r].right = "CHILDCARE" /\ cut[r].share \notin 125 .. 500
                      \/ cut[r].right = "SERIOUS_ILLNESS" /\ cut[r].share < 500

CutCode(right) == IF right = "CHILDCARE" THEN "reduction_outside_the_right"
                  ELSE "serious_illness_reduction_too_small"

ReductionFindings(f, l, whom) ==
    UNION {{Finding(cut[r].who, CutCode(right), Later(cut[r].from, f)) :
              r \in {x \in CutsSeen(right, f, l) : cut[x].who \in whom /\ OutsideTheRight(x)}} :
           right \in {"CHILDCARE", "SERIOUS_ILLNESS"}}

\* The table of retirements keeps one row of each person, the earliest: the
\* rows come latest first and each overwrites the one before.
RetirementOf(p, f, l) ==
    LET his == {r \in CutsSeen("PARTIAL_RETIREMENT", f, l) : cut[r].who = p}
    IN  IF his = {} THEN Blank
        ELSE cut[CHOOSE r \in his : \A x \in his : cut[r].from <= cut[x].from]

Relievers(whom) == {p \in StaffOf(whom) : relieves[p] # Blank}

FullyRelieved(whom) ==
    {relieves[p] : p \in {q \in Relievers(whom) : /\ contract[q].regime = "FULL_TIME"
                                                  /\ contract[q].end = Open}}

RetirementTop(p, whom) == IF p \in FullyRelieved(whom) THEN 750 ELSE 500

RetirementFindings(f, l, whom) ==
    {Finding(p, "partial_retirement_out_of_range", Later(RetirementOf(p, f, l).from, f)) :
        p \in {q \in whom : /\ RetirementOf(q, f, l) # Blank
                            /\ RetirementOf(q, f, l).share \notin 250 .. RetirementTop(q, whom)}}

\* Whether the retirement of whom they relieve is seen.
Retiring(p, f, l) == RetirementOf(relieves[p], f, l) # Blank

\* Compared only when both figures are of the same period.
BelowTheReduction(p, f, l) ==
    LET his == AgreedHours(p)  retiree == AgreedHours(relieves[p]) IN
    /\ his # Blank /\ retiree # Blank
    /\ his.period = retiree.period
    /\ his.hours * 1000 < retiree.hours * RetirementOf(relieves[p], f, l).share

ReliefCode(p, f, l) == IF Retiring(p, f, l) THEN "relief_hours_below_the_reduction"
                       ELSE "relief_without_partial_retirement"

\* MUTANT: the retirements are looked for among those reviewed.
ReliefSeenFrom(f, l, whom) ==
    {Finding(p, ReliefCode(p, f, l), l) :
        p \in {q \in Relievers(whom) : /\ relieves[q] \in whom
                                       /\ Retiring(q, f, l) => BelowTheReduction(q, f, l)}}

ReliefFindings(f, l, whom) ==
    {Finding(p, ReliefCode(p, f, l), l) :
        p \in {q \in Relievers(whom) : Retiring(q, f, l) => BelowTheReduction(q, f, l)}}

\* ScheduleAdaptation.out_of_time.
OutOfTime(q, today) == /\ petition[q].status = "PENDING"
                       /\ today - petition[q].asked > AnswerDays

AdaptationFindings(f, l, whom) ==
    {Finding(petition[q].who, "adaptation_answer_overdue", Later(petition[q].asked, f)) :
        q \in {x \in Petitions : petition[x] # Blank /\ petition[x].who \in whom /\ OutOfTime(x, l)}}

\* No start date is read as the second year, whose cap is the wider one.
TrainingShare(p, l) ==
    IF contract[p].start = Open \/ l - contract[p].start >= YearDays THEN 85 ELSE 65

OverTheTraining(p, l) ==
    LET a == AgreedHours(p)
    IN  a # Blank /\ a.period = "WEEK" /\ a.hours * 100 > WeeklyHours * TrainingShare(p, l)

TrainingFindings(l, whom) ==
    {Finding(p, "training_kind_not_stated", l) :
        p \in {q \in StaffOf(whom) : contract[q].regime = "TRAINING"}}
    \cup {Finding(p, "training_hours_over_the_cap", l) :
        p \in {q \in StaffOf(whom) : contract[q].regime = "TRAINING_ALT" /\ OverTheTraining(q, l)}}

\* remote_share: over the three months before that day.
LawApplies(p, l) ==
    LET months == l - RemoteMonths * MonthDays .. l
        all == HoursOf(p, months, {"WORK", "REMOTE"})
    IN  all > 0 /\ HoursOf(p, months, {"REMOTE"}) * 100 >= 30 * all

AgreementsOn(p, d) == {a \in Papers : /\ paper[a] # Blank
                                      /\ paper[a].who = p /\ paper[a].kind = "REMOTE"
                                      /\ paper[a].from <= d
                                      /\ paper[a].to = Open \/ paper[a].to >= d}

\* The last agreement to begin is the one that is read.
SignedLate(p, d) == LET on == AgreementsOn(p, d) IN
    \E a \in on : /\ \A b \in on : paper[b].from <= paper[a].from
                  /\ paper[a].written > paper[a].from

RemoteFindings(f, l, whom) ==
    {Finding(p, IF AgreementsOn(p, l) = {} THEN "remote_work_without_agreement"
                ELSE "remote_agreement_signed_late", l) :
        p \in {q \in StaffOf(whom) : /\ HasWorked(q, f .. l, {"REMOTE"})
                                     /\ LawApplies(q, l)
                                     /\ AgreementsOn(q, l) # {} => SignedLate(q, l)}}

\* MUTANT: over the month, whatever was agreed.
ContractMonth(p, d) == Window(d, MonthDays)

\* complementary_used: over the natural period of the contract that holds the day.
ContractPeriod(p, d) == Window(d, PeriodDays(AgreedHours(p).period))

OverTheCap(p, d) ==
    LET agreed == AgreedHours(p).hours
        over == HoursOf(p, ContractPeriod(p, d), {"WORK", "REMOTE"}) - agreed
    IN  ComplementaryShare > 0 /\ over * 100 > agreed * ComplementaryShare

ComplementaryFindings(f, l, whom) ==
    {Finding(p, "complementary_hours_cap", l) :
        p \in {q \in StaffOf(whom) : /\ contract[q].regime = "PART_TIME"
                                     /\ HasWorked(q, f .. l, {"WORK", "REMOTE", "STANDBY"})
                                     /\ OverTheCap(q, l)}}

\* The year that should be settled: the last one whose term is over.
SettledYear(l) ==
    CHOOSE y \in -CalendarEnd .. CalendarEnd :
        /\ (y + 1) * YearDays - 1 + SettlementMonths * MonthDays < l
        /\ (y + 2) * YearDays - 1 + SettlementMonths * MonthDays >= l

YearOff(p, l) == HoursOf(p, Window(SettledYear(l) * YearDays, YearDays), {"WORK", "REMOTE"})
                     - AgreedHours(p).hours

IrregularFindings(l, whom) ==
    {Finding(p, "irregular_hours_unsettled", l) :
        p \in {q \in StaffOf(whom) : LET c == contract[q] IN
                 /\ SettlementMonths > 0
                 /\ c.period = "YEAR" /\ c.hours # Blank
                 /\ c.start # Open => c.start <= SettledYear(l) * YearDays
                 /\ YearOff(q, l) # 0}}

\* Presence: counted in full in healthcare, week by week of the window; on
\* average over the natural month in road transport.
OnCallFindings(f, l, whom) ==
    {Finding(x[1], "on_call_over_the_weekly_maximum", Later(f, x[2])) :
        x \in {y \in StaffOf(whom) \X {d \in 0 .. l : d % WeekDays = 0} :
                 LET week == Window(y[2], WeekDays) \cap f .. l IN
                 /\ SpecialRegime = "HEALTHCARE"
                 /\ HasWorked(y[1], f .. l, {"STANDBY"})
                 /\ HoursOf(y[1], week, {"WORK", "REMOTE", "STANDBY"}) > UnionMaximum}}

StandbyFindings(l, whom) ==
    {Finding(p, "standby_over_the_average", l) :
        p \in {q \in StaffOf(whom) :
                 /\ SpecialRegime = "ROAD_TRANSPORT"
                 /\ StandbyWeekly > 0
                 /\ HoursOf(q, Window(l, MonthDays), {"STANDBY"}) * WeekDays
                        > StandbyWeekly * MonthDays}}

ReviewRoster(f, l, whom) ==
    SeniorityFindings(l, whom) \cup CreditFindings(l, whom) \cup ReductionFindings(f, l, whom)
        \cup RetirementFindings(f, l, whom) \cup ReliefFindings(f, l, whom)
        \cup AdaptationFindings(f, l, whom) \cup TrainingFindings(l, whom)
        \cup RemoteFindings(f, l, whom) \cup ComplementaryFindings(f, l, whom)
        \cup IrregularFindings(l, whom) \cup OnCallFindings(f, l, whom) \cup StandbyFindings(l, whom)

FindingsAbout(p, findings) == {x \in findings : x.who = p}

-----------------------------------------------------------------------------
(* Behaviour *)

SituationsInit ==
    /\ \E c \in Contracts : c.regime = "FULL_TIME" /\ Writable(c) /\ contract = [p \in Persons |-> c]
    /\ engaged = [p \in Persons |-> TRUE]
    /\ relieves = [p \in Persons |-> Blank]
    /\ worked = [p \in Persons |-> [d \in Calendar |-> [kind |-> "NONE", hours |-> 0]]]
    /\ cut = [r \in Rows |-> Blank]
    /\ petition = [q \in Petitions |-> Blank]
    /\ paper = [a \in Papers |-> Blank]
    /\ draft = [h \in Requests |-> Blank]
    /\ turns = Turns

Turn == turns > 0 /\ turns' = turns - 1

\* UserWriteSerializer: contract and relief of one person, in one PATCH.
WriteContract(p, c, who) ==
    /\ Turn
    /\ Writable(c) /\ who # p
    /\ <<c, who>> # <<contract[p], relieves[p]>>
    /\ contract' = [contract EXCEPT ![p] = c]
    /\ relieves' = [relieves EXCEPT ![p] = who]
    /\ UNCHANGED <<engaged, worked, cut, petition, paper, draft>>

\* deactivate: the last day of the contract is that one, unless it had ended.
Deactivate(p, d) ==
    /\ Turn /\ engaged[p]
    /\ engaged' = [engaged EXCEPT ![p] = FALSE]
    /\ contract' = [contract EXCEPT ![p].end = IF @ = Open \/ @ > d THEN d ELSE @]
    /\ UNCHANGED <<relieves, worked, cut, petition, paper, draft>>

\* is_active: true again; the date stays where it was.
Reactivate(p) ==
    /\ Turn /\ ~engaged[p]
    /\ engaged' = [engaged EXCEPT ![p] = TRUE]
    /\ UNCHANGED <<contract, relieves, worked, cut, petition, paper, draft>>

Work(p, d, span) ==
    /\ Turn /\ engaged[p] /\ worked[p][d].kind = "NONE"
    /\ worked' = [worked EXCEPT ![p][d] = span]
    /\ UNCHANGED <<contract, engaged, relieves, cut, petition, paper, draft>>

\* A reduction is approved: nobody's day is reduced twice at once.
Reduce(r, c) ==
    /\ Turn /\ cut[r] = Blank
    /\ \A x \in Rows : cut[x] # Blank /\ cut[x].who = c.who => cut[x].to < c.from \/ c.to < cut[x].from
    /\ cut' = [cut EXCEPT ![r] = c]
    /\ UNCHANGED <<contract, engaged, relieves, worked, petition, paper, draft>>

CancelCut(r) ==
    /\ Turn /\ cut[r] # Blank
    /\ cut' = [cut EXCEPT ![r] = Blank]
    /\ UNCHANGED <<contract, engaged, relieves, worked, petition, paper, draft>>

-----------------------------------------------------------------------------
(* Requests to adapt the working day (ScheduleAdaptationViewSet) *)

Brings(wish, field) == wish[field] # Untouched

Merged(row, wish) ==
    [row EXCEPT !.asked    = IF Brings(wish, "asked") THEN wish.asked ELSE @,
                !.status   = IF Brings(wish, "status") THEN wish.status ELSE @,
                !.answered = IF Brings(wish, "answered") THEN wish.answered ELSE @,
                !.reason   = IF Brings(wish, "reason") THEN wish.reason ELSE @]

\* ScheduleAdaptationSerializer.validate, on the row the request read.
Answerable(row) == /\ row.status \in {"ALTERNATIVE", "REFUSED"} => row.reason
                   /\ row.status \in Resolved => row.answered # Blank

\* The constraint of the table.
Stored(row) == row.answered # Blank => row.answered >= row.asked

\* Answering is for an administrator, withdrawing for whom it belongs to.
MayPatch(by, wish) ==
    \/ by = "ADMIN"
    \/ ~\E field \in {"status", "answered", "reason"} : Brings(wish, field)
    \/ /\ by = "OWNER" /\ wish.status = "WITHDRAWN"
       /\ ~\E field \in {"asked", "answered", "reason"} : Brings(wish, field)

\* The POST takes the answer too, and does not sign it.
Ask(q, p, wish) ==
    LET row == Merged([who |-> p, asked |-> 0, status |-> "PENDING", answered |-> Blank,
                       reason |-> FALSE, by |-> Blank], wish)
    IN  /\ Turn /\ petition[q] = Blank
        /\ Answerable(row) /\ Stored(row)
        /\ petition' = [petition EXCEPT ![q] = row]
        /\ UNCHANGED <<contract, engaged, relieves, worked, cut, paper, draft>>

\* MUTANT: what the request brings is validated, and not what comes out of it.
ReadBringing(h, q, by, wish) ==
    /\ Turn /\ draft[h] = Blank /\ petition[q] # Blank
    /\ MayPatch(by, wish)
    /\ wish.status \in Resolved => Answerable(Merged(petition[q], wish))
    /\ draft' = [draft EXCEPT ![h] = [id |-> q, row |->
                   [Merged(petition[q], wish) EXCEPT
                       !.by = IF wish.status \in Resolved THEN "ADMIN" ELSE @]]]
    /\ UNCHANGED <<contract, engaged, relieves, worked, cut, petition, paper>>

ReadPetition(h, q, by, wish) ==
    /\ Turn /\ draft[h] = Blank /\ petition[q] # Blank
    /\ MayPatch(by, wish) /\ Answerable(Merged(petition[q], wish))
    /\ draft' = [draft EXCEPT ![h] = [id |-> q, row |->
                   [Merged(petition[q], wish) EXCEPT
                       !.by = IF wish.status \in Resolved THEN "ADMIN" ELSE @]]]
    /\ UNCHANGED <<contract, engaged, relieves, worked, cut, petition, paper>>

\* save(): every column, of the row as it was read; the table may refuse it.
SavePetition(h) ==
    /\ draft[h] # Blank /\ draft[h].id \in Petitions
    /\ petition' = IF Stored(draft[h].row) THEN [petition EXCEPT ![draft[h].id] = draft[h].row]
                   ELSE petition
    /\ draft' = [draft EXCEPT ![h] = Blank]
    /\ UNCHANGED <<contract, engaged, relieves, worked, cut, paper, turns>>

DropPetition(q) ==
    /\ Turn /\ petition[q] # Blank
    /\ petition' = [petition EXCEPT ![q] = Blank]
    /\ UNCHANGED <<contract, engaged, relieves, worked, cut, paper, draft>>

-----------------------------------------------------------------------------
(* Agreements to work remotely and seasons of activity *)

Overlap(a, b) == /\ b.to = Open \/ a.from <= b.to
                 /\ a.to = Open \/ b.from <= a.to

\* The two serializers: what each asks of its own paper, and no overlap.
Acceptable(a, form) ==
    /\ form.to # Open => form.to >= form.from
    /\ form.kind = "REMOTE" => form.written # Blank
    /\ form.kind = "SEASON" => /\ contract[form.who].seasonal
                               /\ form.written # Blank => form.written <= form.from
    /\ ~\E b \in Papers \ {a} : /\ paper[b] # Blank
                                /\ paper[b].who = form.who /\ paper[b].kind = form.kind
                                /\ Overlap(form, paper[b])

ReadPaper(h, a, form) ==
    /\ Turn /\ draft[h] = Blank
    /\ paper[a] # Blank => paper[a].who = form.who /\ paper[a].kind = form.kind /\ paper[a] # form
    /\ \A x \in Requests : draft[x] # Blank => draft[x].id # a
    /\ Acceptable(a, form)
    /\ draft' = [draft EXCEPT ![h] = [id |-> a, row |-> form]]
    /\ UNCHANGED <<contract, engaged, relieves, worked, cut, petition, paper>>

SavePaper(h) ==
    /\ draft[h] # Blank /\ draft[h].id \in Papers
    /\ paper' = [paper EXCEPT ![draft[h].id] = draft[h].row]
    /\ draft' = [draft EXCEPT ![h] = Blank]
    /\ UNCHANGED <<contract, engaged, relieves, worked, cut, petition, turns>>

DropPaper(a) ==
    /\ Turn /\ paper[a] # Blank
    /\ paper' = [paper EXCEPT ![a] = Blank]
    /\ UNCHANGED <<contract, engaged, relieves, worked, cut, petition, draft>>

SituationsNext ==
    \/ \E p \in Persons, c \in Contracts, who \in Persons \cup {Blank} : WriteContract(p, c, who)
    \/ \E p \in Persons, d \in Calendar : Deactivate(p, d)
    \/ \E p \in Persons : Reactivate(p)
    \/ \E p \in Persons, d \in BusyDays, span \in Spans : Work(p, d, span)
    \/ \E r \in Rows, c \in Cuts : Reduce(r, c)
    \/ \E r \in Rows : CancelCut(r)
    \/ \E q \in Petitions, p \in Persons, wish \in PetitionWishes : Ask(q, p, wish)
    \/ \E h \in Requests, q \in Petitions, by \in {"ADMIN", "OWNER"}, wish \in PetitionWishes :
           ReadPetition(h, q, by, wish)
    \/ \E h \in Requests : SavePetition(h)
    \/ \E q \in Petitions : DropPetition(q)
    \/ \E h \in Requests, a \in Papers, form \in PaperForms : ReadPaper(h, a, form)
    \/ \E h \in Requests : SavePaper(h)
    \/ \E a \in Papers : DropPaper(a)

SituationsSpec == SituationsInit /\ [][SituationsNext]_situationsVars

-----------------------------------------------------------------------------
(* Properties *)

SituationsTypeOK ==
    /\ contract \in [Persons -> Contract] /\ engaged \in [Persons -> BOOLEAN]
    /\ relieves \in [Persons -> Persons \cup {Blank}]
    /\ worked \in [Persons -> [Calendar -> [kind : {"WORK", "REMOTE", "STANDBY", "NONE"}, hours : Nat]]]
    /\ cut \in [Rows -> Cut \cup {Blank}]
    /\ petition \in [Petitions -> Petition \cup {Blank}]
    /\ paper \in [Papers -> Paper \cup {Blank}]
    /\ draft \in [Requests -> [id : Petitions, row : Petition]
                             \cup [id : Papers, row : Paper] \cup {Blank}]
    /\ turns \in 0 .. Turns

\* What the company is told about a person, that person is told when they ask
\* for their own review: asking alone never hides a finding.
NobodyIsToldLess ==
    \A w \in Windows :
        LET all == ReviewRoster(w.first, w.last, Persons) IN
        \A p \in Persons : FindingsAbout(p, all) \subseteq ReviewRoster(w.first, w.last, {p})

\* And the other way round: asking alone invents none either.
ReviewAloneAgrees ==
    \A w \in Windows, p \in Persons :
        ReviewRoster(w.first, w.last, {p})
            = FindingsAbout(p, ReviewRoster(w.first, w.last, Persons))

\* A part-time contract agreed by month or by year whose cap is passed is said
\* by the review of some month, though each reads the record of the whole period.
MonthsOf(days) == {Window(d, MonthDays) : d \in days}
First(days) == CHOOSE d \in days : \A x \in days : d <= x
Last(days)  == CHOOSE d \in days : \A x \in days : d >= x

Passes(p, days) ==
    LET over == HoursOf(p, days, {"WORK", "REMOTE"}) - contract[p].hours
    IN ComplementaryShare > 0 /\ over * 100 > contract[p].hours * ComplementaryShare

ExcessSaidOver(periods) ==
    \A p \in Persons, d \in Calendar :
        LET days == Window(d, PeriodDays(contract[p].period)) IN
        (/\ engaged[p] /\ contract[p].regime = "PART_TIME"
         /\ contract[p].period \in periods /\ Passes(p, days)) =>
            \E month \in MonthsOf(days) :
                Finding(p, "complementary_hours_cap", Last(month))
                    \in ReviewRoster(First(month), Last(month), Persons)

ExcessIsSaidMonthByMonth == ExcessSaidOver({"MONTH", "YEAR"})

\* The same for a contract agreed by week.
WeeklyExcessIsSaid == ExcessSaidOver({"WEEK"})

\* Whatever edits cross, no alternative and no refusal is left without a
\* reason, and no answer without a day that comes after it was asked.
AnswersAreReasoned ==
    \A q \in Petitions : petition[q] # Blank => Answerable(petition[q]) /\ Stored(petition[q])

\* An answer has the name of whoever gave it.
AnswersAreSigned ==
    \A q \in Petitions :
        petition[q] # Blank /\ petition[q].status \in Resolved => petition[q].by # Blank

\* No two agreements, or seasons, of one person on the same day.
PapersDoNotOverlap ==
    \A a, b \in Papers :
        /\ a # b /\ paper[a] # Blank /\ paper[b] # Blank
        /\ paper[a].who = paper[b].who /\ paper[a].kind = paper[b].kind
        => ~Overlap(paper[a], paper[b])
=============================================================================
