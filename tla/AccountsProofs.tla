--------------------------- MODULE AccountsProofs ---------------------------
(***************************************************************************)
(* Proofs about people and their sessions, for any people, requests and    *)
(* trails.                                                                 *)
(*                                                                         *)
(* A session that lives must have been, for every revocation of its owner, *)
(* either listed by it or issued while it was under way.  What carries the *)
(* argument from a session to the one that replaces it is that whoever     *)
(* renews remembers the revocations that were over when it read the token. *)
(* That somebody administers the company rests on what an edit read: while *)
(* nobody undercuts it, the copy it writes is still the row and whoever it  *)
(* saw administering still does.                                           *)
(***************************************************************************)
EXTENDS Accounts, TLAPS

RequestRecords ==
    [pc : {"new", "read", "saved", "revoked", "done", "failed"},
     kind : Kinds, on : People \cup {Unset},
     via : Requests \cup {Unset},
     copy : Rows \cup {Unset},
     closing : SUBSET Requests, seen : SUBSET Requests]

Renewing(r) == req[r].pc = "read" /\ req[r].kind = "renew"

\* What a request has read is there while it is under way.
SoundRequest(r) ==
    /\ req[r].pc \notin {"new", "failed"} => req[r].on \in People
    /\ InFlight(r) /\ req[r].kind \in Edits => req[r].copy \in Rows
    /\ session[r] # "unissued" => req[r].pc = "done"
    /\ \A s \in req[r].closing : session[s] # "unissued"
    /\ Renewing(r) =>
          /\ req[r].via \in Requests
          /\ session[req[r].via] # "unissued"
          /\ req[req[r].via].on = req[r].on

\* A revocation that is over, or that did not find the session to close it.
PassedBy(q, s) ==
    /\ req[q].kind \in Revoking /\ req[q].on = req[s].on
    /\ \/ req[q].pc = "done"
       \/ req[q].pc = "revoked" /\ s \notin req[q].closing

Sound    == \A r \in Requests : SoundRequest(r)
Survives == \A s, q \in Requests : Usable(s) /\ PassedBy(q, s) => q \in knew[s]
Carries  == \A r \in Requests : Renewing(r) => req[r].seen \subseteq knew[req[r].via]

IInv == TypeOK /\ Sound /\ Survives /\ Carries

-----------------------------------------------------------------------------
(* What the operators return.                                              *)

LEMMA KindsAreDifferent ==
    /\ SignIns \cap Edits = {} /\ SignIns \cap Revoking = {} /\ OwnSecret \cap Edits = {}
    /\ WholeRow \subseteq Edits /\ Revoking \subseteq OwnSecret \cup Edits \cup {"backChannel"}
    /\ "renew" \notin Revoking \cup Edits \cup SignIns /\ "link" \notin Revoking \cup Edits
    /\ "backChannel" \notin Edits /\ OwnSecret \subseteq Revoking
    /\ SignIns \subseteq Kinds /\ OwnSecret \subseteq Kinds /\ Edits \subseteq Kinds
    /\ {"renew", "link", "backChannel"} \subseteq Kinds
  BY DEF SignIns, OwnSecret, Edits, WholeRow, Revoking, Kinds

LEMMA BeginType ==
  ASSUME NEW r \in Requests, NEW kind \in Kinds, NEW p \in People
  PROVE  /\ Begin(r, kind, p) \in RequestRecords
         /\ Begin(r, kind, p).pc = "read" /\ Begin(r, kind, p).kind = kind
         /\ Begin(r, kind, p).on = p /\ Begin(r, kind, p).closing = {}
  BY DEF Begin, Idle, RequestRecords

LEMMA IdleType ==
  /\ Idle \in RequestRecords
  /\ Idle.pc = "new" /\ Idle.kind = "link" /\ Idle.closing = {}
  BY DEF Idle, RequestRecords, Kinds

LEMMA OverType ==
  ASSUME NEW r \in Requests, req[r].kind \in Kinds, req[r].on \in People
  PROVE  /\ Over(r) \in RequestRecords
         /\ Over(r).pc = "done" /\ Over(r).kind = req[r].kind /\ Over(r).on = req[r].on
         /\ Over(r).closing = {}
  BY BeginType DEF Over, Begin, Idle, RequestRecords

LEMMA NewRowType ==
  ASSUME NEW role \in Roles, NEW secret \in Secrets
  PROVE  /\ NewRow(role, secret) \in Rows
         /\ NoRow \in Rows
  BY DEF NewRow, NoRow, Rows, Roles, Secrets

LEMMA UsableIsLive ==
  ASSUME TypeOK, NEW s \in Requests
  PROVE  Usable(s) <=> session[s] = "live"
  BY DEF TypeOK, Usable

LEMMA BegunIsPassedBy ==
  ASSUME TypeOK, NEW r \in Requests, NEW s \in Requests, NEW q \in Requests, req[s].on = req[r].on,
         PassedBy(q, s)
  PROVE  q \in Begun(req[r].on)
  BY DEF PassedBy, Begun, Done

LEMMA BegunType == \A p : Begun(p) \subseteq Requests /\ Done(p) \subseteq Requests
  BY DEF Begun, Done

LEMMA WrittenType ==
  ASSUME TypeOK, Sound, NEW r \in Requests, InFlight(r)
  PROVE  Written(r) \in Rows
<1> DEFINE now == person[req[r].on]
           old == [req[r].copy EXCEPT !.state = "there"]
<1>1. now \in Rows /\ r \in Secrets
  BY DEF TypeOK, Sound, SoundRequest, InFlight, Secrets
<1>2. CASE req[r].kind \in OwnSecret
  <2>1. Written(r) = [now EXCEPT !.secret = r, !.login = r]
    BY <1>2 DEF Written, OwnSecret
  <2> QED
    BY <1>1, <2>1 DEF Rows, Secrets
<1>3. CASE req[r].kind \in {"delete", "erase"}
  <2>1. \/ Written(r) = [now EXCEPT !.active = FALSE]
        \/ Written(r) = [now EXCEPT !.state = "erased"]
    BY <1>3 DEF Written, OwnSecret
  <2> QED
    BY <1>1, <2>1 DEF Rows
<1>4. CASE req[r].kind \in WholeRow
  <2>1. req[r].copy \in Rows
    BY <1>4, KindsAreDifferent DEF Sound, SoundRequest
  <2>2. old \in Rows
    BY <2>1 DEF Rows
  <2> HIDE DEF old
  <2>3. \/ Written(r) = old
        \/ Written(r) = [old EXCEPT !.role = "ADMIN"]
        \/ Written(r) = [old EXCEPT !.role = "EMPLOYEE"]
        \/ Written(r) = [old EXCEPT !.secret = r]
        \/ Written(r) = [old EXCEPT !.active = TRUE]
        \/ Written(r) = [old EXCEPT !.active = FALSE]
    BY <1>4 DEF Written, OwnSecret, WholeRow, old
  <2> QED
    BY <1>1, <2>2, <2>3 DEF Rows, Roles
<1>5. CASE req[r].kind \notin OwnSecret \cup {"delete", "erase"} \cup WholeRow
  <2>1. Written(r) = now
    BY <1>5 DEF Written, OwnSecret, WholeRow
  <2> QED
    BY <1>1, <2>1
<1> QED
  BY <1>2, <1>3, <1>4, <1>5


-----------------------------------------------------------------------------
LEMMA InitIInv == Init => IInv
<1> SUFFICES ASSUME Init PROVE IInv
  OBVIOUS
<1> DEFINE first == [Idle EXCEPT !.pc = "done", !.kind = "person", !.on = Founder]
<1>1. /\ first \in RequestRecords
      /\ first.pc = "done" /\ first.kind = "person" /\ first.on = Founder
      /\ first.closing = {}
  BY FounderAssumption DEF Idle, RequestRecords, Kinds, SignIns
<1>2. /\ \A r \in Requests \ {SignUp} : req[r] = Idle /\ session[r] = "unissued"
      /\ req[SignUp] = first
  BY FounderAssumption DEF Init
<1>3. TypeOK
  <2>1. NewRow("ADMIN", "given") \in Rows /\ NoRow \in Rows
    BY NewRowType DEF Roles, Secrets
  <2>2. [NewRow("ADMIN", "given") EXCEPT !.login = SignUp] \in Rows
    BY <2>1, FounderAssumption DEF Rows
  <2>3. person \in [People -> Rows]
    BY <2>1, <2>2 DEF Init
  <2>4. req \in [Requests -> RequestRecords]
    BY <1>1, IdleType DEF Init
  <2> HIDE DEF first
  <2> QED
    BY <2>3, <2>4 DEF Init, TypeOK, RequestRecords
<1> HIDE DEF first
<1>4. Sound
  BY <1>1, <1>2, IdleType, FounderAssumption DEF Sound, SoundRequest, Renewing, InFlight
<1>5. Survives
  BY <1>1, <1>2, IdleType, KindsAreDifferent DEF Survives, PassedBy, Usable, SignIns
<1>6. Carries
  BY <1>1, <1>2, IdleType DEF Carries, Renewing
<1> QED
  BY <1>3, <1>4, <1>5, <1>6 DEF IInv

-----------------------------------------------------------------------------
(* Steps that change one request and nothing else.                         *)

\* What a request may hold while it has committed nothing: what it read is
\* there, whoever renews remembers the revocations that were over, and whoever
\* revokes lists every session on record.
Prepared(b) ==
    /\ b.pc \notin {"new", "failed"} => b.on \in People
    /\ b.pc \in {"read", "saved", "revoked"} /\ b.kind \in Edits => b.copy \in Rows
    /\ b.pc = "read" /\ b.kind = "renew" =>
          /\ b.via \in Requests /\ Usable(b.via)
          /\ req[b.via].on = b.on /\ b.seen = Done(b.on)
    /\ \A s \in b.closing : session[s] # "unissued"
    /\ b.kind \in Revoking => b.pc # "done"
    /\ b.kind \in Revoking /\ b.pc = "revoked" => b.closing = SessionsOf(b.on)

LEMMA OthersStand ==
  ASSUME TypeOK, Sound, NEW r \in Requests, NEW b \in RequestRecords,
         req' = [req EXCEPT ![r] = b], session[r] = "unissued"
  PROVE  /\ req' \in [Requests -> RequestRecords]
         /\ req'[r] = b
         /\ \A s \in Requests : s # r => req'[s] = req[s]
         /\ \A s \in Requests : session[s] # "unissued" => s # r /\ req'[s] = req[s]
  BY DEF TypeOK, RequestRecords

\* A request that has not begun, or that is under way, has issued nothing.
LEMMA NothingIssued ==
  ASSUME Sound, NEW r \in Requests, req[r].pc # "done"
  PROVE  session[r] = "unissued"
  BY DEF Sound, SoundRequest

LEMMA PreparedIInv ==
  ASSUME IInv, NEW r \in Requests, NEW b \in RequestRecords, req[r].pc # "done",
         req' = [req EXCEPT ![r] = b], UNCHANGED <<person, session, knew>>,
         undercut' \subseteq undercut, Prepared(b)
  PROVE  IInv'
<1> USE DEF IInv
<1>1. session[r] = "unissued"
  BY NothingIssued
<1>2. UNCHANGED <<person, session, knew>>
  OBVIOUS
<1>3. /\ req' \in [Requests -> RequestRecords]
      /\ req'[r] = b
      /\ \A s \in Requests : s # r => req'[s] = req[s]
      /\ \A s \in Requests : session[s] # "unissued" => s # r /\ req'[s] = req[s]
  BY <1>1, OthersStand
<1>4. TypeOK'
  BY <1>2, <1>3 DEF TypeOK, RequestRecords
<1>5. Sound'
  <2> SUFFICES ASSUME NEW s \in Requests PROVE SoundRequest(s)'
    BY DEF Sound
  <2>1. CASE s = r
    BY <2>1, <1>1, <1>2, <1>3 DEF SoundRequest, Prepared, Renewing, Usable, InFlight
  <2>2. CASE s # r
    <3>1. SoundRequest(s) /\ req'[s] = req[s]
      BY <2>2, <1>3 DEF Sound
    <3> QED
      BY <3>1, <1>2, <1>3 DEF SoundRequest, Renewing, InFlight
  <2> QED
    BY <2>1, <2>2
<1>6. Survives'
  <2> SUFFICES ASSUME NEW s \in Requests, NEW q \in Requests, Usable(s)', PassedBy(q, s)'
               PROVE  q \in knew'[s]
    BY DEF Survives
  <2>1. Usable(s) /\ req'[s] = req[s] /\ session[s] # "unissued"
    BY <1>2, <1>3 DEF Usable
  <2>2. CASE q = r
    <3>1. b.kind \in Revoking /\ b.on = req[s].on /\ s \notin SessionsOf(b.on)
      BY <2>1, <2>2, <1>3 DEF PassedBy, Prepared
    <3>2. session[s] = "live"
      BY <2>1, UsableIsLive
    <3> QED
      BY <3>1, <3>2 DEF SessionsOf
  <2>3. CASE q # r
    BY <1>2, <1>3, <2>1, <2>3 DEF Survives, PassedBy
  <2> QED
    BY <2>2, <2>3
<1>7. Carries'
  <2> SUFFICES ASSUME NEW s \in Requests, Renewing(s)' PROVE req'[s].seen \subseteq knew[req'[s].via]
    BY <1>2 DEF Carries
  <2>1. CASE s = r
    <3>1. b.via \in Requests /\ Usable(b.via) /\ req[b.via].on = b.on /\ b.seen = Done(b.on)
        BY <2>1, <1>3 DEF Renewing, Prepared
    <3>2. \A q \in Done(b.on) : q \in Requests /\ PassedBy(q, b.via)
      BY <3>1 DEF Done, PassedBy
    <3> QED
      BY <2>1, <1>3, <3>1, <3>2 DEF Survives
  <2>2. CASE s # r
    BY <2>2, <1>3 DEF Carries, Renewing
  <2> QED
    BY <2>1, <2>2
<1> QED
  BY <1>4, <1>5, <1>6, <1>7

\* What a request reads, before it writes anything.
LEMMA ReadIInv ==
  ASSUME IInv, NEW r \in Requests, NEW b \in RequestRecords, Read(r, b), b.pc = "read", Prepared(b)
  PROVE  IInv'
  BY PreparedIInv DEF Read

LEMMA SignInIInv ==
  ASSUME IInv, NEW r \in Requests, NEW p \in People, NEW kind \in SignIns, SignIn(r, p, kind)
  PROVE  IInv'
<1> DEFINE b == Begin(r, kind, p)
<1>1. b \in RequestRecords /\ b.pc = "read" /\ b.kind = kind /\ b.on = p
      /\ b.closing = {}
  BY BeginType, KindsAreDifferent
<1>2. Prepared(b)
  BY <1>1, KindsAreDifferent DEF Prepared
<1> QED
  BY <1>1, <1>2, ReadIInv DEF SignIn

LEMMA RenewIInv ==
  ASSUME IInv, NEW r \in Requests, NEW s \in Requests, Renew(r, s)
  PROVE  IInv'
<1> DEFINE b == [Begin(r, "renew", req[s].on) EXCEPT !.via = s, !.seen = Done(req[s].on)]
<1>1. req[s].on \in People /\ Usable(s)
  <2>1. Usable(s) /\ session[s] # "unissued"
    BY DEF Renew, Usable
  <2> QED
    BY <2>1 DEF IInv, Sound, SoundRequest
<1>2. /\ b \in RequestRecords /\ b.pc = "read" /\ b.kind = "renew" /\ b.on = req[s].on
      /\ b.via = s /\ b.seen = Done(req[s].on) /\ b.closing = {}
  BY <1>1, KindsAreDifferent, BegunType DEF Begin, Idle, RequestRecords
<1>3. Prepared(b)
  BY <1>1, <1>2, KindsAreDifferent DEF Prepared
<1> QED
  BY <1>2, <1>3, ReadIInv DEF Renew

LEMMA SendLinkIInv ==
  ASSUME IInv, NEW r \in Requests, NEW p \in People, SendLink(r, p)
  PROVE  IInv'
<1> DEFINE b == [Idle EXCEPT !.pc = "done", !.on = p, !.copy = person[p]]
<1>1. person[p] \in Rows
  BY DEF IInv, TypeOK
<1>2. b \in RequestRecords /\ b.pc = "done" /\ b.kind = "link" /\ b.on = p
      /\ b.closing = {}
  BY <1>1, KindsAreDifferent DEF Idle, RequestRecords
<1>3. Prepared(b)
  BY <1>2, KindsAreDifferent DEF Prepared
<1>4. /\ req[r].pc # "done" /\ req' = [req EXCEPT ![r] = b]
      /\ UNCHANGED <<person, session, knew, undercut>>
  BY DEF SendLink
<1> QED
  BY <1>2, <1>3, <1>4, PreparedIInv

LEMMA FollowLinkIInv ==
  ASSUME IInv, NEW r \in Requests, NEW l \in Requests, FollowLink(r, l)
  PROVE  IInv'
<1> DEFINE b == Begin(r, "setByLink", req[l].on)
<1>1. req[l].on \in People
  BY DEF FollowLink, LinkHolds, IInv, Sound, SoundRequest
<1>2. "setByLink" \in OwnSecret
  BY DEF OwnSecret
<1>3. b \in RequestRecords /\ b.pc = "read" /\ b.kind = "setByLink" /\ b.on = req[l].on
      /\ b.closing = {}
  BY <1>1, <1>2, BeginType, KindsAreDifferent
<1>4. Prepared(b)
  BY <1>1, <1>2, <1>3, KindsAreDifferent DEF Prepared
<1> QED
  BY <1>3, <1>4, ReadIInv DEF FollowLink

LEMMA ChangePasswordIInv ==
  ASSUME IInv, NEW r \in Requests, NEW p \in People, ChangePassword(r, p)
  PROVE  IInv'
<1> DEFINE b == Begin(r, "changeOwn", p)
<1>1. "changeOwn" \in OwnSecret
  BY DEF OwnSecret
<1>2. b \in RequestRecords /\ b.pc = "read" /\ b.kind = "changeOwn" /\ b.on = p
      /\ b.closing = {}
  BY <1>1, BeginType, KindsAreDifferent
<1>3. Prepared(b)
  BY <1>1, <1>2, KindsAreDifferent DEF Prepared
<1> QED
  BY <1>2, <1>3, ReadIInv DEF ChangePassword

LEMMA StartEditIInv ==
  ASSUME IInv, NEW r \in Requests, NEW by, NEW p \in People, NEW kind \in Edits,
         StartEdit(r, by, p, kind)
  PROVE  IInv'
<1> DEFINE b == [Begin(r, kind, p) EXCEPT !.copy = person[p]]
<1>1. person[p] \in Rows
  BY DEF IInv, TypeOK
<1>2. /\ b \in RequestRecords /\ b.pc = "read" /\ b.kind = kind /\ b.on = p
      /\ b.copy = person[p] /\ b.closing = {}
  BY <1>1, KindsAreDifferent DEF Begin, Idle, RequestRecords
<1>3. Prepared(b)
  BY <1>1, <1>2, KindsAreDifferent DEF Prepared
<1> QED
  BY <1>2, <1>3, ReadIInv DEF StartEdit

LEMMA SaveIInv ==
  ASSUME IInv, NEW r \in Requests, Save(r)
  PROVE  IInv'
<1> DEFINE b == [req[r] EXCEPT !.pc = "saved"]
<1>1. req[r] \in RequestRecords /\ InFlight(r) /\ req[r].pc = "read"
  BY DEF IInv, TypeOK, RequestRecords, Save, InFlight
<1>2. /\ b \in RequestRecords /\ b.pc = "saved" /\ b.kind = req[r].kind
      /\ b.on = req[r].on /\ b.copy = req[r].copy /\ b.closing = req[r].closing
  BY <1>1 DEF RequestRecords
<1>3. Prepared(b)
  BY <1>1, <1>2, KindsAreDifferent DEF Prepared, IInv, Sound, SoundRequest
<1>4. req' = [req EXCEPT ![r] = b] /\ UNCHANGED <<person, session, knew, undercut>>
  BY <1>1 DEF Save
<1> QED
  BY <1>1, <1>2, <1>3, <1>4, PreparedIInv

LEMMA SessionsType == \A p : SessionsOf(p) \subseteq Requests
  BY DEF SessionsOf

LEMMA SessionsIssued == \A p : \A s \in SessionsOf(p) : session[s] # "unissued"
  BY DEF SessionsOf

LEMMA RevokeIInv ==
  ASSUME IInv, NEW r \in Requests, Revoke(r)
  PROVE  IInv'
<1> DEFINE b == [req[r] EXCEPT !.pc = "revoked", !.closing = SessionsOf(req[r].on)]
<1>1. req[r] \in RequestRecords /\ InFlight(r) /\ req[r].pc = "saved"
  BY DEF IInv, TypeOK, RequestRecords, Revoke, InFlight
<1>2. /\ b \in RequestRecords /\ b.pc = "revoked" /\ b.kind = req[r].kind
      /\ b.on = req[r].on /\ b.copy = req[r].copy /\ b.closing = SessionsOf(b.on)
  BY <1>1, SessionsType DEF RequestRecords
<1>3. Prepared(b)
  BY <1>1, <1>2, KindsAreDifferent, SessionsIssued DEF Prepared, IInv, Sound, SoundRequest
<1>4. req' = [req EXCEPT ![r] = b] /\ UNCHANGED <<person, session, knew, undercut>>
  BY <1>1 DEF Revoke
<1> QED
  BY <1>1, <1>2, <1>3, <1>4, PreparedIInv

LEMMA BackChannelIInv ==
  ASSUME IInv, NEW r \in Requests, NEW p \in People, BackChannel(r, p)
  PROVE  IInv'
<1> DEFINE b == [Begin(r, "backChannel", p) EXCEPT !.pc = "revoked", !.closing = SessionsOf(p)]
<1>1. /\ b \in RequestRecords /\ b.pc = "revoked" /\ b.kind = "backChannel" /\ b.on = p
      /\ b.closing = SessionsOf(p)
  BY KindsAreDifferent, SessionsType DEF Begin, Idle, RequestRecords
<1>2. Prepared(b)
  BY <1>1, KindsAreDifferent, SessionsIssued DEF Prepared
<1>3. /\ req' = [req EXCEPT ![r] = b] /\ UNCHANGED <<person, session, knew, undercut>>
      /\ req[r].pc # "done"
  BY DEF BackChannel
<1> QED
  BY <1>1, <1>2, <1>3, PreparedIInv

LEMMA AbortIInv ==
  ASSUME IInv, NEW r \in Requests, Abort(r)
  PROVE  IInv'
<1> DEFINE b == [Idle EXCEPT !.pc = "failed"]
<1>1. b \in RequestRecords /\ b.pc = "failed" /\ b.kind = "link" /\ b.closing = {}
  BY IdleType DEF Idle, RequestRecords
<1>2. Prepared(b)
  BY <1>1, KindsAreDifferent DEF Prepared
<1>3. /\ req' = [req EXCEPT ![r] = b] /\ UNCHANGED <<person, session, knew>>
      /\ undercut' \subseteq undercut /\ req[r].pc # "done"
  BY DEF Abort, InFlight
<1> QED
  BY <1>1, <1>2, <1>3, PreparedIInv

-----------------------------------------------------------------------------
(* Steps that touch no request.                                            *)

LEMMA CreateIInv ==
  ASSUME IInv, NEW by, NEW p \in People, NEW role \in Roles, NEW secret \in {Unset, "given"},
         Create(by, p, role, secret)
  PROVE  IInv'
<1> USE DEF IInv
<1>1. UNCHANGED <<session, req, knew, undercut>> /\ person' = [person EXCEPT ![p] = NewRow(role, secret)]
  BY DEF Create
<1>2. NewRow(role, secret) \in Rows
  BY NewRowType DEF Secrets
<1>3. TypeOK'
  BY <1>1, <1>2 DEF TypeOK
<1>4. Sound'
  BY <1>1 DEF Sound, SoundRequest, Renewing, InFlight
<1>5. Survives' /\ Carries'
  BY <1>1 DEF Survives, Carries, PassedBy, Usable, Renewing
<1> QED
  BY <1>3, <1>4, <1>5

LEMMA SignOutIInv ==
  ASSUME IInv, NEW s \in Requests, SignOut(s)
  PROVE  IInv'
<1> USE DEF IInv
<1>1. UNCHANGED <<person, req, knew, undercut>> /\ session' = [session EXCEPT ![s] = "blacklisted"]
  BY DEF SignOut
<1>2. session[s] # "unissued"
  BY DEF SignOut, Usable
<1>3. TypeOK'
  BY <1>1 DEF TypeOK
<1>4. Sound'
  BY <1>1, <1>2 DEF Sound, SoundRequest, Renewing, InFlight, TypeOK
<1>5. Survives'
  BY <1>1 DEF Survives, PassedBy, Usable, TypeOK
<1>6. Carries'
  BY <1>1 DEF Carries, Renewing
<1> QED
  BY <1>3, <1>4, <1>5, <1>6

-----------------------------------------------------------------------------
(* Steps that end a request.                                               *)

\* What a finished request leaves: its session, if it issues one, has been told
\* of every revocation it does not answer for, and the sessions it found are
\* closed.
Ending(r) ==
    /\ req' = [req EXCEPT ![r] = Over(r)]
    /\ session' \in [Requests -> {"unissued", "live", "blacklisted"}]
    /\ knew' \in [Requests -> SUBSET Requests]
    /\ undercut' \subseteq Requests
    /\ \A s \in Requests \ {r} :
          /\ knew'[s] = knew[s]
          /\ \/ session'[s] = session[s]
             \/ session[s] # "unissued" /\ session'[s] = "blacklisted"
    /\ req[r].kind \in Revoking =>
          /\ req[r].pc = "revoked"
          /\ \A s \in req[r].closing \ {r} : session'[s] = "blacklisted"
    /\ session'[r] = "live" =>
          \A q \in Begun(req[r].on) : q \in knew'[r]

LEMMA EndingIInv ==
  ASSUME IInv, NEW r \in Requests, InFlight(r), person' \in [People -> Rows], Ending(r)
  PROVE  IInv'
<1> USE DEF IInv
<1>1. /\ req[r].on \in People /\ req[r].kind \in Kinds
      /\ session[r] = "unissued" /\ req[r].pc # "done"
  BY NothingIssued DEF Sound, SoundRequest, TypeOK, InFlight
<1>2. /\ Over(r) \in RequestRecords
      /\ Over(r).pc = "done" /\ Over(r).kind = req[r].kind /\ Over(r).on = req[r].on
      /\ Over(r).closing = {}
  BY <1>1, OverType
<1>3. /\ req' \in [Requests -> RequestRecords]
      /\ req'[r] = Over(r)
      /\ \A s \in Requests : s # r => req'[s] = req[s]
      /\ \A s \in Requests : session[s] # "unissued" => s # r /\ req'[s] = req[s]
  BY <1>1, <1>2, OthersStand DEF Ending
<1>4. \A s \in Requests : req'[s].on = req[s].on /\ req'[s].kind = req[s].kind
  BY <1>2, <1>3
<1>5. TypeOK'
  BY <1>3 DEF TypeOK, Ending, RequestRecords
<1>6. Sound'
  <2> SUFFICES ASSUME NEW s \in Requests PROVE SoundRequest(s)'
    BY DEF Sound
  <2>0. \A x \in Requests : session[x] # "unissued" => session'[x] # "unissued"
    BY <1>1 DEF Ending
  <2>1. CASE s = r
    BY <2>1, <1>1, <1>2, <1>3 DEF SoundRequest, Renewing, InFlight
  <2>2. CASE s # r
    <3>1. SoundRequest(s) /\ req'[s] = req[s]
      BY <2>2, <1>3 DEF Sound
    <3>2. session'[s] # "unissued" => session[s] # "unissued"
      BY <2>2 DEF Ending
    <3>3. ASSUME Renewing(s)
          PROVE  session'[req[s].via] # "unissued" /\ req'[req[s].via].on = req[s].on
      <4>1. req[s].via \in Requests /\ session[req[s].via] # "unissued" /\ req[s].via # r
        BY <3>1, <3>3, <1>1 DEF SoundRequest
      <4> QED
        BY <4>1, <3>1, <3>3, <1>3 DEF SoundRequest, Ending
    <3>4. \A x \in req[s].closing : session'[x] # "unissued"
      BY <3>1, <2>0 DEF SoundRequest, TypeOK
    <3> QED
      BY <3>1, <3>2, <3>3, <3>4 DEF SoundRequest, Renewing, InFlight
  <2> QED
    BY <2>1, <2>2
<1>7. Survives'
  <2> SUFFICES ASSUME NEW s \in Requests, NEW q \in Requests, Usable(s)', PassedBy(q, s)'
               PROVE  q \in knew'[s]
    BY DEF Survives
  <2>1. session'[s] = "live"
    BY <1>5, UsableIsLive DEF Ending, Usable
  <2>2. req[q].kind \in Revoking /\ req[q].on = req[s].on
    BY <1>4 DEF PassedBy
  <2>3. q \in {r} \cup Begun(req[s].on)
    BY <2>2, <1>3 DEF PassedBy, Begun, Done
  <2>4. q = r => q \in Begun(req[s].on)
    BY <2>2 DEF Begun, Ending
  <2>5. CASE s = r
    BY <2>1, <2>3, <2>4, <2>5 DEF Ending
  <2>6. CASE s # r
    <3>1. Usable(s) /\ knew'[s] = knew[s]
      BY <2>1, <2>6, UsableIsLive DEF Ending
    <3>2. PassedBy(q, s)
      <4>1. CASE q = r
        BY <4>1, <2>1, <2>2, <2>6 DEF Ending, PassedBy
      <4>2. CASE q # r
        BY <4>2, <2>2, <1>3, <2>6 DEF PassedBy
      <4> QED
        BY <4>1, <4>2
    <3> QED
      BY <3>1, <3>2 DEF Survives
  <2> QED
    BY <2>5, <2>6
<1>8. Carries'
  <2> SUFFICES ASSUME NEW s \in Requests, Renewing(s)'
               PROVE  req'[s].seen \subseteq knew'[req'[s].via]
    BY DEF Carries
  <2>1. s # r /\ req'[s] = req[s] /\ Renewing(s)
    BY <1>2, <1>3 DEF Renewing
  <2>2. req[s].via \in Requests \ {r}
    BY <2>1, <1>1 DEF Sound, SoundRequest
  <2> QED
    BY <2>1, <2>2 DEF Carries, Ending
<1> QED
  BY <1>5, <1>6, <1>7, <1>8

LEMMA IssueIInv ==
  ASSUME IInv, NEW r \in Requests, Issue(r)
  PROVE  IInv'
<1>1. InFlight(r) /\ req[r].kind \notin Revoking /\ session[r] = "unissued"
  BY KindsAreDifferent, NothingIssued DEF Issue, InFlight, IInv
<1>2. person' \in [People -> Rows]
  <2>1. req[r].on \in People
    BY <1>1 DEF IInv, Sound, SoundRequest, InFlight
  <2>2. person[req[r].on] \in Rows
    BY <2>1 DEF IInv, TypeOK
  <2>3. [person[req[r].on] EXCEPT !.login = r] \in Rows
    BY <2>2 DEF Rows
  <2> QED
    BY <2>1, <2>3 DEF Issue, IInv, TypeOK
<1>3. Ending(r)
  BY <1>1, BegunType DEF Issue, Ending, IInv, TypeOK
<1> QED
  BY <1>1, <1>2, <1>3, EndingIInv

LEMMA RotateIInv ==
  ASSUME IInv, NEW r \in Requests, Rotate(r)
  PROVE  IInv'
<1>1. /\ InFlight(r) /\ req[r].kind \notin Revoking /\ session[r] = "unissued"
      /\ Renewing(r)
  BY KindsAreDifferent, NothingIssued DEF Rotate, InFlight, IInv, Renewing
<1>2. PICK s \in Requests : s = req[r].via /\ session[s] # "unissued"
  BY <1>1 DEF IInv, Sound, SoundRequest
<1>3. UNCHANGED person /\ person \in [People -> Rows]
  BY DEF Rotate, IInv, TypeOK
<1>4. session' = [session EXCEPT ![s] = "blacklisted", ![r] = "live"]
  BY <1>2 DEF Rotate, Rotated
<1>5. /\ knew' = [knew EXCEPT ![r] = knew[s] \cup (Begun(req[r].on) \ req[r].seen)]
      /\ req[r].seen \subseteq knew[s]
  BY <1>1, <1>2 DEF Rotate, IInv, Carries
<1>6. s # r
  BY <1>1, <1>2
<1>7. Ending(r)
  BY <1>1, <1>2, <1>4, <1>5, <1>6, BegunType DEF Rotate, Ending, IInv, TypeOK
<1> QED
  BY <1>1, <1>3, <1>7, EndingIInv

LEMMA CommitIInv ==
  ASSUME IInv, NEW r \in Requests, Commit(r)
  PROVE  IInv'
<1>1. InFlight(r) /\ session[r] = "unissued" /\ req[r].on \in People
  BY NothingIssued DEF Commit, InFlight, IInv, Sound, SoundRequest
<1>2. person' \in [People -> Rows]
  <2>1. Written(r) \in Rows
    BY <1>1, WrittenType DEF IInv
  <2> QED
    BY <1>1, <2>1 DEF Commit, IInv, TypeOK
<1>3. /\ session' \in [Requests -> {"unissued", "live", "blacklisted"}]
      /\ \A s \in Requests : session'[s] =
            IF s = r /\ req[r].kind \in OwnSecret THEN "live"
            ELSE IF s \in req[r].closing THEN "blacklisted" ELSE session[s]
  BY DEF Commit, Closed, IInv, TypeOK
<1>4. /\ knew' \in [Requests -> SUBSET Requests]
      /\ \A s \in Requests \ {r} : knew'[s] = knew[s]
      /\ req[r].kind \in OwnSecret => knew'[r] = Begun(req[r].on)
  BY BegunType DEF Commit, IInv, TypeOK
<1>5. req[r].kind \in Revoking => req[r].pc = "revoked"
  BY DEF Commit
<1>6. ASSUME NEW s \in req[r].closing
      PROVE  s \in Requests
  BY DEF IInv, TypeOK
<1>7. req' = [req EXCEPT ![r] = Over(r)]
  BY DEF Commit
<1>8. \A s \in req[r].closing : session[s] # "unissued"
  BY DEF IInv, Sound, SoundRequest
<1>9. undercut' \subseteq Requests
  BY DEF Commit, Undercuts, IInv, TypeOK
<1>10. Ending(r)
  BY <1>1, <1>3, <1>4, <1>5, <1>6, <1>7, <1>8, <1>9 DEF Ending
<1> QED
  BY <1>1, <1>2, <1>10, EndingIInv

-----------------------------------------------------------------------------
LEMMA StepIInv ==
  ASSUME IInv, [Next]_vars
  PROVE  IInv'
<1>1. CASE UNCHANGED vars
  BY <1>1 DEF vars, IInv, TypeOK, Sound, SoundRequest, Survives, PassedBy, Carries, Renewing,
              Usable, InFlight
<1>2. CASE \E by \in People \cup {App}, p \in People, role \in Roles, secret \in {Unset, "given"} :
              Create(by, p, role, secret)
  BY <1>2, CreateIInv
<1>3. ASSUME NEW r \in Requests,
             \/ \E p \in People, kind \in SignIns : SignIn(r, p, kind)
             \/ Issue(r)
             \/ \E s \in Requests : Renew(r, s)
             \/ Rotate(r)
             \/ SignOut(r)
      PROVE  IInv'
  BY <1>3, SignInIInv, IssueIInv, RenewIInv, RotateIInv, SignOutIInv
<1>4. ASSUME NEW r \in Requests,
             \/ \E p \in People : SendLink(r, p)
             \/ \E l \in Requests : FollowLink(r, l)
             \/ \E p \in People : ChangePassword(r, p)
             \/ \E by \in People \cup {App}, p \in People, kind \in Edits :
                   StartEdit(r, by, p, kind)
      PROVE  IInv'
  BY <1>4, SendLinkIInv, FollowLinkIInv, ChangePasswordIInv, StartEditIInv
<1>5. ASSUME NEW r \in Requests,
             \/ Save(r)
             \/ Revoke(r)
             \/ \E p \in People : BackChannel(r, p)
             \/ Commit(r)
             \/ Abort(r)
      PROVE  IInv'
  BY <1>5, SaveIInv, RevokeIInv, BackChannelIInv, CommitIInv, AbortIInv
<1> QED
  BY <1>1, <1>2, <1>3, <1>4, <1>5 DEF Next, Unused

\* The variables of the accounts hold what the program can hold.
THEOREM TypeCorrect == Spec => []TypeOK
<1>1. IInv => TypeOK
  BY DEF IInv
<1> QED
  BY <1>1, InitIInv, StepIInv, PTL DEF Spec

\* Every session that lives was issued knowing of each revocation of its owner
\* that is over: no password set, leaving or provider's word is survived by a
\* session that was on record when it listed them, nor by its renewals.
THEOREM RevocationEndsSessions == Spec => []SessionsEndWhenRevoked
<1>1. IInv => SessionsEndWhenRevoked
  BY DEF IInv, SessionsEndWhenRevoked, Survives, PassedBy, Done
<1> QED
  BY <1>1, InitIInv, StepIInv, PTL DEF Spec

-----------------------------------------------------------------------------
(* Somebody administers, unless an edit is undercut.                       *)

\* What an edit read is still so: the row, and that somebody else administers.
StillTrue(r) ==
    LET p == req[r].on IN
    /\ There(p)
    /\ req[r].copy.role = person[p].role /\ req[r].copy.active = person[p].active
    /\ ~LeavesNoAdmin(person[p], p, req[r].kind)

ReadingsHold == \A r \in Requests : Editing(r) /\ r \notin undercut => StillTrue(r)

AdminInv == IInv /\ ReadingsHold

\* The rows may only gain: they say the same of who administers, or more.
SameOrMore ==
    \A p \in People :
        /\ There(p) => There(p)' /\ person'[p].role = person[p].role
                                 /\ person'[p].active = person[p].active

\* Whoever edits was editing, and the same; and was undercut only if it still is.
EditsGoOn ==
    \A x \in Requests : Editing(x)' =>
        /\ Editing(x)
        /\ req'[x].on = req[x].on /\ req'[x].kind = req[x].kind /\ req'[x].copy = req[x].copy
        /\ x \in undercut => x \in undercut'

LEMMA GainKeeps ==
  ASSUME IInv, SameOrMore
  PROVE  /\ SomebodyAdministers => SomebodyAdministers'
         /\ \A r \in Requests : /\ Editing(r) /\ StillTrue(r)
                                /\ req'[r].on = req[r].on /\ req'[r].kind = req[r].kind
                                /\ req'[r].copy = req[r].copy
                                => StillTrue(r)'
<1>1. \A p \in People : Active(p) => Active(p)' /\ person'[p].role = person[p].role
  BY DEF SameOrMore, Active, There
<1>2. SomebodyAdministers => SomebodyAdministers'
  BY <1>1 DEF SomebodyAdministers, Administers, Active, There
<1>3. ASSUME NEW r \in Requests, Editing(r), StillTrue(r),
             req'[r].on = req[r].on, req'[r].kind = req[r].kind, req'[r].copy = req[r].copy
      PROVE  StillTrue(r)'
  <2>1. req[r].on \in People
    BY <1>3 DEF IInv, Sound, SoundRequest, Editing, InFlight
  <2>2. \A p \in People : OtherAdmins(p) \subseteq OtherAdmins(p)'
    BY <1>1 DEF OtherAdmins
  <2>3. There(req[r].on)' /\ person'[req[r].on].role = person[req[r].on].role
                          /\ person'[req[r].on].active = person[req[r].on].active
    BY <2>1, <1>3 DEF SameOrMore, StillTrue
  <2>4. ~LeavesNoAdmin(person[req[r].on], req[r].on, req[r].kind)'
    BY <2>1, <2>2, <2>3, <1>3 DEF StillTrue, LeavesNoAdmin
  <2> QED
    BY <2>1, <2>3, <2>4, <1>3 DEF StillTrue, There
<1> QED
  BY <1>2, <1>3

\* A step under which the rows only gain and no edit begins.
LEMMA GainAdminInv ==
  ASSUME AdminInv, IInv', SameOrMore, EditsGoOn
  PROVE  AdminInv' /\ (SomebodyAdministers => SomebodyAdministers')
<1>1. SomebodyAdministers => SomebodyAdministers'
  BY GainKeeps DEF AdminInv
<1>2. ASSUME NEW r \in Requests, Editing(r)', r \notin undercut' PROVE StillTrue(r)'
  <2>1. /\ Editing(r) /\ StillTrue(r)
        /\ req'[r].on = req[r].on /\ req'[r].kind = req[r].kind /\ req'[r].copy = req[r].copy
    BY <1>2 DEF EditsGoOn, AdminInv, ReadingsHold
  <2> QED
    BY <2>1, GainKeeps DEF AdminInv
<1> QED
  BY <1>1, <1>2 DEF AdminInv, ReadingsHold

LEMMA OneRequestMoves ==
  ASSUME IInv, NEW r \in Requests, NEW b, req' = [req EXCEPT ![r] = b],
         b.kind \in Edits /\ b.pc \in {"read", "saved", "revoked"} =>
             /\ Editing(r)
             /\ b.on = req[r].on /\ b.kind = req[r].kind /\ b.copy = req[r].copy,
         undercut \subseteq undercut' \cup {r},
         b.pc \in {"read", "saved", "revoked"} => undercut' = undercut
  PROVE  EditsGoOn
<1>1. req'[r] = b /\ \A x \in Requests : x # r => req'[x] = req[x]
  BY DEF IInv, TypeOK
<1> SUFFICES ASSUME NEW x \in Requests, Editing(x)'
             PROVE  /\ Editing(x) /\ req'[x].on = req[x].on
                    /\ req'[x].kind = req[x].kind /\ req'[x].copy = req[x].copy
                    /\ x \in undercut => x \in undercut'
  BY DEF EditsGoOn
<1>2. CASE x = r
  BY <1>1, <1>2 DEF Editing, InFlight
<1>3. CASE x # r
  BY <1>1, <1>3 DEF Editing, InFlight
<1> QED
  BY <1>2, <1>3

LEMMA SameRows == ASSUME person' = person PROVE SameOrMore
  BY DEF SameOrMore, There

\* What reads, or moves on, without being an edit that begins or is committed.
LEMMA ReadingsEditNothing ==
  ASSUME IInv, NEW r \in Requests,
         \/ \E p \in People, kind \in SignIns : SignIn(r, p, kind)
         \/ \E s \in Requests : Renew(r, s)
         \/ \E l \in Requests : FollowLink(r, l)
         \/ \E p \in People : ChangePassword(r, p)
  PROVE  SameOrMore /\ EditsGoOn
<1>1. UNCHANGED <<person, undercut>>
  BY DEF SignIn, Renew, FollowLink, ChangePassword, Read
<1>2. PICK b : req' = [req EXCEPT ![r] = b] /\ b.kind \notin Edits
  <2>1. CASE \E p \in People, kind \in SignIns : SignIn(r, p, kind)
    <3>1. PICK p \in People, kind \in SignIns : SignIn(r, p, kind)
      BY <2>1
    <3>2. Begin(r, kind, p).kind = kind
      BY DEF Begin, Idle
    <3> QED
      BY <3>1, <3>2, KindsAreDifferent DEF SignIn, Read
  <2>2. CASE \E s \in Requests : Renew(r, s)
    <3>1. PICK s \in Requests : Renew(r, s)
      BY <2>2
    <3>2. [Begin(r, "renew", req[s].on) EXCEPT !.via = s, !.seen = Done(req[s].on)].kind = "renew"
      BY DEF Begin, Idle
    <3> QED
      BY <3>1, <3>2, KindsAreDifferent DEF Renew, Read
  <2>3. CASE \E l \in Requests : FollowLink(r, l)
    <3>1. PICK l \in Requests : FollowLink(r, l)
      BY <2>3
    <3>2. Begin(r, "setByLink", req[l].on).kind = "setByLink"
      BY DEF Begin, Idle
    <3> QED
      BY <3>1, <3>2 DEF FollowLink, Read, Edits
  <2>4. CASE \E p \in People : ChangePassword(r, p)
    <3>1. PICK p \in People : ChangePassword(r, p)
      BY <2>4
    <3>2. Begin(r, "changeOwn", p).kind = "changeOwn"
      BY DEF Begin, Idle
    <3> QED
      BY <3>1, <3>2 DEF ChangePassword, Read, Edits
  <2> QED
    BY <2>1, <2>2, <2>3, <2>4
<1>3. EditsGoOn
  BY <1>1, <1>2, OneRequestMoves
<1> QED
  BY <1>1, <1>3, SameRows

LEMMA MovesEditNothing ==
  ASSUME IInv, NEW r \in Requests,
         \/ \E p \in People : SendLink(r, p)
         \/ Save(r)
         \/ Revoke(r)
         \/ \E p \in People : BackChannel(r, p)
         \/ Abort(r)
  PROVE  SameOrMore /\ EditsGoOn
<1>1. UNCHANGED person
  BY DEF SendLink, Save, Revoke, BackChannel, Abort
<1>2. EditsGoOn
  <2>1. CASE \E p \in People : SendLink(r, p)
    <3>1. PICK p \in People : SendLink(r, p)
      BY <2>1
    <3>2. [Idle EXCEPT !.pc = "done", !.on = p, !.copy = person[p]].pc = "done"
      BY DEF Idle
    <3>3. /\ req' = [req EXCEPT ![r] = [Idle EXCEPT !.pc = "done", !.on = p, !.copy = person[p]]]
          /\ undercut' = undercut
      BY <3>1 DEF SendLink
    <3> QED
      BY <3>2, <3>3, OneRequestMoves
  <2>2. CASE Save(r)
    <3>1. req[r] \in RequestRecords
      BY DEF IInv, TypeOK, RequestRecords
    <3>2. /\ [req[r] EXCEPT !.pc = "saved"].kind = req[r].kind
          /\ [req[r] EXCEPT !.pc = "saved"].on = req[r].on
          /\ [req[r] EXCEPT !.pc = "saved"].copy = req[r].copy
      BY <3>1 DEF RequestRecords
    <3>3. /\ req' = [req EXCEPT ![r] = [req[r] EXCEPT !.pc = "saved"]] /\ InFlight(r)
          /\ undercut' = undercut
      BY <2>2, <3>1 DEF Save, InFlight
    <3> QED
      BY <3>2, <3>3, OneRequestMoves DEF Editing
  <2>3. CASE Revoke(r)
    <3> DEFINE b == [req[r] EXCEPT !.pc = "revoked", !.closing = SessionsOf(req[r].on)]
    <3>1. req[r] \in RequestRecords
      BY DEF IInv, TypeOK, RequestRecords
    <3>2. b.kind = req[r].kind /\ b.on = req[r].on /\ b.copy = req[r].copy
      BY <3>1 DEF RequestRecords
    <3>3. req' = [req EXCEPT ![r] = b] /\ InFlight(r) /\ undercut' = undercut
      BY <2>3, <3>1 DEF Revoke, InFlight
    <3> HIDE DEF b
    <3> QED
      BY <3>2, <3>3, OneRequestMoves DEF Editing
  <2>4. CASE \E p \in People : BackChannel(r, p)
    <3>1. PICK p \in People : BackChannel(r, p)
      BY <2>4
    <3> DEFINE b == [Begin(r, "backChannel", p) EXCEPT !.pc = "revoked", !.closing = SessionsOf(p)]
    <3>2. b.kind = "backChannel"
      BY DEF Begin, Idle
    <3>3. req' = [req EXCEPT ![r] = b] /\ undercut' = undercut
      BY <3>1 DEF BackChannel
    <3> HIDE DEF b
    <3> QED
      BY <3>2, <3>3, OneRequestMoves, KindsAreDifferent
  <2>5. CASE Abort(r)
    <3>1. [Idle EXCEPT !.pc = "failed"].pc = "failed"
      BY DEF Idle
    <3>2. /\ req' = [req EXCEPT ![r] = [Idle EXCEPT !.pc = "failed"]]
          /\ undercut' = undercut \ {r}
      BY <2>5 DEF Abort
    <3> QED
      BY <3>1, <3>2, OneRequestMoves
  <2> QED
    BY <2>1, <2>2, <2>3, <2>4, <2>5
<1> QED
  BY <1>1, <1>2, SameRows

LEMMA OverMoves ==
  ASSUME IInv, NEW r \in Requests, req' = [req EXCEPT ![r] = Over(r)],
         undercut \subseteq undercut' \cup {r}
  PROVE  EditsGoOn
<1>1. Over(r).pc = "done"
  BY DEF Over, Begin, Idle
<1> QED
  BY <1>1, OneRequestMoves

LEMMA IssueEditsNothing ==
  ASSUME IInv, NEW r \in Requests, Issue(r) \/ Rotate(r)
  PROVE  SameOrMore /\ EditsGoOn
<1>1. EditsGoOn
  BY OverMoves DEF Issue, Rotate
<1>2. CASE Issue(r) /\ req[r].kind # "application"
  <2>1. person' = [person EXCEPT ![req[r].on].login = r]
    BY <1>2 DEF Issue
  <2>2. ASSUME NEW p \in People
        PROVE  /\ person'[p].state = person[p].state /\ person'[p].role = person[p].role
               /\ person'[p].active = person[p].active
    <3>1. person \in [People -> Rows]
      BY DEF IInv, TypeOK
    <3> QED
      BY <2>1, <3>1 DEF Rows
  <2> QED
    BY <1>1, <2>2 DEF SameOrMore, There
<1>3. CASE ~(Issue(r) /\ req[r].kind # "application")
  BY <1>1, <1>3, SameRows DEF Issue, Rotate
<1> QED
  BY <1>2, <1>3

LEMMA CreateEditsNothing ==
  ASSUME IInv, NEW by, NEW p \in People, NEW role \in Roles, NEW secret,
         Create(by, p, role, secret)
  PROVE  SameOrMore /\ EditsGoOn
<1>1. EditsGoOn
  BY DEF Create, EditsGoOn, Editing, InFlight
<1>2. ~There(p) /\ \A x \in People \ {p} : person'[x] = person[x]
  BY DEF Create, There, IInv, TypeOK
<1> QED
  BY <1>1, <1>2 DEF SameOrMore, There

\* An edit that begins has just looked.
LEMMA StartEditAdminInv ==
  ASSUME AdminInv, IInv', NEW r \in Requests, NEW by, NEW p \in People,
         NEW kind \in Edits, StartEdit(r, by, p, kind)
  PROVE  AdminInv' /\ (SomebodyAdministers => SomebodyAdministers')
<1> DEFINE b == [Begin(r, kind, p) EXCEPT !.copy = person[p]]
<1>1. b.on = p /\ b.kind = kind /\ b.copy = person[p]
  BY DEF Begin, Idle
<1>2. /\ req'[r] = b /\ (\A x \in Requests : x # r => req'[x] = req[x])
      /\ UNCHANGED <<person, undercut>>
  BY DEF StartEdit, Read, AdminInv, IInv, TypeOK
<1> HIDE DEF b
<1>3. StillTrue(r)'
  BY <1>1, <1>2 DEF StillTrue, StartEdit, There, LeavesNoAdmin, OtherAdmins, Active
<1>4. ASSUME NEW x \in Requests, x # r, Editing(x)', x \notin undercut'
      PROVE  StillTrue(x)'
  <2>1. Editing(x) /\ StillTrue(x)
    BY <1>2, <1>4 DEF Editing, InFlight, AdminInv, ReadingsHold
  <2> QED
    BY <1>2, <1>4, <2>1, SameRows, GainKeeps DEF AdminInv
<1>5. SomebodyAdministers => SomebodyAdministers'
  BY <1>2 DEF SomebodyAdministers, Administers
<1> QED
  BY <1>3, <1>4, <1>5 DEF AdminInv, ReadingsHold

\* A copy of an administrator's row is one still, whichever of these it writes.
LEMMA CopyStaysAdmin ==
  ASSUME NEW copy \in Rows, copy.role = "ADMIN", copy.active, NEW r, NEW new,
         \/ new = [copy EXCEPT !.state = "there"]
         \/ new = [[copy EXCEPT !.state = "there"] EXCEPT !.role = "ADMIN"]
         \/ new = [[copy EXCEPT !.state = "there"] EXCEPT !.secret = r]
         \/ new = [[copy EXCEPT !.state = "there"] EXCEPT !.active = TRUE]
  PROVE  new.state = "there" /\ new.role = "ADMIN" /\ new.active
<1>1. CASE new = [copy EXCEPT !.state = "there"]
  BY <1>1 DEF Rows
<1>2. CASE new = [[copy EXCEPT !.state = "there"] EXCEPT !.role = "ADMIN"]
  BY <1>2 DEF Rows
<1>3. CASE new = [[copy EXCEPT !.state = "there"] EXCEPT !.secret = r]
  BY <1>3 DEF Rows
<1>4. CASE new = [[copy EXCEPT !.state = "there"] EXCEPT !.active = TRUE]
  BY <1>4 DEF Rows
<1> QED
  BY <1>1, <1>2, <1>3, <1>4

\* An edit whose readings hold keeps an administrator, or there is another.
LEMMA TrueEditKeepsAdmin ==
  ASSUME IInv, NEW r \in Requests, Commit(r), Editing(r), StillTrue(r), SomebodyAdministers
  PROVE  SomebodyAdministers'
<1> DEFINE p == req[r].on
           new == Written(r)
<1>1. /\ p \in People /\ person[p] \in Rows /\ req[r].copy \in Rows
      /\ person'[p] = new /\ \A x \in People \ {p} : person'[x] = person[x]
  BY DEF Commit, Editing, InFlight, IInv, Sound, SoundRequest, TypeOK
<1>2. PICK x \in People : Active(x) /\ person[x].role = "ADMIN"
  BY DEF SomebodyAdministers, Administers, Active, There
<1>3. CASE x # p
  BY <1>2, <1>3, <1>1 DEF SomebodyAdministers, Administers, Active, There
<1>4. CASE x = p /\ req[r].kind \in {"demote", "leave", "delete", "erase"}
  <2>1. PICK y \in OtherAdmins(p) : TRUE
    BY <1>2, <1>4 DEF StillTrue, LeavesNoAdmin, Active
  <2>2. y \in People \ {p} /\ Active(y) /\ person[y].role = "ADMIN"
    BY <2>1 DEF OtherAdmins
  <2> QED
    BY <2>2, <1>1 DEF SomebodyAdministers, Administers, Active, There
<1>5. CASE x = p /\ req[r].kind \in {"touch", "promote", "reset", "return"}
  <2> DEFINE copy == req[r].copy
             old == [copy EXCEPT !.state = "there"]
  <2>1. copy \in Rows /\ copy.role = "ADMIN" /\ copy.active
    BY <1>1, <1>2, <1>5 DEF StillTrue, Active
  <2>2. \/ new = old
        \/ new = [old EXCEPT !.role = "ADMIN"]
        \/ new = [old EXCEPT !.secret = r]
        \/ new = [old EXCEPT !.active = TRUE]
    BY <1>5 DEF Written, OwnSecret
  <2>3. new.state = "there" /\ new.role = "ADMIN" /\ new.active
    <3> HIDE DEF p, new, copy
    <3> QED
      BY <2>1, <2>2, CopyStaysAdmin
  <2> QED
    BY <1>1, <2>3 DEF SomebodyAdministers, Administers
<1> QED
  BY <1>3, <1>4, <1>5 DEF Edits, Editing

\* Whoever is not undercut by a commit reads after it what it read before.
LEMMA CommitKeepsReadings ==
  ASSUME AdminInv, IInv', NEW r \in Requests, Commit(r)
  PROVE  ReadingsHold'
<1>0. PICK p, new : p = req[r].on /\ new = Written(r)
  OBVIOUS
<1>1. /\ p \in People /\ person[p] \in Rows
      /\ person'[p] = new /\ \A x \in People \ {p} : person'[x] = person[x]
  BY <1>0 DEF Commit, InFlight, AdminInv, IInv, Sound, SoundRequest, TypeOK
<1>2. Over(r).pc = "done" /\ req'[r] = Over(r)
  BY DEF Commit, Over, Begin, Idle, AdminInv, IInv, TypeOK
<1>3. undercut' = (undercut \cup Undercuts(r)) \ {r}
  BY DEF Commit
<1>4. EditsGoOn
  BY <1>3, OverMoves DEF Commit, AdminInv
<1> SUFFICES ASSUME NEW q \in Requests, Editing(q)', q \notin undercut'
             PROVE  StillTrue(q)'
  BY DEF ReadingsHold
<1>5. q # r
  BY <1>2 DEF Editing, InFlight
<1>6. /\ Editing(q) /\ q \notin undercut /\ q \notin Undercuts(r)
      /\ req'[q].on = req[q].on /\ req'[q].kind = req[q].kind /\ req'[q].copy = req[q].copy
  BY <1>3, <1>4, <1>5 DEF EditsGoOn
<1>7. PICK z \in People : z = req[q].on
  BY <1>6 DEF AdminInv, IInv, Sound, SoundRequest, Editing, InFlight
<1>8. StillTrue(q)
  BY <1>6 DEF AdminInv, ReadingsHold
<1>9. CASE z = p
  <2>1. Standing(new) = Standing(person[p])
    BY <1>0, <1>5, <1>6, <1>7, <1>9 DEF Undercuts
  <2>2. /\ new.state = "there" <=> person[p].state = "there"
        /\ new.role = person[p].role /\ new.active = person[p].active
    BY <2>1 DEF Standing
  <2>3. OtherAdmins(z)' = OtherAdmins(z)
    BY <1>1, <1>9 DEF OtherAdmins, Active, There
  <2> QED
    BY <1>1, <1>6, <1>7, <1>8, <1>9, <2>2, <2>3 DEF StillTrue, There, LeavesNoAdmin
<1>10. CASE z # p
  <2>1. Administers(person[p]) => Administers(new)
    BY <1>0, <1>5, <1>6, <1>7, <1>10 DEF Undercuts
  <2>2. OtherAdmins(z) \subseteq OtherAdmins(z)'
    BY <1>1, <2>1 DEF OtherAdmins, Active, There, Administers
  <2> QED
    BY <1>1, <1>6, <1>7, <1>8, <1>10, <2>2 DEF StillTrue, There, LeavesNoAdmin
<1> QED
  BY <1>9, <1>10

\* A commit that leaves nobody is an edit, and was undercut.
LEMMA CommitAdminInv ==
  ASSUME AdminInv, IInv', NEW r \in Requests, Commit(r)
  PROVE  /\ AdminInv'
         /\ SomebodyAdministers => SomebodyAdministers' \/ r \in undercut
<1>1. /\ InFlight(r) /\ req[r].on \in People /\ person[req[r].on] \in Rows
      /\ person'[req[r].on] = Written(r)
      /\ \A x \in People \ {req[r].on} : person'[x] = person[x]
  BY DEF Commit, InFlight, AdminInv, IInv, Sound, SoundRequest, TypeOK
<1>2. CASE req[r].kind \notin Edits
  <2>1. \/ Written(r) = person[req[r].on]
        \/ Written(r) = [person[req[r].on] EXCEPT !.secret = r, !.login = r]
    BY <1>2 DEF Written, OwnSecret, Edits
  <2>2. /\ Written(r).state = person[req[r].on].state
        /\ Written(r).role = person[req[r].on].role
        /\ Written(r).active = person[req[r].on].active
    BY <1>1, <2>1 DEF Rows
  <2>3. SameOrMore
    BY <1>1, <2>2 DEF SameOrMore, There
  <2> QED
    BY <2>3, GainKeeps, CommitKeepsReadings DEF AdminInv
<1>3. CASE req[r].kind \in Edits
  BY <1>1, <1>3, TrueEditKeepsAdmin, CommitKeepsReadings DEF AdminInv, ReadingsHold, Editing
<1> QED
  BY <1>2, <1>3

LEMMA InitAdminInv == Init => AdminInv
<1> SUFFICES ASSUME Init PROVE AdminInv
  OBVIOUS
<1>1. \A r \in Requests : ~InFlight(r)
  BY FounderAssumption DEF Init, Idle, InFlight
<1> QED
  BY <1>1, InitIInv DEF AdminInv, ReadingsHold, Editing

LEMMA StepAdminInv ==
  ASSUME AdminInv, [Next]_vars
  PROVE  /\ AdminInv'
         /\ SomebodyAdministers => SomebodyAdministers' \/ \E r \in undercut : Commit(r)
<1>0. IInv /\ IInv'
  BY StepIInv DEF AdminInv
<1>1. CASE UNCHANGED vars
  BY <1>0, <1>1, SameRows, GainAdminInv DEF vars, EditsGoOn, Editing, InFlight
<1>2. CASE \E by \in People \cup {App}, p \in People, role \in Roles, secret \in {Unset, "given"} :
              Create(by, p, role, secret)
  BY <1>0, <1>2, CreateEditsNothing, GainAdminInv
<1>3. ASSUME NEW r \in Requests,
             \/ \E p \in People, kind \in SignIns : SignIn(r, p, kind)
             \/ \E s \in Requests : Renew(r, s)
             \/ \E l \in Requests : FollowLink(r, l)
             \/ \E p \in People : ChangePassword(r, p)
      PROVE  AdminInv' /\ (SomebodyAdministers => SomebodyAdministers')
  BY <1>0, <1>3, ReadingsEditNothing, GainAdminInv
<1>4. ASSUME NEW r \in Requests, Issue(r) \/ Rotate(r)
      PROVE  AdminInv' /\ (SomebodyAdministers => SomebodyAdministers')
  BY <1>0, <1>4, IssueEditsNothing, GainAdminInv
<1>5. ASSUME NEW r \in Requests, SignOut(r)
      PROVE  AdminInv' /\ (SomebodyAdministers => SomebodyAdministers')
  <2>1. person' = person /\ EditsGoOn
    BY <1>5 DEF SignOut, EditsGoOn, Editing, InFlight
  <2> QED
    BY <1>0, <2>1, SameRows, GainAdminInv
<1>6. ASSUME NEW r \in Requests,
             \/ \E p \in People : SendLink(r, p)
             \/ Save(r)
             \/ Revoke(r)
             \/ \E p \in People : BackChannel(r, p)
             \/ Abort(r)
      PROVE  AdminInv' /\ (SomebodyAdministers => SomebodyAdministers')
  BY <1>0, <1>6, MovesEditNothing, GainAdminInv
<1>7. ASSUME NEW r \in Requests,
             \E by \in People \cup {App}, p \in People, kind \in Edits : StartEdit(r, by, p, kind)
      PROVE  AdminInv' /\ (SomebodyAdministers => SomebodyAdministers')
  BY <1>0, <1>7, StartEditAdminInv
<1>8. ASSUME NEW r \in Requests, Commit(r)
      PROVE  /\ AdminInv'
             /\ SomebodyAdministers => SomebodyAdministers' \/ r \in undercut
  BY <1>0, <1>8, CommitAdminInv
<1> QED
  BY <1>1, <1>2, <1>3, <1>4, <1>5, <1>6, <1>7, <1>8 DEF Next, Unused

\* The company runs out of administrators only by an edit that another undercut,
\* however sign-ins, renewals, links, passwords and edits overlap and fail: an
\* edit whose reading of its row and of the other administrators still holds when
\* it commits leaves somebody.
THEOREM AdministrationSurvives == Spec => OnlyUndercutEditsLeaveNobody
<1>1. AdminInv /\ [Next]_vars => AdminInv'
  BY StepAdminInv
<1>2. AdminInv /\ [Next]_vars =>
         [SomebodyAdministers => SomebodyAdministers' \/ \E r \in undercut : Commit(r)]_vars
  BY StepAdminInv
<1> QED
  BY <1>1, <1>2, InitAdminInv, PTL DEF Spec, OnlyUndercutEditsLeaveNobody

=============================================================================
