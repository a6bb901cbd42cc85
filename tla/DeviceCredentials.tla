-------------------------- MODULE DeviceCredentials --------------------------
(***************************************************************************)
(* The server's device credentials: enrollment tokens that admit a device, *)
(* device tokens that let it sync, and the operator's revoke, rotate and   *)
(* delete.                                                                 *)
(*                                                                         *)
(* Code: internal/api/{auth,devices,audit}.go, internal/web/               *)
(* pages_devices.go, internal/auth/token.go and the tables tokens,         *)
(* devices and audit_events of internal/store/sqlitestore.                 *)
(*                                                                         *)
(* A handler is a sequence of store calls. Each call is one SQL statement  *)
(* or one transaction, and the store has a single connection, so a call is *)
(* atomic; but nothing is held from one call to the next, so the calls of  *)
(* concurrent requests interleave. That is the grain here: one action per  *)
(* store call that changes a table or decides how the handler goes on. A   *)
(* request that is refused changes nothing and is not an action.           *)
(***************************************************************************)
EXTENDS Naturals

CONSTANTS Device,      \* device ids the server may draw (uuids)
          Token,       \* token lookups the server may draw
          Request,     \* handlers in flight
          NoDevice,    \* the empty subject of an unconsumed enrollment token
          EnrollTTL,   \* lifetime of an enrollment token
          MaxTime      \* bound on the clock

ASSUME DeviceAssumption == NoDevice \notin Device
ASSUME ClockAssumption == EnrollTTL \in Nat \ {0} /\ MaxTime \in Nat

VARIABLES
  device,    \* devices: each id unborn, trusted, revoked (revoked_at) or deleted
  kind,      \* tokens.kind, "none" for a lookup not drawn yet
  subject,   \* tokens.subject_id
  expires,   \* tokens.expires_at of an enrollment token
  used,      \* tokens with used_at set
  revoked,   \* tokens with revoked_at set
  audit,     \* audit_events: <<action, subject id>>
  now,       \* the wall clock
  pc,        \* where each handler is: what it is about to do
  subj       \* the device a handler works on, or the token it has minted

\* History: what the properties need to remember and the code does not keep.
VARIABLES
  prior,     \* the device tokens there were when a handler began
  contended  \* devices on which two handlers have been in flight at once

tokenVars == <<kind, subject, expires, used, revoked>>
handlerVars == <<pc, subj>>
historyVars == <<prior, contended>>
vars == <<device, tokenVars, audit, now, handlerVars, historyVars>>

-----------------------------------------------------------------------------

AuditAction == {"device.enrollment_minted", "device.revoked",
                "device.rotated", "device.deleted"}

\* A handler between two of its writes to the credentials of its device.
Writing == {"register.issue", "revoke.tokens", "rotate.revoke",
            "rotate.issue", "delete.row"}

\* A handler whose credentials are written and whose audit append is owed is
\* at the action it is about to append.
PC == {"idle"} \cup Writing \cup AuditAction

TokensOf(d) == {t \in Token : kind[t] = "device" /\ subject[t] = d}

\* auth.Verify for kind device: not revoked. Device tokens carry no expiry.
LiveTokens(d) == TokensOf(d) \ revoked

Writers(d) == {r \in Request : subj[r] = d /\ pc[r] \in Writing}

RowExists(d) == device[d] \in {"trusted", "revoked"}

TypeOK ==
  /\ device \in [Device -> {"unborn", "trusted", "revoked", "deleted"}]
  /\ kind \in [Token -> {"none", "enrollment", "device"}]
  /\ subject \in [Token -> Device \cup {NoDevice}]
  /\ expires \in [Token -> Nat]
  /\ used \subseteq Token
  /\ revoked \subseteq Token
  /\ audit \subseteq AuditAction \X (Device \cup Token)
  /\ now \in Nat
  /\ pc \in [Request -> PC]
  /\ subj \in [Request -> Device \cup Token \cup {NoDevice}]
  /\ prior \in [Request -> SUBSET Token]
  /\ contended \subseteq Device
  /\ \A r \in Request : /\ pc[r] \in Writing => subj[r] \in Device
                        /\ pc[r] \in AuditAction => subj[r] \in Device \cup Token

Init ==
  /\ device = [d \in Device |-> "unborn"]
  /\ kind = [t \in Token |-> "none"]
  /\ subject = [t \in Token |-> NoDevice]
  /\ expires = [t \in Token |-> 0]
  /\ used = {}
  /\ revoked = {}
  /\ audit = {}
  /\ now = 0
  /\ pc = [r \in Request |-> "idle"]
  /\ subj = [r \in Request |-> NoDevice]
  /\ prior = [r \in Request |-> {}]
  /\ contended = {}

-----------------------------------------------------------------------------
(* How a handler begins, goes on and ends. *)

\* Handler r starts to write to the credentials of d, and goes on at label l.
Begin(r, d, l) ==
  /\ pc[r] = "idle"
  /\ pc' = [pc EXCEPT ![r] = l]
  /\ subj' = [subj EXCEPT ![r] = d]
  /\ prior' = [prior EXCEPT ![r] = TokensOf(d)]
  /\ contended' = IF Writers(d) = {} THEN contended ELSE contended \cup {d}

GoOn(r, from, to) ==
  /\ pc[r] = from
  /\ pc' = [pc EXCEPT ![r] = to]
  /\ UNCHANGED <<subj, historyVars>>

\* The handler returns, and its locals are gone.
Return(r) ==
  /\ pc' = [pc EXCEPT ![r] = "idle"]
  /\ subj' = [subj EXCEPT ![r] = NoDevice]
  /\ prior' = [prior EXCEPT ![r] = {}]
  /\ UNCHANGED contended

-----------------------------------------------------------------------------
(* Statements on the tokens table. *)

\* Tokens().Create of a device token for d under the fresh lookup t.
CreateDeviceToken(t, d) ==
  /\ kind[t] = "none"
  /\ kind' = [kind EXCEPT ![t] = "device"]
  /\ subject' = [subject EXCEPT ![t] = d]
  /\ UNCHANGED <<expires, used, revoked>>

\* Mutant: the statement filters on the wrong kind.
RevokeSubjectOfWrongKind(d) ==
  /\ revoked' = revoked \cup {t \in Token : kind[t] = "enrollment" /\ subject[t] = d}
  /\ UNCHANGED <<kind, subject, expires, used>>

\* Tokens().RevokeSubject(device, d): every unrevoked device token of d.
RevokeSubject(d) ==
  /\ revoked' = revoked \cup TokensOf(d)
  /\ UNCHANGED <<kind, subject, expires, used>>

\* Mutants: the WHERE clause without used_at, and without expires_at.
ConsumableTwice(t) == kind[t] = "enrollment" /\ t \notin revoked /\ expires[t] > now

ConsumableLate(t) == kind[t] = "enrollment" /\ t \notin used \cup revoked

\* The WHERE clause of ConsumeEnrollmentToken.
Consumable(t) ==
  /\ kind[t] = "enrollment"
  /\ t \notin used
  /\ t \notin revoked
  /\ expires[t] > now

-----------------------------------------------------------------------------
(* The handlers. *)

\* Mutant: the lifetime is subtracted.
MintEnrollmentBackdated(r, t) ==
  /\ pc[r] = "idle"
  /\ kind[t] = "none"
  /\ kind' = [kind EXCEPT ![t] = "enrollment"]
  /\ expires' = [expires EXCEPT ![t] = now - EnrollTTL]
  /\ pc' = [pc EXCEPT ![r] = "device.enrollment_minted"]
  /\ subj' = [subj EXCEPT ![r] = t]
  /\ UNCHANGED <<device, subject, used, revoked, audit, now, historyVars>>

\* POST /enrollment-tokens and the web's "copy the commands": the expiry is
\* the handler's clock plus the lifetime; then the token is created.
MintEnrollment(r, t) ==
  /\ pc[r] = "idle"
  /\ kind[t] = "none"
  /\ kind' = [kind EXCEPT ![t] = "enrollment"]
  /\ expires' = [expires EXCEPT ![t] = now + EnrollTTL]
  /\ pc' = [pc EXCEPT ![r] = "device.enrollment_minted"]
  /\ subj' = [subj EXCEPT ![r] = t]
  /\ UNCHANGED <<device, subject, used, revoked, audit, now, historyVars>>

\* POST /devices/register, first call: one transaction spends the enrollment
\* token and inserts the device under a fresh id.
RegisterConsume(r, t, d) ==
  /\ Consumable(t)
  /\ device[d] = "unborn"
  /\ used' = used \cup {t}
  /\ subject' = [subject EXCEPT ![t] = d]
  /\ device' = [device EXCEPT ![d] = "trusted"]
  /\ Begin(r, d, "register.issue")
  /\ UNCHANGED <<kind, expires, revoked, audit, now>>

\* ... second call: the device token, in a write of its own. Registration is
\* device traffic and is not audited.
RegisterIssue(r, t) ==
  /\ pc[r] = "register.issue"
  /\ CreateDeviceToken(t, subj[r])
  /\ Return(r)
  /\ UNCHANGED <<device, audit, now>>

\* POST /devices/{id}/revoke, API and web: mark the row (404 without one) ...
RevokeRow(r, d) ==
  /\ RowExists(d)
  /\ device' = [device EXCEPT ![d] = "revoked"]
  /\ Begin(r, d, "revoke.tokens")
  /\ UNCHANGED <<tokenVars, audit, now>>

\* ... then revoke its device tokens.
RevokeTokens(r) ==
  /\ GoOn(r, "revoke.tokens", "device.revoked")
  /\ RevokeSubject(subj[r])
  /\ UNCHANGED <<device, audit, now>>

\* Mutant: rotating trusts the device again.
RotateGetTrusting(r, d) ==
  /\ RowExists(d)
  /\ device' = [device EXCEPT ![d] = "trusted"]
  /\ Begin(r, d, "rotate.revoke")
  /\ UNCHANGED <<tokenVars, audit, now>>

\* POST /devices/{id}/token, API and web: the row must exist, and whether it
\* is revoked is not asked ...
RotateGet(r, d) ==
  /\ RowExists(d)
  /\ Begin(r, d, "rotate.revoke")
  /\ UNCHANGED <<device, tokenVars, audit, now>>

\* Mutant: the error of the revocation is dropped.
RotateRevokeUnchecked(r) ==
  /\ GoOn(r, "rotate.revoke", "rotate.issue")
  /\ RevokeSubject(subj[r]) \/ UNCHANGED tokenVars
  /\ UNCHANGED <<device, audit, now>>

\* ... the device's tokens are revoked ...
RotateRevoke(r) ==
  /\ GoOn(r, "rotate.revoke", "rotate.issue")
  /\ RevokeSubject(subj[r])
  /\ UNCHANGED <<device, audit, now>>

\* ... and the replacement is created.
RotateIssue(r, t) ==
  /\ GoOn(r, "rotate.issue", "device.rotated")
  /\ CreateDeviceToken(t, subj[r])
  /\ UNCHANGED <<device, audit, now>>

\* Mutant: the tokens are left to a cascade that the schema does not have.
DeleteTokensByCascade(r, d) ==
  /\ device[d] # "unborn"
  /\ Begin(r, d, "delete.row")
  /\ UNCHANGED <<device, tokenVars, audit, now>>

\* DELETE /devices/{id}: revoke the tokens of the id, whether or not a row is
\* left (the label read before it may fail) ...
DeleteTokens(r, d) ==
  /\ device[d] # "unborn"
  /\ RevokeSubject(d)
  /\ Begin(r, d, "delete.row")
  /\ UNCHANGED <<device, audit, now>>

\* Mutant: the error of the delete is dropped.
DeleteRowUnchecked(r) ==
  /\ GoOn(r, "delete.row", "device.deleted")
  /\ UNCHANGED <<device, tokenVars, audit, now>>

\* ... then delete the row ...
DeleteRow(r) ==
  /\ GoOn(r, "delete.row", "device.deleted")
  /\ RowExists(subj[r])
  /\ device' = [device EXCEPT ![subj[r]] = "deleted"]
  /\ UNCHANGED <<tokenVars, audit, now>>

\* ... or find it gone, and answer 404 with nothing audited.
DeleteMissing(r) ==
  /\ pc[r] = "delete.row"
  /\ ~RowExists(subj[r])
  /\ Return(r)
  /\ UNCHANGED <<device, tokenVars, audit, now>>

\* The audit append that ends an operator's handler: the action, and the id of
\* its subject, the token for a mint and the device otherwise.
AppendAudit(r) ==
  /\ pc[r] \in AuditAction
  /\ audit' = audit \cup {<<pc[r], subj[r]>>}
  /\ Return(r)
  /\ UNCHANGED <<device, tokenVars, now>>

\* A store call fails, the 20 s handler timeout or the client's hang-up cancels
\* the request's context, or the process dies: what is written stays written
\* and the rest of the handler does not happen. A failed audit append is logged
\* and the handler succeeds without it, which leaves the same state.
Abort(r) ==
  /\ pc[r] # "idle"
  /\ Return(r)
  /\ UNCHANGED <<device, tokenVars, audit, now>>

Tick ==
  /\ now < MaxTime
  /\ now' = now + 1
  /\ UNCHANGED <<device, tokenVars, audit, handlerVars, historyVars>>

Handler(r) ==
  \/ \E t \in Token : MintEnrollment(r, t)
  \/ \E t \in Token, d \in Device : RegisterConsume(r, t, d)
  \/ \E t \in Token : RegisterIssue(r, t)
  \/ \E d \in Device : RevokeRow(r, d)
  \/ RevokeTokens(r)
  \/ \E d \in Device : RotateGet(r, d)
  \/ RotateRevoke(r)
  \/ \E t \in Token : RotateIssue(r, t)
  \/ \E d \in Device : DeleteTokens(r, d)
  \/ DeleteRow(r)
  \/ DeleteMissing(r)
  \/ AppendAudit(r)
  \/ Abort(r)

Next == Tick \/ \E r \in Request : Handler(r)

Spec == Init /\ [][Next]_vars

-----------------------------------------------------------------------------
(* Properties. *)

\* An enrollment token is spent exactly when a device was born of it, and each
\* device was born of a token of its own: no interleaving of registrations
\* admits two devices on one token, and no failure leaves a token spent
\* without a device or a device without a spent token
\* (store.TokenRepo.ConsumeEnrollment).
EnrollmentIntact ==
  /\ \A t \in Token : kind[t] = "enrollment" =>
       (t \in used <=> subject[t] \in Device)
  /\ \A d \in Device : device[d] # "unborn" =>
       \E t \in used : kind[t] = "enrollment" /\ subject[t] = d

\* Whatever else is in flight, a revoke, rotate or delete that has revoked the
\* tokens of its device leaves none of the tokens it found there alive: the
\* order of the calls in handleDevicesRevoke, handleDevicesRotateToken and
\* handleDevicesDelete.
PriorTokensDead ==
  \A r \in Request :
    pc[r] \in {"rotate.issue", "delete.row", "device.revoked",
               "device.rotated", "device.deleted"}
      => prior[r] \subseteq revoked

\* A device on which no two handlers were ever in flight at once has at most
\* one token that authenticates, whichever calls failed on the way: what
\* revoke-before-mint buys in handleDevicesRotateToken.
OneCredentialUnlessContended ==
  \A d \in Device \ contended : \A t, u \in LiveTokens(d) : t = u

\* Such a device, once deleted, has none: the order of handleDevicesDelete.
DeletedIsLockedOutUnlessContended ==
  \A d \in Device \ contended : device[d] = "deleted" => LiveTokens(d) = {}

\* What the rows show once action a was taken on subject s.
Shown(a, s) ==
  \/ a = "device.enrollment_minted" /\ s \in Token /\ kind[s] = "enrollment"
  \/ a = "device.revoked" /\ s \in Device /\ device[s] \in {"revoked", "deleted"}
  \/ a = "device.rotated" /\ s \in Device /\ TokensOf(s) # {}
  \/ a = "device.deleted" /\ s \in Device /\ device[s] = "deleted"

\* The audit log never claims what did not happen: whatever stopped halfway, an
\* event is there only when the rows show its effect, then and ever after
\* (internal/api/audit.go, appended after the writes).
AuditIsTruthful == \A e \in audit : Shown(e[1], e[2])

\* What the operator took away stays away: no step brings back a deleted or a
\* revoked device row, a spent enrollment token or a revoked token.
NothingIsRestored ==
  [][/\ used \subseteq used'
     /\ revoked \subseteq revoked'
     /\ \A d \in Device :
          /\ device[d] = "deleted" => device'[d] = "deleted"
          /\ device[d] = "revoked" => device'[d] # "trusted"]_vars

\* The enrollment tokens, as OneTimeEnrollment's tickets.
OneTime == INSTANCE OneTimeEnrollment WITH
  Ticket <- Token,
  Member <- Device,
  state <- [t \in Token |->
              IF kind[t] # "enrollment" THEN "unissued"
              ELSE IF t \in used THEN "spent"
              ELSE IF expires[t] > now THEN "open" ELSE "lapsed"],
  admits <- {p \in used \X Device :
               kind[p[1]] = "enrollment" /\ subject[p[1]] = p[2]}

\* The server keeps the promise of OneTimeEnrollment.
ImplementsOneTimeEnrollment == OneTime!Spec

\* README and device documentation: revoking a device cuts it off. Once the
\* audit log says device.revoked, no token of the device authenticates.
RevokedIsLockedOut ==
  \A d \in Device : <<"device.revoked", d>> \in audit => LiveTokens(d) = {}

\* handleDevicesRotateToken's comment: no window in which the old and the new
\* token both authenticate. A device never has two live tokens.
OneCredential ==
  \A d \in Device : \A t, u \in LiveTokens(d) : t = u

=============================================================================
