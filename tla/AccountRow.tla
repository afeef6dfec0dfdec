----------------------------- MODULE AccountRow -----------------------------
(***************************************************************************)
(* One row of the "cookies" table and the SQL statements that change it    *)
(* (internal/store/cookies.go).  Every statement is atomic: SQLite runs    *)
(* one writer at a time, in each process and across the two processes.     *)
(* A statement that fails (a full disk, 30 seconds of contention) and the  *)
(* UNIQUE constraint on "value", which concerns several rows, are left out.*)
(* An operator below takes the row before the statement and returns the    *)
(* row after it.                                                           *)
(*                                                                         *)
(* The data is abstracted to what the flows tell apart.  A browser cookie  *)
(* is a member of Payloads, a JWT a member of Tokens, a Leonardo user id a *)
(* member of Users.  error_until is the Boolean "cooling" (is it in the    *)
(* future?).  last_error, last_checked_at, last_used_at, email and the     *)
(* balance are left out: no branch of the modelled flows that changes the  *)
(* other columns reads them, except the five-minute fallback of            *)
(* shouldSkipCookieNow, which can only make a job skip the account.        *)
(* The refresh lease columns are the variable "lease" of SessionManager.   *)
(***************************************************************************)
EXTENDS Naturals

CONSTANTS
  Users,      \* Leonardo user ids
  NoUser,     \* the empty account_id of a legacy row
  Payloads,   \* browser cookies (the durable credential)
  NoPayload,  \* the payload of a row that stores only "token=..."
  Tokens,     \* JWTs
  NoToken,    \* the empty jwt_token column
  FailCap     \* bound: refresh_fail_count is counted up to FailCap

ASSUME RowAssumption ==
  /\ NoUser \notin Users
  /\ NoPayload \notin Payloads
  /\ NoToken \notin Tokens
  /\ FailCap \in Nat /\ FailCap >= 2

Status  == {"active", "temporary_unavailable", "invalid"}
Reasons == {"", "INVALID", "ACCOUNT_CHANGED", "DEPLETED"}

(* Why a refresh failed: the login is dead ("auth", HTTP 401 or an expired *)
(* JWT), or anything SessionRefreshError.Temporary() covers (429, 403 and  *)
(* other challenges, network, 5xx, invalid response, response without JWT).*)
FailureKinds == {"auth", "temporary"}

(* The columns.  "value" is split in its cookie part (payload) and the     *)
(* token line of the older "cookie=...\ntoken=..." format (embedded).      *)
Row == [payload  : Payloads \cup {NoPayload},
        embedded : Tokens \cup {NoToken},
        acct     : Users \cup {NoUser},
        jwt      : Tokens \cup {NoToken},
        status   : Status,
        active   : BOOLEAN,
        disabled : Reasons,
        fails    : 0..FailCap,
        reason   : FailureKinds \cup {""},
        cooling  : BOOLEAN]

(* The JWT a caller finds in a row: the jwt_token column, else the token   *)
(* line of the stored value.                                               *)
ParsedToken(r) == IF r.jwt # NoToken THEN r.jwt ELSE r.embedded

(* disabled_reason values that a successful refresh undoes, and those the  *)
(* recovery sweep looks at.                                                *)
SelfHealing == {"INVALID"}
Recoverable == {"INVALID", "ACCOUNT_CHANGED"}

UpdateCookieValue(r, p) ==
  IF p = NoPayload THEN r ELSE [r EXCEPT !.payload = p, !.embedded = NoToken]

(* Mutant: re-enabling an account does not reset its session status.       *)
ToggleCookie_KeepsStatus(r, enabled) ==
  IF enabled
  THEN [r EXCEPT !.active = TRUE, !.disabled = "", !.cooling = FALSE]
  ELSE [r EXCEPT !.active = FALSE]

ToggleCookie(r, enabled) ==
  IF enabled
  THEN [r EXCEPT !.active = TRUE, !.status = "active", !.disabled = "", !.cooling = FALSE]
  ELSE [r EXCEPT !.active = FALSE]

UpdateCookieSessionSuccess(r, t) ==
  LET healed == r.disabled \in SelfHealing
  IN  [r EXCEPT !.jwt = t, !.status = "active", !.fails = 0, !.reason = "",
                !.cooling = FALSE,
                !.active = IF healed THEN TRUE ELSE @,
                !.disabled = IF healed THEN "" ELSE @]

ClearCookieSessionJWT(r) == [r EXCEPT !.jwt = NoToken]

(* The count this failure brings the row to: consecutive failures with the *)
(* same reason add up, another reason starts again at one.  The reasons of *)
(* temporary failures are not told apart, so theirs stays at one; it has   *)
(* no effect.                                                              *)
FailureCount(r, kind) ==
  IF kind = "auth" /\ r.reason = "auth"
  THEN IF r.fails < FailCap THEN r.fails + 1 ELSE FailCap
  ELSE 1

RecordCookieRefreshFailure(r, kind) ==
  [r EXCEPT !.fails = FailureCount(r, kind), !.reason = kind, !.cooling = TRUE]

(* Mutant: the reason is the status as it is written, in lower case.       *)
SetInvalid_LowerCaseReason(r) ==
  [r EXCEPT !.status = "invalid", !.active = FALSE, !.disabled = "invalid"]

SetTemporary(r) == [r EXCEPT !.status = "temporary_unavailable"]
SetInvalid(r)   == [r EXCEPT !.status = "invalid", !.active = FALSE, !.disabled = "INVALID"]

AutoDisableCookie(r, why) == [r EXCEPT !.active = FALSE, !.disabled = why]

(* UpdateCookieProfile is two statements: it reads the account id, refuses *)
(* to replace it by another one, and then writes the id it was given, even *)
(* the empty one.                                                          *)
RefusesProfile(r, id) == r.acct # NoUser /\ id # NoUser /\ r.acct # id
SetProfile(r, id) == [r EXCEPT !.acct = id]
=============================================================================
