----------------------------- MODULE AccountPool -----------------------------
(***************************************************************************)
(* The rows of the account pool: how accounts are imported, edited, merged *)
(* and deleted (internal/store/cookies.go, the *Validated functions of     *)
(* internal/service/pool.go, and the bridge in internal/desktop/app.go).   *)
(*                                                                         *)
(* An import or edit asks Leonardo whose login it was given, and then      *)
(* changes the table in several statements.  The desktop app runs them in  *)
(* concurrent calls, and the server process runs imports of its own.       *)
(* UpsertCookieAccount and MergeDuplicateCookieAccounts are transactions,  *)
(* and atomic: SQLite lets one writer in, and a transaction that has read  *)
(* an older state fails when it writes.                                    *)
(*                                                                         *)
(* Every row is bound to a Leonardo user here, as rows are that the        *)
(* present program has imported.  How the sweeps bind the rows of its      *)
(* earliest versions, and refresh, disable and enable accounts, is in      *)
(* AccountFlows; some rows are disabled from the start here.               *)
(***************************************************************************)
EXTENDS AccountRow, FiniteSets

CONSTANTS
  NoRow,     \* the content of an id without a row
  MaxId,     \* bound: how many rows can be inserted, AUTOINCREMENT
  Old,       \* the ids of the rows at the start
  InitRows,  \* their possible contents, some deleted already
  Calls,     \* concurrent imports and edits
  Logins,    \* <<cookie, user>>: the users a browser session is, or was,
             \* logged in as; one session can be switched to another user
  UserOf,    \* the user of each JWT
  Pasted     \* what the user may paste: <<cookie or NoPayload, JWT, plain>>,
             \* "plain" if the JWT has no five minutes left

Ids == 1 .. MaxId

ASSUME PoolAssumption ==
  /\ NoRow \notin Row
  /\ MaxId \in Nat
  /\ \E n \in 0 .. MaxId : Old = 1 .. n
  /\ InitRows \subseteq [Old -> Row \cup {NoRow}]
  /\ Logins \subseteq Payloads \X Users
  /\ UserOf \in [Tokens -> Users]
  /\ Pasted \subseteq (Payloads \cup {NoPayload}) \X Tokens \X BOOLEAN
  /\ \A x \in Pasted : IF x[1] = NoPayload THEN ~x[3] ELSE <<x[1], UserOf[x[2]]>> \in Logins
  /\ \A old \in InitRows, i \in Old : old[i] # NoRow =>
       /\ old[i].acct # NoUser
       /\ old[i].payload # NoPayload => <<old[i].payload, old[i].acct>> \in Logins
       /\ \A t \in {old[i].embedded, old[i].jwt} \ {NoToken} : UserOf[t] = old[i].acct
       /\ \A j \in Old \ {i} : old[j] # NoRow =>
            <<old[i].payload, old[i].embedded>> # <<old[j].payload, old[j].embedded>>
       /\ old[i].jwt # NoToken => old[i].status # "invalid"

VARIABLES
  rows,   \* the table: an id's row, or NoRow
  last,   \* the highest id ever given
  call    \* what each import or edit has found out, and where it is

poolVars == <<rows, last, call>>
-----------------------------------------------------------------------------
Live == {i \in Ids : rows[i] # NoRow}
HasRow(u) == \E i \in Live : rows[i].acct = u

Call == [at      : {"idle", "upsert", "check", "write", "profile", "split",
                    "token", "enable", "added"},
         op      : {"none", "add", "bound", "edit"},
         id      : Ids \cup {0},
         payload : Payloads \cup {NoPayload},
         token   : Tokens \cup {NoToken},
         plain   : BOOLEAN]
NoCall == [at |-> "idle", op |-> "none", id |-> 0, payload |-> NoPayload,
           token |-> NoToken, plain |-> FALSE]

TypeOK ==
  /\ rows \in [Ids -> Row \cup {NoRow}]
  /\ last \in 0 .. MaxId
  /\ call \in [Calls -> Call]

At(c, s) == call[c].at = s
Go(c, s) == call' = [call EXCEPT ![c].at = s]
Done(c)  == call' = [call EXCEPT ![c] = NoCall]
Info(c)  == UserOf[call[c].token]  \* GetUserInfo's answer

(* composeStoreAuthValue: "cookie" and "token" lines, or the cookie alone. *)
Embedded(c) == IF call[c].plain THEN NoToken ELSE call[c].token
Holds(r, p, t) == r # NoRow /\ r.payload = p /\ r.embedded = t
Owners(c) == {i \in Ids : Holds(rows[i], call[c].payload, Embedded(c))}
-----------------------------------------------------------------------------
(* validateAndPrepareCookie has succeeded, for a browser cookie p or none, *)
(* with a JWT t that was pasted or that get-session gave.  Without five    *)
(* minutes left the JWT is not stored, and without a cookie there would be *)
(* nothing to store.                                                       *)
Validated(c, op, i, p, t, plain) ==
  /\ At(c, "idle")
  /\ call' = [call EXCEPT ![c] =
       [at |-> IF op = "edit" THEN "check" ELSE "upsert", op |-> op, id |-> i,
        payload |-> p, token |-> t, plain |-> plain]]
  /\ UNCHANGED <<rows, last>>

(* AddCookieValidated.                                                     *)
Add(c, p, t, plain) == Validated(c, "add", 0, p, t, plain)

(* Mutant: the login is not compared with the workspace's account.         *)
Bound_AnyLogin(c, u, p, t, plain) == Validated(c, "bound", 0, p, t, plain)

(* RefreshBoundCookieValidated for the account u: an import from a browser *)
(* that is logged in as another user is refused.                           *)
Bound(c, u, p, t, plain) == UserOf[t] = u /\ Validated(c, "bound", 0, p, t, plain)

(* UpdateCookieValidated, of the row that the user edits.                  *)
Edit(c, i, p, t, plain) == Validated(c, "edit", i, p, t, plain)

(* What an import or edit does after its row has the new value: nothing    *)
(* more is done with a JWT that is not stored beside a cookie.             *)
Storable(c) == ~call[c].plain /\ call[c].payload # NoPayload
End(c) ==
  CASE call[c].op = "add"   -> {"added"}
    [] call[c].op = "bound" -> {"idle"}
    [] call[c].op = "edit"  -> {"enable", "idle"}  \* by the balance
AfterValue(c) == IF Storable(c) THEN {"split"} ELSE End(c)

(* The call goes on with its row i at s.                                   *)
Proceed(c, i, s) ==
  call' = [call EXCEPT ![c] = IF s = "idle" THEN NoCall ELSE [@ EXCEPT !.at = s, !.id = i]]

Oldest(i, S) == i \in S /\ \A j \in S : i <= j

NewRow(p, t, u) ==
  [payload |-> p, embedded |-> t, acct |-> u, jwt |-> NoToken, status |-> "active",
   active |-> TRUE, disabled |-> "", fails |-> 0, reason |-> "", cooling |-> FALSE]

(* The rows an import finds: those of its account, and one that holds the  *)
(* very same value.                                                        *)
Same(c) == {i \in Live : rows[i].acct = Info(c)}
Refused(c) == \E i \in Owners(c) : rows[i].acct # Info(c)

Updated(r, c) == [r EXCEPT !.payload = call[c].payload, !.embedded = Embedded(c),
                           !.active = TRUE, !.disabled = ""]

(* Mutants: the row with the same value is taken over, whoever's it is; a  *)
(* row is always added.                                                    *)
Upsert_TakesOver(c) ==
  /\ At(c, "upsert")
  /\ LET found == Same(c) \cup Owners(c)
     IN  \E i \in Ids :
           /\ Oldest(i, found)
           /\ rows' = [j \in Ids |->
                        IF j = i THEN [Updated(rows[i], c) EXCEPT !.acct = Info(c)]
                        ELSE IF j \in found THEN NoRow ELSE rows[j]]
           /\ \E s \in AfterValue(c) : Proceed(c, i, s)
  /\ UNCHANGED last
Insert_Always(c) ==
  /\ At(c, "upsert")
  /\ ~Refused(c)
  /\ last < MaxId
  /\ last' = last + 1
  /\ rows' = [rows EXCEPT ![last + 1] = NewRow(call[c].payload, Embedded(c), Info(c))]
  /\ \E s \in AfterValue(c) : Proceed(c, last + 1, s)

(* UpsertCookieAccount refuses a value that is another account's row, ...  *)
Refuse(c) ==
  /\ At(c, "upsert")
  /\ Refused(c)
  /\ Done(c)
  /\ UNCHANGED <<rows, last>>

(* ... adds a row for an account without one, ...                          *)
Insert(c) ==
  /\ At(c, "upsert")
  /\ ~Refused(c)
  /\ Same(c) = {}
  /\ last < MaxId
  /\ last' = last + 1
  /\ rows' = [rows EXCEPT ![last + 1] = NewRow(call[c].payload, Embedded(c), Info(c))]
  /\ \E s \in AfterValue(c) : Proceed(c, last + 1, s)

(* ... or updates and enables the oldest of the account's rows, and        *)
(* deletes the others.  The session status is left as it is.               *)
Upsert(c) ==
  /\ At(c, "upsert")
  /\ ~Refused(c)
  /\ \E i \in Ids :
       /\ Oldest(i, Same(c))
       /\ rows' = [j \in Ids |-> IF j = i THEN Updated(rows[i], c)
                                ELSE IF j \in Same(c) THEN NoRow ELSE rows[j]]
       /\ \E s \in AfterValue(c) : Proceed(c, i, s)
  /\ UNCHANGED last
-----------------------------------------------------------------------------
(* Mutant: the row's account is not compared with the pasted login.        *)
Check_AnyAccount(c) ==
  /\ At(c, "check")
  /\ IF rows[call[c].id] # NoRow THEN Go(c, "write") ELSE Done(c)
  /\ UNCHANGED <<rows, last>>

(* UpdateCookieValidated reads the row and compares its account, ...       *)
Check(c) ==
  /\ At(c, "check")
  /\ IF rows[call[c].id] # NoRow /\ rows[call[c].id].acct \in {NoUser, Info(c)}
     THEN Go(c, "write")
     ELSE Done(c)
  /\ UNCHANGED <<rows, last>>

(* UpdateCookieValue: a missing row and the UNIQUE constraint are passed   *)
(* over.  (Its statement that reads the value is not told apart.)          *)
Writable(i, p, t) == rows[i] # NoRow /\ \A j \in Ids : ~Holds(rows[j], p, t)

(* ... stores the value, if that changes anything, ...                     *)
Write(c) ==
  /\ At(c, "write")
  /\ LET i == call[c].id
     IN  IF Writable(i, call[c].payload, Embedded(c))
         THEN /\ rows' = [rows EXCEPT ![i].payload = call[c].payload, ![i].embedded = Embedded(c)]
              /\ Go(c, "profile")
         ELSE /\ Done(c)
              /\ UNCHANGED rows
  /\ UNCHANGED last

(* ... and the profile.  UpdateCookieProfile reads the account before it   *)
(* writes it; the two are one step, because no row changes its account.    *)
(* That it refused is not noticed.                                         *)
BindProfile(c) ==
  /\ At(c, "profile")
  /\ LET i == call[c].id
     IN  /\ rows' = IF rows[i] = NoRow \/ RefusesProfile(rows[i], Info(c)) THEN rows
                    ELSE [rows EXCEPT ![i] = SetProfile(@, Info(c))]
         /\ \E s \in AfterValue(c) : Proceed(c, i, s)
  /\ UNCHANGED last

(* refreshFallbackToken: the value without its token line, ...             *)
Split(c) ==
  /\ At(c, "split")
  /\ LET i == call[c].id
     IN  rows' = IF Writable(i, call[c].payload, NoToken)
                 THEN [rows EXCEPT ![i] = UpdateCookieValue(@, call[c].payload)]
                 ELSE rows
  /\ Go(c, "token")
  /\ UNCHANGED last

(* Mutant: the JWT is put in its column, and no more.                      *)
StoreToken_NoStatus(c) ==
  /\ At(c, "token")
  /\ LET i == call[c].id
     IN  /\ rows' = IF rows[i] = NoRow THEN rows ELSE [rows EXCEPT ![i].jwt = call[c].token]
         /\ \E s \in End(c) : Proceed(c, i, s)
  /\ UNCHANGED last

(* ... and the JWT, with the state of a working session.                   *)
StoreToken(c) ==
  /\ At(c, "token")
  /\ LET i == call[c].id
     IN  /\ rows' = IF rows[i] = NoRow THEN rows
                    ELSE [rows EXCEPT ![i] = UpdateCookieSessionSuccess(@, call[c].token)]
         /\ \E s \in End(c) : Proceed(c, i, s)
  /\ UNCHANGED last

(* An edit enables the account again.                                      *)
Enable(c) ==
  /\ At(c, "enable")
  /\ LET i == call[c].id
     IN  rows' = IF rows[i] = NoRow THEN rows ELSE [rows EXCEPT ![i] = ToggleCookie(@, TRUE)]
  /\ Done(c)
  /\ UNCHANGED last

(* A successful AddCookieValidated returns.                                *)
Leave(c) ==
  /\ At(c, "added")
  /\ Done(c)
  /\ UNCHANGED <<rows, last>>

ImportStep(c) == Refuse(c) \/ Insert(c) \/ Upsert(c) \/ Split(c) \/ StoreToken(c)
EditStep(c)   == Check(c) \/ Write(c) \/ BindProfile(c) \/ Enable(c)
-----------------------------------------------------------------------------
(* DeleteCookie.                                                           *)
Delete(i) ==
  /\ i \in Live
  /\ rows' = [rows EXCEPT ![i] = NoRow]
  /\ UNCHANGED <<last, call>>

(* MergeDuplicateCookieAccounts, at the start of both processes and after  *)
(* every sweep, keeps the row of an account that was checked last.         *)
Merge ==
  /\ \E kept \in SUBSET Live :
       /\ \A i \in Live : \E j \in kept : rows[j].acct = rows[i].acct
       /\ \A i, j \in kept : rows[i].acct = rows[j].acct => i = j
       /\ kept # Live
       /\ rows' = [i \in Ids |-> IF i \in kept THEN rows[i] ELSE NoRow]
  /\ UNCHANGED <<last, call>>

PoolInit ==
  /\ \E old \in InitRows : rows = [i \in Ids |-> IF i \in Old THEN old[i] ELSE NoRow]
  /\ last = Cardinality(Old)
  /\ call = [c \in Calls |-> NoCall]

(* What the user pastes, and what the browser workspaces of an account     *)
(* give; Workspaces says when they do.                                     *)
PoolNext ==
  \/ \E c \in Calls, x \in Pasted :
       \/ Add(c, x[1], x[2], x[3])
       \/ \E u \in Users : Bound(c, u, x[1], x[2], x[3])
       \/ \E i \in Live : Edit(c, i, x[1], x[2], x[3])
  \/ \E c \in Calls : ImportStep(c) \/ EditStep(c) \/ Leave(c)
  \/ \E i \in Live : Delete(i)
  \/ Merge

PoolSpec == PoolInit /\ [][PoolNext]_poolVars
-----------------------------------------------------------------------------
(* A row's cookie and JWTs are of a login of the row's own account, however
   imports, edits, merges and deletions interleave and however the browser
   sessions were switched: "an edit cannot repurpose an existing account slot
   into a different Leonardo account" (cookies.go:258-260).                *)
CredentialsMatch ==
  \A i \in Live :
    /\ rows[i].payload # NoPayload => <<rows[i].payload, rows[i].acct>> \in Logins
    /\ \A t \in {rows[i].embedded, rows[i].jwt} \ {NoToken} : UserOf[t] = rows[i].acct

(* "UpsertCookieAccount stores one row per stable Leonardo account id"
   (cookies.go:44): only rows that were there before can share an account. *)
OneRowPerAccount ==
  \A i, j \in Live : i # j /\ rows[i].acct = rows[j].acct => {i, j} \subseteq Old

(* No import, edit or merge makes an account disappear from the pool
   (cookies.go:83-88); only the user's own deletion does.                  *)
AccountKept ==
  [][\A u \in Users : HasRow(u) => HasRow(u)' \/ \E i \in Live : Delete(i)]_poolVars

(* An enabled account with a JWT is not in the state that every scheduler
   skips, however it was imported and edited (pool.go:778-781,
   cookies.go:148-153).                                                    *)
ImportedNotStuck ==
  \A i \in Live : rows[i].active /\ rows[i].jwt # NoToken => rows[i].status # "invalid"
=============================================================================
