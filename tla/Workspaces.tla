----------------------------- MODULE Workspaces ------------------------------
(***************************************************************************)
(* The browser workspaces of the Leonardo accounts: isolated Chrome        *)
(* profiles, each bound to one account of the pool, from which its cookie  *)
(* is read when the user imports it or when the server's sweep could not   *)
(* renew the session (internal/leonardo/workspaces_windows.go, the bridge  *)
(* in internal/desktop/app.go, and cmd/server/main.go).                    *)
(*                                                                         *)
(* The bindings live in workspaces.json, the rows in the pool's table: no  *)
(* transaction covers both.  Every operation reads the whole file, works   *)
(* on its copy (a launch for up to 12 seconds) and writes the whole file,  *)
(* without a lock, so reading and saving are two steps here.  A save that  *)
(* fails or is torn by a crash is left out.                                *)
(*                                                                         *)
(* The user may log each Chrome profile in as anybody at any time, so what *)
(* is read from a profile is any member of Pasted, or nothing.             *)
(***************************************************************************)
EXTENDS AccountPool

CONSTANTS
  Spaces,  \* bound: workspace ids at one time; the code's are random
  Absent   \* what the file holds of an id that it does not list

Entry == [owner : Users \cup {NoUser}, chrome : BOOLEAN]

ASSUME SpacesAssumption == Absent \notin Entry

VARIABLES
  file,    \* workspaces.json
  ws,      \* what each call has read of it, and where it is
  deleted  \* history: the accounts the user has deleted

spaceVars == <<file, ws, deleted>>
vars == <<poolVars, spaceVars>>
-----------------------------------------------------------------------------
Files == [Spaces -> Entry \cup {Absent}]
NoFile == [w \in Spaces |-> Absent]
Owned(f) == {f[w].owner : w \in {x \in Spaces : f[x] # Absent}} \ {NoUser}

(* "space": the workspace the call is about, "acct": its account, "list":  *)
(* the file as the call has read it, "valid" and "todo": the accounts with *)
(* a row, and those whose workspaces are to be removed, "all": a listing.  *)
SpaceCall == [at    : {"idle", "launch", "read", "import", "bind", "rows", "remove",
                       "drop", "relist", "sync", "ensure"},
              space : Spaces \cup {Absent},
              acct  : Users \cup {NoUser},
              list  : Files,
              valid : SUBSET Users,
              todo  : SUBSET Users,
              all   : BOOLEAN]
Idle == [at |-> "idle", space |-> Absent, acct |-> NoUser, list |-> NoFile,
         valid |-> {}, todo |-> {}, all |-> FALSE]

WorkspacesTypeOK ==
  /\ TypeOK
  /\ file \in Files
  /\ ws \in [Calls -> SpaceCall]
  /\ deleted \subseteq Users

Is(c, s)  == ws[c].at = s
Free(c)   == Is(c, "idle") /\ At(c, "idle")
Return(c) == ws' = [ws EXCEPT ![c] = Idle]
Set(c, r) == ws' = [ws EXCEPT ![c] = r]

(* workspaceID: no file, present or read, lists it.                        *)
Fresh(w) ==
  /\ file[w] = Absent
  /\ \A c \in Calls : ws[c].space # w /\ ws[c].list[w] = Absent
-----------------------------------------------------------------------------
(* Launch and Reopen read the file, start Chrome and wait for it, ...      *)
Launch(c, w) ==
  /\ Free(c)
  /\ Fresh(w) \/ file[w] # Absent
  /\ Set(c, [Idle EXCEPT !.at = "launch", !.space = w, !.list = file])
  /\ UNCHANGED <<poolVars, file, deleted>>

(* ... and write what they have read, with the workspace opened, ...       *)
Opened(e) == IF e = Absent THEN [owner |-> NoUser, chrome |-> TRUE] ELSE [e EXCEPT !.chrome = TRUE]
LaunchSave(c) ==
  /\ Is(c, "launch")
  /\ file' = [ws[c].list EXCEPT ![ws[c].space] = Opened(@)]
  /\ Return(c)
  /\ UNCHANGED <<poolVars, deleted>>

(* ... unless Chrome does not come up.                                     *)
LaunchFails(c) ==
  /\ Is(c, "launch")
  /\ Return(c)
  /\ UNCHANGED <<poolVars, file, deleted>>
-----------------------------------------------------------------------------
(* ImportLeonardoBrowserWorkspace, and each turn of                        *)
(* recoverLeonardoBrowserWorkspaces, read whose workspace it is, ...       *)
Import(c, w) ==
  /\ Free(c)
  /\ file[w] # Absent
  /\ Set(c, [Idle EXCEPT !.at = "read", !.space = w, !.acct = file[w].owner])
  /\ UNCHANGED <<poolVars, file, deleted>>

(* ... read a cookie from its profile and give it to the pool ...          *)
Readable(w) == file[w] # Absent /\ file[w].chrome
ReadCookie(c, p, t, plain) ==
  /\ Is(c, "read")
  /\ Readable(ws[c].space)
  /\ IF ws[c].acct = NoUser THEN Add(c, p, t, plain) ELSE Bound(c, ws[c].acct, p, t, plain)
  /\ ws' = [ws EXCEPT ![c].at = "import"]
  /\ UNCHANGED <<file, deleted>>

(* ... or get none, or one that is not valid or of another user.           *)
ReadFails(c) ==
  /\ Is(c, "read")
  /\ Return(c)
  /\ UNCHANGED <<poolVars, file, deleted>>

(* The import of a bound workspace, or one that the pool refused, is over. *)
ImportEnds(c) ==
  /\ Is(c, "import")
  /\ At(c, "idle")
  /\ Return(c)
  /\ UNCHANGED <<poolVars, file, deleted>>

(* Mutant: another workspace of the account is not noticed.                *)
Bindable_Twice(f, w, u) == f[w] # Absent /\ f[w].owner \in {NoUser, u}

(* BindAccount after the import of a new workspace: one workspace has one  *)
(* account and one account has one workspace.                              *)
Bindable(f, w, u) ==
  /\ f[w] # Absent
  /\ f[w].owner \in {NoUser, u}
  /\ \A x \in Spaces \ {w} : f[x] # Absent => f[x].owner # u

Bind(c) ==
  /\ Is(c, "import")
  /\ At(c, "added")
  /\ Done(c)
  /\ IF Bindable(file, ws[c].space, Info(c))
     THEN Set(c, [ws[c] EXCEPT !.at = "bind", !.acct = Info(c), !.list = file])
     ELSE Return(c)
  /\ UNCHANGED <<rows, last, file, deleted>>
BindSave(c) ==
  /\ Is(c, "bind")
  /\ file' = [ws[c].list EXCEPT ![ws[c].space].owner = ws[c].acct]
  /\ Return(c)
  /\ UNCHANGED <<poolVars, deleted>>
-----------------------------------------------------------------------------
(* DeleteCookie deletes the row of an account, and then its workspaces.    *)
DeleteCookie(c, i) ==
  /\ Free(c)
  /\ Delete(i)
  /\ deleted' = deleted \cup {rows[i].acct}
  /\ Set(c, [Idle EXCEPT !.at = "remove", !.todo = {rows[i].acct}])
  /\ UNCHANGED file

(* RemoveByAccountID reads the file, ...                                   *)
Remove(c, u) ==
  /\ Is(c, "remove")
  /\ u \in ws[c].todo
  /\ IF u \in Owned(file)
     THEN Set(c, [ws[c] EXCEPT !.at = "drop", !.acct = u, !.list = file])
     ELSE ws' = [ws EXCEPT ![c].todo = @ \ {u}]
  /\ UNCHANGED <<poolVars, file, deleted>>

(* ... writes it without the account's workspaces, and deletes their       *)
(* profile directories.                                                    *)
Without(f, u) == [w \in Spaces |-> IF f[w] # Absent /\ f[w].owner = u THEN Absent ELSE f[w]]
Drop(c) ==
  /\ Is(c, "drop")
  /\ file' = Without(ws[c].list, ws[c].acct)
  /\ Set(c, [ws[c] EXCEPT !.at = "remove", !.todo = @ \ {ws[c].acct}, !.acct = NoUser, !.list = NoFile])
  /\ UNCHANGED <<poolVars, deleted>>

(* A deletion is over then; a listing goes on with the file as it is now.  *)
Removed(c) ==
  /\ Is(c, "remove")
  /\ ws[c].todo = {}
  /\ IF ws[c].all THEN Set(c, [ws[c] EXCEPT !.at = "sync", !.list = file]) ELSE Return(c)
  /\ UNCHANGED <<poolVars, file, deleted>>
-----------------------------------------------------------------------------
(* ListLeonardoBrowserWorkspaces reads the file, ...                       *)
ListSpaces(c) ==
  /\ Free(c)
  /\ Set(c, [Idle EXCEPT !.at = "rows", !.list = file, !.all = TRUE])
  /\ UNCHANGED <<poolVars, file, deleted>>

Accounts == {rows[i].acct : i \in Live} \ {NoUser}

(* Mutant: the rows are read first, and the file when the listing starts   *)
(* to remove workspaces.                                                   *)
ListRows_First(c) ==
  /\ Is(c, "rows")
  /\ IF ws[c].valid = {}
     THEN ws' = [ws EXCEPT ![c].valid = Accounts]
     ELSE LET todo == Owned(file) \ ws[c].valid
          IN  Set(c, [ws[c] EXCEPT !.at = IF todo = {} THEN "sync" ELSE "remove",
                                   !.todo = todo, !.list = IF todo = {} THEN file ELSE NoFile])
  /\ UNCHANGED <<poolVars, file, deleted>>

(* ... then the rows, removes the workspaces of accounts without a row, ...*)
ListRows(c) ==
  /\ Is(c, "rows")
  /\ LET todo == Owned(ws[c].list) \ Accounts
     IN  Set(c, [ws[c] EXCEPT !.at = IF todo = {} THEN "sync" ELSE "remove",
                              !.valid = Accounts, !.todo = todo,
                              !.list = IF todo = {} THEN @ ELSE NoFile])
  /\ UNCHANGED <<poolVars, file, deleted>>

(* ... and makes one, not opened, for each account that has none:          *)
(* EnsureBoundWorkspace reads the file again, ...                          *)
Ensure(c, u) ==
  /\ Is(c, "sync")
  /\ u \in ws[c].valid \ Owned(ws[c].list)
  /\ IF u \in Owned(file)
     THEN Set(c, [ws[c] EXCEPT !.at = "relist", !.valid = @ \ {u}, !.list = NoFile])
     ELSE Set(c, [ws[c] EXCEPT !.at = "ensure", !.acct = u, !.list = file])
  /\ UNCHANGED <<poolVars, file, deleted>>

(* ... and writes it with the new workspace.                               *)
EnsureSave(c, w) ==
  /\ Is(c, "ensure")
  /\ Fresh(w)
  /\ file' = [ws[c].list EXCEPT ![w] = [owner |-> ws[c].acct, chrome |-> FALSE]]
  /\ Set(c, [ws[c] EXCEPT !.at = "relist", !.valid = @ \ {ws[c].acct}, !.acct = NoUser,
                           !.list = NoFile])
  /\ UNCHANGED <<poolVars, deleted>>

(* The listing looks what it still has to do after it made one.            *)
Relist(c) ==
  /\ Is(c, "relist")
  /\ Set(c, [ws[c] EXCEPT !.at = "sync", !.list = file])
  /\ UNCHANGED <<poolVars, file, deleted>>

Listed(c) ==
  /\ Is(c, "sync")
  /\ ws[c].valid \subseteq Owned(ws[c].list)
  /\ Return(c)
  /\ UNCHANGED <<poolVars, file, deleted>>
-----------------------------------------------------------------------------
(* AddCookie: an account is pasted.  Edits are left out here: they add and *)
(* remove no row, and change no row's account.                             *)
Paste(c, p, t, plain) ==
  /\ Free(c)
  /\ Add(c, p, t, plain)
  /\ UNCHANGED spaceVars

PasteEnds(c) ==
  /\ Is(c, "idle")
  /\ Leave(c)
  /\ UNCHANGED spaceVars

Init ==
  /\ PoolInit
  /\ file = NoFile
  /\ ws = [c \in Calls |-> Idle]
  /\ deleted = {}

Next ==
  \/ \E c \in Calls, w \in Spaces : Launch(c, w) \/ Import(c, w) \/ EnsureSave(c, w)
  \/ \E c \in Calls :
       \/ LaunchSave(c) \/ LaunchFails(c)
       \/ ReadFails(c) \/ ImportEnds(c) \/ Bind(c) \/ BindSave(c)
       \/ Drop(c) \/ Removed(c)
       \/ ListSpaces(c) \/ ListRows(c) \/ Relist(c) \/ Listed(c)
       \/ PasteEnds(c)
       \/ ImportStep(c) /\ UNCHANGED spaceVars
  \/ \E c \in Calls, x \in Pasted : ReadCookie(c, x[1], x[2], x[3]) \/ Paste(c, x[1], x[2], x[3])
  \/ \E c \in Calls, i \in Live : DeleteCookie(c, i)
  \/ \E c \in Calls, u \in Users : Remove(c, u) \/ Ensure(c, u)
  \/ Merge /\ UNCHANGED spaceVars

Spec == Init /\ [][Next]_vars
-----------------------------------------------------------------------------
(* "One account may have only one recovery workspace" (workspaces_windows.go:
   322-324), although launches, bindings, listings and deletions overwrite each
   other's files: what any of them has read, and may write, is such a file.  *)
OneSpacePerAccount ==
  \A w, x \in Spaces :
    w # x /\ file[w] # Absent /\ file[x] # Absent /\ file[w].owner = file[x].owner
    => file[w].owner = NoUser

(* The import of a bound workspace, the server's recovery included, changes
   no row of another account, whoever is logged in there: "switching logins
   cannot create or overwrite another account row" (app.go:602-605).        *)
BoundImportOwnRow ==
  [][\A c \in Calls, i \in Ids :
       Is(c, "import") /\ call[c].op = "bound" /\ ImportStep(c) /\ rows'[i] # rows[i] =>
         ws[c].acct \in {r.acct : r \in {rows[i], rows'[i]} \ {NoRow}}]_vars

(* Workspaces, with the login in their profiles, are removed only for an
   account that the user has deleted, and so not for one whose import is in
   progress: "deleting one account cannot remove another account's Chrome"
   (app.go:397-399).                                                         *)
RemovesDeletedOnly == \A c \in Calls : ws[c].todo \subseteq deleted
=============================================================================
