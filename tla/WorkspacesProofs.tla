-------------------------- MODULE WorkspacesProofs ---------------------------
(* Proofs about Workspaces, for any number of workspaces, calls, accounts   *)
(* and rows, and whatever the user logs the browser profiles in as.         *)
EXTENDS Workspaces, AccountPoolProofs
-----------------------------------------------------------------------------
(* The accounts a call or the file still names have a row, or were deleted  *)
(* by the user.                                                             *)
Kept(u) == HasRow(u) \/ u \in deleted

(* A file in which no account has two workspaces.                           *)
Single(f) ==
  \A w, x \in Spaces :
    w # x /\ f[w] # Absent /\ f[x] # Absent /\ f[w].owner = f[x].owner => f[w].owner = NoUser

FileOK == Single(file) /\ \A u \in Owned(file) : Kept(u)

(* What a call has read of the file is such a file, and it still lacks what *)
(* the call is about to write; an account that the call has brought into    *)
(* the pool is kept; and a bound import is of the workspace's own account.  *)
SpaceOK(c) ==
  /\ Single(ws[c].list)
  /\ \A u \in Owned(ws[c].list) \cup ws[c].valid : Kept(u)
  /\ ws[c].todo \subseteq deleted
  /\ ws[c].at \in {"launch", "read", "import", "bind"} => ws[c].space \in Spaces
  /\ ws[c].at \in {"bind", "ensure"} => ws[c].acct \in Users /\ Kept(ws[c].acct)
  /\ ws[c].at = "bind" => Bindable(ws[c].list, ws[c].space, ws[c].acct)
  /\ ws[c].at = "ensure" => ws[c].acct \notin Owned(ws[c].list)
  /\ call[c].at \in {"split", "token", "added"} => Kept(Info(c))
  /\ ws[c].at = "import" /\ call[c].op = "bound" => Info(c) = ws[c].acct

SpaceInv ==
  /\ PoolInv
  /\ WorkspacesTypeOK
  /\ FileOK
  /\ \A c \in Calls : SpaceOK(c)
-----------------------------------------------------------------------------
(* Files.                                                                   *)
LEMMA OwnedFits ==
  ASSUME NEW f \in Files
  PROVE  /\ Owned(f) \subseteq Users
         /\ \A u \in Users :
              u \in Owned(f) <=> \E w \in Spaces : f[w] # Absent /\ f[w].owner = u
  BY RowAssumption DEF Files, Owned, Entry

LEMMA NoFileFits == NoFile \in Files /\ Single(NoFile) /\ Owned(NoFile) = {}
  BY DEF NoFile, Files, Single, Owned

LEMMA EntryWritten ==
  ASSUME NEW f \in Files, NEW w \in Spaces, NEW e \in Entry, Single(f),
         e.owner # NoUser => \A x \in Spaces \ {w} : f[x] # Absent => f[x].owner # e.owner
  PROVE  LET g == [f EXCEPT ![w] = e]
         IN  g \in Files /\ Single(g) /\ \A u \in Owned(g) : u \in Owned(f) \/ u = e.owner
<1> DEFINE g == [f EXCEPT ![w] = e]
<1>1. g \in Files /\ \A x \in Spaces : g[x] = IF x = w THEN e ELSE f[x]
  BY DEF Files
<1>2. Single(g)
  BY <1>1 DEF Single
<1>3. ASSUME NEW u \in Owned(g) PROVE u \in Owned(f) \/ u = e.owner
  <2>1. u \in Users
    BY <1>1, OwnedFits
  <2>2. PICK x \in Spaces : g[x] # Absent /\ g[x].owner = u
    BY <1>1, <2>1, OwnedFits
  <2> QED
    BY <1>1, <2>1, <2>2, OwnedFits
<1> QED
  BY <1>1, <1>2, <1>3

LEMMA WithoutFits ==
  ASSUME NEW f \in Files, NEW u \in Users \cup {NoUser}, Single(f)
  PROVE  /\ Without(f, u) \in Files
         /\ Single(Without(f, u))
         /\ Owned(Without(f, u)) \subseteq Owned(f)
<1> DEFINE g == Without(f, u)
<1>1. g \in Files /\ \A x \in Spaces : g[x] \in {f[x], Absent}
  BY DEF Without, Files
<1>2. Single(g)
  BY <1>1 DEF Single
<1>3. ASSUME NEW v \in Owned(g) PROVE v \in Owned(f)
  <2>1. v \in Users
    BY <1>1, OwnedFits
  <2>2. PICK x \in Spaces : g[x] # Absent /\ g[x].owner = v
    BY <1>1, <2>1, OwnedFits
  <2> QED
    BY <1>1, <2>1, <2>2, OwnedFits
<1> QED
  BY <1>1, <1>2, <1>3
-----------------------------------------------------------------------------
(* What a step does to the pool.                                            *)
LEMMA PoolPart ==
  ASSUME PoolInv, WorkspacesTypeOK, Next
  PROVE  /\ PoolNext \/ UNCHANGED poolVars
         /\ \/ KeepsRows \/ Merge \/ \E c \in Calls : Upsert(c)
            \/ \E c \in Calls, i \in Live : DeleteCookie(c, i)
<1>1. ASSUME UNCHANGED poolVars PROVE KeepsRows
  BY <1>1, NoRowsStep DEF poolVars
<1>2. ASSUME NEW c \in Calls, NEW x \in Pasted,
             ReadCookie(c, x[1], x[2], x[3]) \/ Paste(c, x[1], x[2], x[3])
      PROVE  PoolNext /\ KeepsRows
  <2>1. CASE Add(c, x[1], x[2], x[3])
    BY <2>1, ValidatedKeeps DEF Add, PoolNext
  <2>2. CASE ReadCookie(c, x[1], x[2], x[3]) /\ ws[c].acct # NoUser
    <3>1. ws[c].acct \in Users
      BY <2>2 DEF WorkspacesTypeOK, SpaceCall
    <3>2. Bound(c, ws[c].acct, x[1], x[2], x[3])
      BY <2>2 DEF ReadCookie
    <3> QED
      BY <3>1, <3>2, ValidatedKeeps DEF Bound, PoolNext
  <2> QED
    BY <1>2, <2>1, <2>2 DEF ReadCookie, Paste
<1>3. ASSUME NEW c \in Calls, Bind(c) \/ PasteEnds(c) PROVE PoolNext /\ KeepsRows
  <2>1. Leave(c)
    BY <1>3 DEF Bind, PasteEnds, Leave
  <2> QED
    BY <2>1, NoRowsStep DEF Leave, PoolNext
<1>4. ASSUME NEW c \in Calls, ImportStep(c)
      PROVE  PoolNext /\ (KeepsRows \/ \E d \in Calls : Upsert(d))
  BY <1>4, NoRowsStep, InsertKeeps, SplitKeeps, StoreTokenKeeps DEF ImportStep, Refuse, PoolNext
<1>5. ASSUME NEW c \in Calls, NEW i \in Live, DeleteCookie(c, i) PROVE PoolNext
  BY <1>5 DEF DeleteCookie, PoolNext
<1>6. Merge => PoolNext
  BY DEF PoolNext
<1> QED
  BY <1>1, <1>2, <1>3, <1>4, <1>5, <1>6
  DEF Next, Launch, Import, EnsureSave, LaunchSave, LaunchFails, ReadFails, ImportEnds, BindSave,
      Drop, Removed, ListSpaces, ListRows, Relist, Listed, Remove, Ensure

(* An account that is kept stays so.                                        *)
LEMMA KeptOn ==
  ASSUME SpaceInv, Next, deleted \subseteq deleted', NEW u \in Users, Kept(u)
  PROVE  Kept(u)'
<1>1. CASE u \in deleted
  BY <1>1 DEF Kept
<1>2. CASE HasRow(u) /\ (KeepsRows \/ Merge \/ \E c \in Calls : Upsert(c))
  BY <1>2, AccountStays DEF Kept, SpaceInv
<1>3. ASSUME NEW c \in Calls, NEW i \in Live, DeleteCookie(c, i), HasRow(u) PROVE Kept(u)'
  <2>1. CASE rows[i].acct = u
    BY <1>3, <2>1 DEF DeleteCookie, Kept
  <2>2. CASE rows[i].acct # u
    <3>1. PICK j \in Live : rows[j].acct = u
      BY <1>3 DEF HasRow
    <3>2. rows'[j] = rows[j]
      BY <1>3, <2>2, <3>1 DEF DeleteCookie, Delete, SpaceInv, PoolInv, TypeOK, Live
    <3> QED
      BY <3>1, <3>2 DEF Kept, HasRow, Live
  <2> QED
    BY <2>1, <2>2
<1> QED
  BY <1>1, <1>2, <1>3, PoolPart DEF Kept, SpaceInv

(* A call that does not move stays consistent.                              *)
LEMMA SpaceKeeps ==
  ASSUME SpaceInv, Next, deleted \subseteq deleted', deleted' \subseteq Users,
         file' \in Files, Single(file'), \A u \in Owned(file') : Kept(u) \/ Kept(u)',
         ws' \in [Calls -> SpaceCall],
         \A c \in Calls : (ws'[c] = ws[c] /\ call'[c] = call[c]) \/ SpaceOK(c)'
  PROVE  SpaceInv'
<1>1. PoolInv'
  BY PoolPart, PoolStep, StepHolds DEF SpaceInv
<1>2. WorkspacesTypeOK'
  BY <1>1 DEF WorkspacesTypeOK, PoolInv
<1>3. FileOK'
  BY OwnedFits, KeptOn DEF FileOK, Single
<1>4. ASSUME NEW c \in Calls, ws'[c] = ws[c], call'[c] = call[c] PROVE SpaceOK(c)'
  <2>1. SpaceOK(c) /\ ws[c] \in SpaceCall /\ PoolInv
    BY DEF SpaceInv, WorkspacesTypeOK
  <2>2. ws[c].list \in Files /\ ws[c].valid \subseteq Users
    BY <2>1 DEF SpaceCall
  <2>3. \A u \in Owned(ws[c].list) \cup ws[c].valid : u \in Users /\ Kept(u)
    BY <2>1, <2>2, OwnedFits DEF SpaceOK
  <2>4. call[c].at \in {"split", "token", "added"} => Info(c) \in Users /\ Kept(Info(c))
    BY <2>1, LoginOfCall DEF SpaceOK, At
  <2> QED
    BY <1>4, <2>1, <2>3, <2>4, KeptOn DEF SpaceOK, Single, Owned, Bindable, Info
<1> QED
  BY <1>1, <1>2, <1>3, <1>4 DEF SpaceInv
-----------------------------------------------------------------------------
(* The pool, the file and the deletions stay as they are.                   *)
LEMMA ReadingKeeps ==
  ASSUME SpaceInv, Next, UNCHANGED <<poolVars, file, deleted>>, NEW c \in Calls, NEW m \in SpaceCall,
         ws' = [ws EXCEPT ![c] = m],
         Single(m.list),
         \A u \in Owned(m.list) \cup m.valid : Kept(u),
         m.todo \subseteq deleted,
         m.at \in {"launch", "read"} => m.space \in Spaces,
         m.at \notin {"import", "bind"},
         m.at = "ensure" => m.acct \in Users /\ Kept(m.acct) /\ m.acct \notin Owned(m.list)
  PROVE  SpaceInv'
<1>1. /\ ws' \in [Calls -> SpaceCall] /\ ws'[c] = m
      /\ \A d \in Calls : d # c => ws'[d] = ws[d]
      /\ deleted \subseteq Users
  BY DEF SpaceInv, WorkspacesTypeOK
<1>2. file' \in Files /\ Single(file') /\ \A u \in Owned(file') : Kept(u)
  BY DEF SpaceInv, WorkspacesTypeOK, FileOK
<1>3. UNCHANGED <<rows, call, deleted>>
  BY DEF poolVars
<1>4. SpaceOK(c)
  BY DEF SpaceInv
<1>5. SpaceOK(c)'
  BY <1>1, <1>3, <1>4 DEF SpaceOK, Kept, HasRow, Live, Info, Single, Owned
<1> QED
  BY <1>1, <1>2, <1>3, <1>5, SpaceKeeps

LEMMA ReturnKeeps ==
  ASSUME SpaceInv, Next, UNCHANGED <<poolVars, file, deleted>>, NEW c \in Calls, Return(c)
  PROVE  SpaceInv'
<1>1. Idle \in SpaceCall
  BY NoFileFits DEF Idle, SpaceCall
<1> QED
  BY <1>1, ReadingKeeps, NoFileFits DEF Return, Idle

LEMMA ReadersKeep ==
  ASSUME SpaceInv, Next, NEW c \in Calls,
         \/ \E w \in Spaces : Launch(c, w) \/ Import(c, w)
         \/ ListSpaces(c) \/ ListRows(c) \/ Relist(c) \/ Removed(c)
         \/ \E u \in Users : Remove(c, u) \/ Ensure(c, u)
  PROVE  SpaceInv'
<1>1. /\ ws[c] \in SpaceCall /\ ws[c].list \in Files /\ file \in Files
      /\ ws[c].valid \subseteq Users /\ ws[c].todo \subseteq Users
  BY DEF SpaceInv, WorkspacesTypeOK, SpaceCall
<1>2. SpaceOK(c) /\ FileOK
  BY DEF SpaceInv
<1>3. ASSUME NEW w \in Spaces, Launch(c, w) PROVE SpaceInv'
  <2> DEFINE m == [Idle EXCEPT !.at = "launch", !.space = w, !.list = file]
  <2>1. /\ m \in SpaceCall /\ m.list = file /\ m.valid = {} /\ m.todo = {}
        /\ m.at = "launch" /\ m.space = w
    BY <1>1 DEF Idle, SpaceCall
  <2> QED
    BY <1>2, <1>3, <2>1, ReadingKeeps DEF Launch, Set, FileOK
<1>4. ASSUME NEW w \in Spaces, Import(c, w) PROVE SpaceInv'
  <2> DEFINE m == [Idle EXCEPT !.at = "read", !.space = w, !.acct = file[w].owner]
  <2>1. file[w].owner \in Users \cup {NoUser}
    BY <1>1, <1>4 DEF Import, Files, Entry
  <2>2. /\ m \in SpaceCall /\ m.list = NoFile /\ m.valid = {} /\ m.todo = {}
        /\ m.at = "read" /\ m.space = w
    BY <2>1, NoFileFits DEF Idle, SpaceCall
  <2> QED
    BY <1>4, <2>2, NoFileFits, ReadingKeeps DEF Import, Set
<1>5. ASSUME ListSpaces(c) PROVE SpaceInv'
  <2> DEFINE m == [Idle EXCEPT !.at = "rows", !.list = file, !.all = TRUE]
  <2>1. m \in SpaceCall /\ m.list = file /\ m.valid = {} /\ m.todo = {} /\ m.at = "rows"
    BY <1>1 DEF Idle, SpaceCall
  <2> QED
    BY <1>2, <1>5, <2>1, ReadingKeeps DEF ListSpaces, Set, FileOK
<1>6. ASSUME ListRows(c) PROVE SpaceInv'
  <2> DEFINE todo == Owned(ws[c].list) \ Accounts
             m == [ws[c] EXCEPT !.at = IF todo = {} THEN "sync" ELSE "remove",
                                !.valid = Accounts, !.todo = todo,
                                !.list = IF todo = {} THEN @ ELSE NoFile]
  <2>1. /\ Accounts \subseteq Users
        /\ \A u \in Users : u \in Accounts <=> HasRow(u)
    BY RowAssumption DEF Accounts, HasRow, Live, SpaceInv, PoolInv, RowOK
  <2>2. todo \subseteq deleted /\ todo \subseteq Users
    BY <1>1, <1>2, <2>1, OwnedFits DEF SpaceOK, Kept
  <2>3. /\ m \in SpaceCall /\ m.list \in {ws[c].list, NoFile} /\ m.valid = Accounts /\ m.todo = todo
        /\ m.at \in {"sync", "remove"}
    BY <1>1, <2>1, <2>2, NoFileFits DEF SpaceCall
  <2>4. Single(m.list) /\ \A u \in Owned(m.list) \cup m.valid : Kept(u)
    BY <1>2, <2>1, <2>3, NoFileFits DEF SpaceOK, Kept
  <2>5. UNCHANGED <<poolVars, file, deleted>> /\ ws' = [ws EXCEPT ![c] = m]
    BY <1>6 DEF ListRows, Set
  <2> QED
    BY <2>2, <2>3, <2>4, <2>5, ReadingKeeps
<1>7. ASSUME Relist(c) PROVE SpaceInv'
  <2> DEFINE m == [ws[c] EXCEPT !.at = "sync", !.list = file]
  <2>1. /\ m \in SpaceCall /\ m.list = file /\ m.valid = ws[c].valid /\ m.todo = ws[c].todo
        /\ m.at = "sync"
    BY <1>1 DEF SpaceCall
  <2> QED
    BY <1>2, <1>7, <2>1, ReadingKeeps DEF Relist, Set, FileOK, SpaceOK
<1>8. ASSUME Removed(c) PROVE SpaceInv'
  <2> DEFINE m == [ws[c] EXCEPT !.at = "sync", !.list = file]
  <2>1. /\ m \in SpaceCall /\ m.list = file /\ m.valid = ws[c].valid /\ m.todo = ws[c].todo
        /\ m.at = "sync"
    BY <1>1 DEF SpaceCall
  <2>2. CASE Set(c, m)
    BY <1>2, <1>8, <2>1, <2>2, ReadingKeeps DEF Removed, Set, FileOK, SpaceOK
  <2>3. CASE Return(c)
    BY <1>8, <2>3, ReturnKeeps DEF Removed
  <2> QED
    BY <1>8, <2>2, <2>3 DEF Removed
<1>9. ASSUME NEW u \in Users, Remove(c, u) PROVE SpaceInv'
  <2>1. CASE u \in Owned(file)
    <3> DEFINE m == [ws[c] EXCEPT !.at = "drop", !.acct = u, !.list = file]
    <3>1. /\ m \in SpaceCall /\ m.list = file /\ m.valid = ws[c].valid /\ m.todo = ws[c].todo
          /\ m.at = "drop"
      BY <1>1 DEF SpaceCall
    <3> QED
      BY <1>2, <1>9, <2>1, <3>1, ReadingKeeps DEF Remove, Set, FileOK, SpaceOK
  <2>2. CASE u \notin Owned(file)
    <3> DEFINE m == [ws[c] EXCEPT !.todo = @ \ {u}]
    <3>1. /\ m \in SpaceCall /\ m.list = ws[c].list /\ m.valid = ws[c].valid
          /\ m.todo = ws[c].todo \ {u} /\ m.at = "remove"
      BY <1>1, <1>9 DEF SpaceCall, Remove, Is
    <3>2. ws' = [ws EXCEPT ![c] = m]
      BY <1>9, <2>2 DEF Remove
    <3> QED
      BY <1>2, <1>9, <3>1, <3>2, ReadingKeeps DEF Remove, SpaceOK
  <2> QED
    BY <2>1, <2>2
<1>10. ASSUME NEW u \in Users, Ensure(c, u) PROVE SpaceInv'
  <2>1. CASE u \in Owned(file)
    <3> DEFINE m == [ws[c] EXCEPT !.at = "relist", !.valid = @ \ {u}, !.list = NoFile]
    <3>1. /\ m \in SpaceCall /\ m.list = NoFile /\ m.valid = ws[c].valid \ {u}
          /\ m.todo = ws[c].todo /\ m.at = "relist"
      BY <1>1, NoFileFits DEF SpaceCall
    <3> QED
      BY <1>2, <1>10, <2>1, <3>1, NoFileFits, ReadingKeeps DEF Ensure, Set, SpaceOK
  <2>2. CASE u \notin Owned(file)
    <3> DEFINE m == [ws[c] EXCEPT !.at = "ensure", !.acct = u, !.list = file]
    <3>1. /\ m \in SpaceCall /\ m.list = file /\ m.valid = ws[c].valid
          /\ m.todo = ws[c].todo /\ m.at = "ensure" /\ m.acct = u
      BY <1>1 DEF SpaceCall
    <3>2. Kept(u)
      BY <1>2, <1>10 DEF Ensure, SpaceOK
    <3> QED
      BY <1>2, <1>10, <2>2, <3>1, <3>2, ReadingKeeps DEF Ensure, Set, FileOK, SpaceOK
  <2> QED
    BY <2>1, <2>2
<1> QED
  BY <1>3, <1>4, <1>5, <1>6, <1>7, <1>8, <1>9, <1>10
-----------------------------------------------------------------------------
(* A call writes the file and goes on, with no list in hand.                *)
LEMMA WritingKeeps ==
  ASSUME SpaceInv, Next, UNCHANGED <<poolVars, deleted>>, NEW c \in Calls, NEW m \in SpaceCall,
         ws' = [ws EXCEPT ![c] = m], m.list = NoFile, m.at \in {"idle", "remove", "relist"},
         m.valid \subseteq ws[c].valid, m.todo \subseteq ws[c].todo,
         file' \in Files, Single(file'), \A u \in Owned(file') : Kept(u)
  PROVE  SpaceInv'
<1>1. /\ ws' \in [Calls -> SpaceCall] /\ ws'[c] = m
      /\ \A d \in Calls : d # c => ws'[d] = ws[d]
      /\ deleted \subseteq Users
  BY DEF SpaceInv, WorkspacesTypeOK
<1>2. UNCHANGED <<rows, call, deleted>>
  BY DEF poolVars
<1>3. SpaceOK(c)
  BY DEF SpaceInv
<1>4. Single(ws'[c].list) /\ Owned(ws'[c].list) = {}
  BY <1>1, NoFileFits
<1>5. SpaceOK(c)'
  BY <1>1, <1>2, <1>3, <1>4 DEF SpaceOK, Kept, HasRow, Live, Info, Single, Owned
<1> QED
  BY <1>1, <1>2, <1>5, SpaceKeeps

LEMMA WritersKeep ==
  ASSUME SpaceInv, Next, NEW c \in Calls,
         \/ LaunchSave(c) \/ BindSave(c) \/ Drop(c) \/ \E w \in Spaces : EnsureSave(c, w)
  PROVE  SpaceInv'
<1> DEFINE f == ws[c].list
           s == ws[c].space
           u == ws[c].acct
<1>1. /\ ws[c] \in SpaceCall /\ f \in Files /\ u \in Users \cup {NoUser}
      /\ ws[c].valid \subseteq Users /\ ws[c].todo \subseteq Users
  BY DEF SpaceInv, WorkspacesTypeOK, SpaceCall
<1>2. /\ SpaceOK(c) /\ Single(f)
      /\ \A v \in Owned(f) : Kept(v)
  BY DEF SpaceInv, SpaceOK
<1>3. Idle \in SpaceCall /\ Idle.list = NoFile /\ Idle.at = "idle" /\ Idle.valid = {} /\ Idle.todo = {}
  BY NoFileFits DEF Idle, SpaceCall
<1>4. ASSUME LaunchSave(c) PROVE SpaceInv'
  <2>1. s \in Spaces
    BY <1>2, <1>4 DEF SpaceOK, LaunchSave, Is
  <2>2. Opened(f[s]) \in Entry /\ Opened(f[s]).owner = IF f[s] = Absent THEN NoUser ELSE f[s].owner
    BY <1>1, <2>1 DEF Opened, Entry, Files
  <2>3. Opened(f[s]).owner # NoUser =>
          \A x \in Spaces \ {s} : f[x] # Absent => f[x].owner # Opened(f[s]).owner
    BY <1>2, <2>1, <2>2 DEF Single
  <2>4. file' = [f EXCEPT ![s] = Opened(f[s])]
    BY <1>4 DEF LaunchSave
  <2>5. /\ file' \in Files /\ Single(file')
        /\ \A v \in Owned(file') : v \in Owned(f) \/ v = Opened(f[s]).owner
    BY <1>1, <1>2, <2>1, <2>2, <2>3, <2>4, EntryWritten
  <2>6. ASSUME NEW v \in Owned(file') PROVE v \in Owned(f)
    <3>1. v \in Users
      BY <2>5, OwnedFits
    <3> QED
      BY <1>1, <2>1, <2>2, <2>5, <3>1, OwnedFits, RowAssumption
  <2> QED
    BY <1>2, <1>3, <1>4, <2>5, <2>6, WritingKeeps DEF LaunchSave, Return
<1>5. ASSUME BindSave(c) PROVE SpaceInv'
  <2>1. s \in Spaces /\ u \in Users /\ Kept(u) /\ Bindable(f, s, u)
    BY <1>2, <1>5 DEF SpaceOK, BindSave, Is
  <2> DEFINE e == [f[s] EXCEPT !.owner = u]
  <2>2. e \in Entry /\ e.owner = u
    BY <1>1, <2>1 DEF Bindable, Files, Entry
  <2>3. file' = [f EXCEPT ![s] = e]
    BY <1>5 DEF BindSave
  <2>4. \A x \in Spaces \ {s} : f[x] # Absent => f[x].owner # e.owner
    BY <2>1, <2>2 DEF Bindable
  <2> HIDE DEF e
  <2>5. file' \in Files /\ Single(file') /\ \A v \in Owned(file') : v \in Owned(f) \/ v = u
    BY <1>1, <1>2, <2>1, <2>2, <2>3, <2>4, EntryWritten
  <2> QED
    BY <1>2, <1>3, <1>5, <2>1, <2>5, WritingKeeps DEF BindSave, Return
<1>6. ASSUME NEW w \in Spaces, EnsureSave(c, w) PROVE SpaceInv'
  <2>1. u \in Users /\ Kept(u) /\ u \notin Owned(f)
    BY <1>2, <1>6 DEF SpaceOK, EnsureSave, Is
  <2> DEFINE e == [owner |-> u, chrome |-> FALSE]
             m == [ws[c] EXCEPT !.at = "relist", !.valid = @ \ {u}, !.acct = NoUser, !.list = NoFile]
  <2>2. e \in Entry
    BY <2>1 DEF Entry
  <2>3. file' = [f EXCEPT ![w] = e]
    BY <1>6 DEF EnsureSave
  <2>4. \A x \in Spaces \ {w} : f[x] # Absent => f[x].owner # u
    BY <1>1, <2>1, OwnedFits
  <2>5. file' \in Files /\ Single(file') /\ \A v \in Owned(file') : v \in Owned(f) \/ v = u
    BY <1>1, <1>2, <2>2, <2>3, <2>4, EntryWritten
  <2>6. /\ m \in SpaceCall /\ m.list = NoFile /\ m.at = "relist"
        /\ m.valid \subseteq ws[c].valid /\ m.todo = ws[c].todo
    BY <1>1, NoFileFits DEF SpaceCall
  <2>7. ws' = [ws EXCEPT ![c] = m] /\ UNCHANGED <<poolVars, deleted>>
    BY <1>6 DEF EnsureSave, Set
  <2> QED
    BY <1>2, <2>1, <2>5, <2>6, <2>7, WritingKeeps
<1>7. ASSUME Drop(c) PROVE SpaceInv'
  <2> DEFINE m == [ws[c] EXCEPT !.at = "remove", !.todo = @ \ {u}, !.acct = NoUser, !.list = NoFile]
  <2>1. file' = Without(f, u)
    BY <1>7 DEF Drop
  <2>2. file' \in Files /\ Single(file') /\ \A v \in Owned(file') : v \in Owned(f)
    BY <1>1, <1>2, <2>1, WithoutFits
  <2>3. /\ m \in SpaceCall /\ m.list = NoFile /\ m.at = "remove"
        /\ m.valid = ws[c].valid /\ m.todo \subseteq ws[c].todo
    BY <1>1, NoFileFits DEF SpaceCall
  <2>4. ws' = [ws EXCEPT ![c] = m] /\ UNCHANGED <<poolVars, deleted>>
    BY <1>7 DEF Drop, Set
  <2> QED
    BY <1>2, <2>2, <2>3, <2>4, WritingKeeps
<1> QED
  BY <1>4, <1>5, <1>6, <1>7
-----------------------------------------------------------------------------
(* The steps of an import.                                                  *)
LEMMA CallGoesOn ==
  ASSUME PoolInv, NEW c \in Calls, ImportStep(c)
  PROVE  /\ \A d \in Calls : d # c => call'[d] = call[d]
         /\ \/ call'[c] = NoCall
            \/ call'[c].op = call[c].op /\ call'[c].token = call[c].token
<1>1. call[c] \in Call /\ call \in [Calls -> Call]
  BY DEF PoolInv, TypeOK
<1>2. CASE Refuse(c)
  BY <1>1, <1>2 DEF Refuse, Done
<1>3. CASE Split(c)
  BY <1>1, <1>3 DEF Split, Go, Call
<1>4. ASSUME NEW i, NEW s, Proceed(c, i, s)
      PROVE  /\ \A d \in Calls : d # c => call'[d] = call[d]
             /\ \/ call'[c] = NoCall
                \/ call'[c].op = call[c].op /\ call'[c].token = call[c].token
  BY <1>1, <1>4 DEF Proceed, Call
<1>5. CASE Insert(c) \/ Upsert(c) \/ StoreToken(c)
  BY <1>4, <1>5 DEF Insert, Upsert, StoreToken
<1> QED
  BY <1>2, <1>3, <1>5 DEF ImportStep

(* An import that has stored its value has brought its account in.          *)
LEMMA BroughtIn ==
  ASSUME SpaceInv, Next, UNCHANGED deleted, NEW c \in Calls, ImportStep(c)
  PROVE  call'[c] = NoCall \/ Kept(Info(c))'
<1>1. PoolInv /\ SpaceOK(c) /\ TypeOK
  BY DEF SpaceInv, PoolInv
<1>2. ~At(c, "idle") /\ Info(c) \in Users
  BY <1>1, LoginOfCall DEF ImportStep, Refuse, Insert, Upsert, Split, StoreToken, At
<1>3. call'[c] = NoCall \/ Info(c)' = Info(c)
  BY <1>1, CallGoesOn DEF Info
<1>4. CASE Refuse(c)
  BY <1>1, <1>4 DEF Refuse, Done, TypeOK
<1>5. CASE Split(c) \/ StoreToken(c)
  <2>1. Kept(Info(c))
    BY <1>1, <1>5 DEF Split, StoreToken, At, SpaceOK
  <2>2. \A u \in Users : Kept(u) => Kept(u)'
    BY KeptOn
  <2> QED
    BY <1>2, <1>3, <2>1, <2>2 DEF Kept
<1>6. CASE Insert(c)
  <2> DEFINE r == NewRow(call[c].payload, Embedded(c), Info(c))
  <2>1. last + 1 \in Ids /\ rows' = [rows EXCEPT ![last + 1] = r]
    BY <1>1, <1>6, PoolAssumption DEF Insert, TypeOK, Ids
  <2>2. rows'[last + 1] = r /\ r.acct = Info(c)
    BY <1>1, <2>1 DEF TypeOK, NewRow
  <2>3. r # NoRow
    <3>1. r \in Row
      <4>1. 0 \in 0 .. FailCap
        BY RowAssumption
      <4>2. call[c].payload \in Payloads \cup {NoPayload} /\ Embedded(c) \in Tokens \cup {NoToken}
        BY <1>1, <1>2, LoginOfCall
      <4> QED
        BY <1>2, <4>1, <4>2 DEF NewRow, Row, Status, Reasons
    <3> QED
      BY <3>1, RowsFit
  <2> QED
    BY <1>3, <2>1, <2>2, <2>3 DEF Kept, HasRow, Live
<1>7. CASE Upsert(c)
  <2>1. PICK i \in Ids : i \in Same(c)
    BY <1>7 DEF Upsert, Oldest
  <2>2. HasRow(Info(c))
    BY <2>1 DEF Same, HasRow
  <2>3. HasRow(Info(c))' \/ call'[c] = NoCall
    <3>1. \A u \in Users : HasRow(u) => HasRow(u)'
      BY <1>1, <1>7, AccountStays
    <3> QED
      BY <1>2, <1>3, <2>2, <3>1 DEF HasRow
  <2> QED
    BY <2>3 DEF Kept
<1> QED
  BY <1>4, <1>5, <1>6, <1>7 DEF ImportStep

LEMMA ImportKeeps ==
  ASSUME SpaceInv, Next, NEW c \in Calls, ImportStep(c), UNCHANGED spaceVars
  PROVE  SpaceInv'
<1>1. /\ PoolInv /\ SpaceOK(c) /\ ws \in [Calls -> SpaceCall] /\ deleted \subseteq Users
      /\ file \in Files /\ FileOK /\ ws[c].list \in Files /\ ws[c].valid \subseteq Users
  BY DEF SpaceInv, WorkspacesTypeOK, SpaceCall
<1>2. UNCHANGED <<file, ws, deleted>>
  BY DEF spaceVars
<1>3. call'[c] = NoCall \/ Kept(Info(c))'
  BY <1>2, BroughtIn
<1>4. call'[c] = NoCall \/ (call'[c].op = call[c].op /\ Info(c)' = Info(c))
  BY <1>1, CallGoesOn DEF Info
<1>5. \A u \in Owned(ws[c].list) \cup ws[c].valid : u \in Users /\ Kept(u)
  BY <1>1, OwnedFits DEF SpaceOK
<1>6. \A u \in Users : Kept(u) => Kept(u)'
  BY <1>2, KeptOn
<1>7. SpaceOK(c)'
  <2>1. /\ call'[c].at \in {"split", "token", "added"} => Kept(Info(c))'
        /\ ws'[c].at = "import" /\ call'[c].op = "bound" => Info(c)' = ws'[c].acct
    BY <1>1, <1>2, <1>3, <1>4 DEF SpaceOK, NoCall
  <2> QED
    BY <1>1, <1>2, <1>5, <1>6, <2>1 DEF SpaceOK, Single, Owned, Bindable
<1>8. \A d \in Calls : (ws'[d] = ws[d] /\ call'[d] = call[d]) \/ SpaceOK(d)'
  BY <1>1, <1>2, <1>7, CallGoesOn
<1> QED
  BY <1>1, <1>2, <1>8, SpaceKeeps DEF FileOK

(* An import begins, or is over.                                            *)
LEMMA ImportEndsKeep ==
  ASSUME SpaceInv, Next, NEW c \in Calls,
         \/ PasteEnds(c) \/ Bind(c)
         \/ \E x \in Pasted : ReadCookie(c, x[1], x[2], x[3]) \/ Paste(c, x[1], x[2], x[3])
  PROVE  SpaceInv'
<1>1. /\ PoolInv /\ SpaceOK(c) /\ ws \in [Calls -> SpaceCall] /\ deleted \subseteq Users
      /\ file \in Files /\ FileOK /\ ws[c] \in SpaceCall /\ ws[c].list \in Files
      /\ call \in [Calls -> Call]
  BY DEF SpaceInv, WorkspacesTypeOK, SpaceCall, PoolInv, TypeOK
<1>2. UNCHANGED <<rows, file, deleted>>
  BY DEF PasteEnds, Leave, Bind, ReadCookie, Paste, Add, Bound, Validated, spaceVars
<1>3. \A u : Kept(u)' <=> Kept(u)
  BY <1>2 DEF Kept, HasRow, Live
<1>4. ASSUME ws' \in [Calls -> SpaceCall], SpaceOK(c)',
             \A d \in Calls : d # c => ws'[d] = ws[d] /\ call'[d] = call[d]
      PROVE  SpaceInv'
  BY <1>1, <1>2, <1>4, SpaceKeeps DEF FileOK
<1>5. ASSUME PasteEnds(c) PROVE SpaceInv'
  <2>1. /\ call' = [call EXCEPT ![c] = NoCall] /\ call'[c] = NoCall /\ ws' = ws
    BY <1>1, <1>5 DEF PasteEnds, Leave, Done, spaceVars
  <2>2. SpaceOK(c)'
    BY <1>1, <1>2, <1>3, <2>1 DEF SpaceOK, NoCall, Single, Owned, Bindable
  <2> QED
    BY <1>1, <1>4, <2>1, <2>2
<1>6. ASSUME Bind(c) PROVE SpaceInv'
  <2>1. call' = [call EXCEPT ![c] = NoCall] /\ call'[c] = NoCall
    BY <1>1, <1>6 DEF Bind, Done
  <2>2. ws[c].at = "import" /\ call[c].at = "added" /\ ws[c].space \in Spaces
    BY <1>1, <1>6 DEF Bind, Is, At, SpaceOK
  <2>3. Info(c) \in Users /\ Kept(Info(c))
    BY <1>1, <2>2, LoginOfCall DEF SpaceOK, At
  <2>4. CASE Bindable(file, ws[c].space, Info(c))
    <3> DEFINE m == [ws[c] EXCEPT !.at = "bind", !.acct = Info(c), !.list = file]
    <3>1. /\ m \in SpaceCall /\ m.at = "bind" /\ m.acct = Info(c) /\ m.list = file
          /\ m.space = ws[c].space /\ m.valid = ws[c].valid /\ m.todo = ws[c].todo
      BY <1>1, <2>3 DEF SpaceCall
    <3>2. ws' = [ws EXCEPT ![c] = m]
      BY <1>6, <2>4 DEF Bind, Set
    <3>3. ws'[c] = m /\ ws' \in [Calls -> SpaceCall] /\ \A d \in Calls : d # c => ws'[d] = ws[d]
      BY <1>1, <3>1, <3>2
    <3> HIDE DEF m
    <3>4. /\ Single(ws'[c].list) /\ \A u \in Owned(ws'[c].list) \cup ws'[c].valid : Kept(u)
          /\ Bindable(ws'[c].list, ws'[c].space, ws'[c].acct)
      BY <1>1, <2>4, <3>1, <3>3 DEF FileOK, SpaceOK
    <3>5. SpaceOK(c)'
      BY <1>1, <1>2, <1>3, <2>1, <2>2, <2>3, <3>1, <3>3, <3>4
      DEF SpaceOK, NoCall, Single, Owned, Bindable
    <3> QED
      BY <1>1, <1>4, <2>1, <3>3, <3>5
  <2>5. CASE Return(c)
    <3>1. Idle \in SpaceCall
      BY NoFileFits DEF Idle, SpaceCall
    <3>2. ws'[c] = Idle /\ ws' \in [Calls -> SpaceCall] /\ \A d \in Calls : d # c => ws'[d] = ws[d]
      BY <1>1, <2>5, <3>1 DEF Return
    <3>3. Single(ws'[c].list) /\ Owned(ws'[c].list) = {}
      BY <3>2, NoFileFits DEF Idle
    <3>4. SpaceOK(c)'
      BY <2>1, <3>2, <3>3 DEF SpaceOK, NoCall, Idle, Single, Owned
    <3> QED
      BY <1>1, <1>4, <2>1, <3>2, <3>4
  <2> QED
    BY <1>6, <2>4, <2>5 DEF Bind
<1>7. ASSUME NEW x \in Pasted, ReadCookie(c, x[1], x[2], x[3]) \/ Paste(c, x[1], x[2], x[3])
      PROVE  SpaceInv'
  <2>1. /\ \A d \in Calls : d # c => call'[d] = call[d]
        /\ call'[c].at = "upsert"
        /\ call'[c].op = "bound" => x[2] \in Tokens /\ UserOf[x[2]] = ws[c].acct
        /\ call'[c].token = x[2]
    BY <1>1, <1>7, PoolAssumption DEF ReadCookie, Paste, Add, Bound, Validated
  <2>2. /\ ws'[c] \in {ws[c], [ws[c] EXCEPT !.at = "import"]}
        /\ \A d \in Calls : d # c => ws'[d] = ws[d]
        /\ ws'[c].at = "import" => ws[c].at = "read" \/ ws'[c] = ws[c]
        /\ ws'[c].at = "import" => ReadCookie(c, x[1], x[2], x[3])
    BY <1>1, <1>7 DEF ReadCookie, Paste, spaceVars, Free, Is
  <2>3. ws' \in [Calls -> SpaceCall]
    <3>1. [ws[c] EXCEPT !.at = "import"] \in SpaceCall
      BY <1>1 DEF SpaceCall
    <3> QED
      BY <1>1, <1>7, <3>1 DEF ReadCookie, Paste, spaceVars
  <2>4. /\ ws'[c].list = ws[c].list /\ ws'[c].valid = ws[c].valid /\ ws'[c].todo = ws[c].todo
        /\ ws'[c].space = ws[c].space /\ ws'[c].acct = ws[c].acct
        /\ ws'[c].at \in {ws[c].at, "import"}
        /\ ws'[c].at = "import" => ws[c].space \in Spaces
    <3>1. ws'[c].at = "import" => ws[c].at = "read"
      BY <1>1, <1>7, <2>2 DEF ReadCookie, Is
    <3> QED
      BY <1>1, <2>2, <3>1 DEF SpaceCall, SpaceOK
  <2>5. SpaceOK(c)'
    BY <1>1, <1>2, <1>3, <2>1, <2>4 DEF SpaceOK, Single, Owned, Bindable, Info
  <2> QED
    BY <1>4, <2>1, <2>2, <2>3, <2>5
<1> QED
  BY <1>5, <1>6, <1>7

(* The user deletes an account, and the duplicates are merged.              *)
LEMMA DeletionKeeps ==
  ASSUME SpaceInv, Next, NEW c \in Calls, NEW i \in Live, DeleteCookie(c, i)
  PROVE  SpaceInv'
<1>1. /\ SpaceOK(c) /\ ws \in [Calls -> SpaceCall] /\ deleted \subseteq Users
      /\ file \in Files /\ FileOK
  BY DEF SpaceInv, WorkspacesTypeOK
<1>2. rows[i].acct \in Users
  BY DEF SpaceInv, PoolInv, RowOK, Live
<1> DEFINE m == [Idle EXCEPT !.at = "remove", !.todo = {rows[i].acct}]
<1>3. /\ m \in SpaceCall /\ m.list = NoFile /\ m.valid = {} /\ m.at = "remove"
      /\ m.todo = {rows[i].acct}
  BY <1>2, NoFileFits DEF Idle, SpaceCall
<1>4. /\ ws'[c] = m /\ ws' \in [Calls -> SpaceCall] /\ \A d \in Calls : d # c => ws'[d] = ws[d]
      /\ deleted' = deleted \cup {rows[i].acct}
      /\ call' = call /\ file' = file /\ call[c].at = "idle"
  BY <1>1, <1>3 DEF DeleteCookie, Set, Delete, Free, At
<1> HIDE DEF m
<1>5. Single(ws'[c].list) /\ Owned(ws'[c].list) = {}
  BY <1>3, <1>4, NoFileFits
<1>6. SpaceOK(c)'
  BY <1>3, <1>4, <1>5 DEF SpaceOK, Single, Owned
<1>7. deleted \subseteq deleted' /\ deleted' \subseteq Users
  BY <1>1, <1>2, <1>4
<1> QED
  BY <1>1, <1>4, <1>6, <1>7, SpaceKeeps DEF FileOK

LEMMA MergingKeeps ==
  ASSUME SpaceInv, Next, Merge, UNCHANGED spaceVars
  PROVE  SpaceInv'
<1>1. /\ UNCHANGED <<call, file, ws, deleted>>
      /\ file \in Files /\ FileOK /\ ws \in [Calls -> SpaceCall] /\ deleted \subseteq Users
  BY DEF Merge, spaceVars, SpaceInv, WorkspacesTypeOK
<1> QED
  BY <1>1, SpaceKeeps DEF FileOK
-----------------------------------------------------------------------------
LEMMA SpaceInit == Init => SpaceInv
<1> SUFFICES ASSUME Init PROVE SpaceInv
  OBVIOUS
<1>1. PoolInv
  BY InitHolds DEF Init
<1>2. Idle \in SpaceCall /\ file \in Files
  BY NoFileFits DEF Init, Idle, SpaceCall
<1>3. WorkspacesTypeOK
  BY <1>1, <1>2 DEF Init, WorkspacesTypeOK, PoolInv
<1>4. FileOK
  BY NoFileFits DEF Init, FileOK
<1>5. \A c \in Calls : SpaceOK(c)
  BY NoFileFits DEF Init, PoolInit, SpaceOK, Idle, NoCall
<1> QED
  BY <1>1, <1>3, <1>4, <1>5 DEF SpaceInv

LEMMA SpaceStep == SpaceInv /\ [Next]_vars => SpaceInv'
<1>1. ASSUME SpaceInv, UNCHANGED vars PROVE SpaceInv'
  <2>1. PoolInv'
    BY <1>1, StepHolds DEF SpaceInv, vars
  <2> QED
    BY <1>1, <2>1 DEF SpaceInv, vars, poolVars, spaceVars, WorkspacesTypeOK, FileOK, SpaceOK, Kept,
                      HasRow, Live, Info, Single, Owned, Bindable, PoolInv
<1>2. ASSUME SpaceInv, Next PROVE SpaceInv'
  <2>1. ASSUME NEW c \in Calls, LaunchFails(c) \/ ReadFails(c) \/ ImportEnds(c) \/ Listed(c)
        PROVE  SpaceInv'
    BY <1>2, <2>1, ReturnKeeps DEF LaunchFails, ReadFails, ImportEnds, Listed
  <2> QED
    BY <1>2, <2>1, ReadersKeep, WritersKeep, ImportKeeps, ImportEndsKeep, DeletionKeeps, MergingKeeps
    DEF Next
<1> QED
  BY <1>1, <1>2

LEMMA SpaceInvariant == Spec => []SpaceInv
  BY SpaceInit, SpaceStep, PTL DEF Spec
-----------------------------------------------------------------------------
(* All variables keep their types.                                          *)
THEOREM WorkspacesTypeCorrect == Spec => []WorkspacesTypeOK
  BY SpaceInvariant, PTL DEF SpaceInv

(* The pool with its browser workspaces is a pool: what the workspaces do   *)
(* to its rows are imports, merges and deletions, so that all that is       *)
(* proved of PoolSpec holds with them too.                                  *)
THEOREM ImplementsPool == Spec => PoolSpec
<1>1. Init => PoolInit
  BY DEF Init
<1>2. SpaceInv /\ [Next]_vars => [PoolNext]_poolVars
  BY PoolPart DEF SpaceInv, vars
<1> QED
  BY <1>1, <1>2, SpaceInvariant, PTL DEF Spec, PoolSpec

(* No account gets a second workspace, although all calls overwrite the     *)
(* whole file.                                                              *)
THEOREM AccountHasOneSpace == Spec => []OneSpacePerAccount
<1>1. SpaceInv => OneSpacePerAccount
  BY DEF SpaceInv, FileOK, Single, OneSpacePerAccount
<1> QED
  BY <1>1, SpaceInvariant, PTL

(* The workspaces that are removed are of accounts that the user deleted.   *)
THEOREM DeletedSpacesRemoved == Spec => []RemovesDeletedOnly
<1>1. SpaceInv => RemovesDeletedOnly
  BY DEF SpaceInv, SpaceOK, RemovesDeletedOnly
<1> QED
  BY <1>1, SpaceInvariant, PTL

LEMMA BoundImportStep ==
  ASSUME SpaceInv, NEW c \in Calls, NEW i \in Ids, Is(c, "import"), call[c].op = "bound",
         ImportStep(c), rows'[i] # rows[i]
  PROVE  ws[c].acct \in {r.acct : r \in {rows[i], rows'[i]} \ {NoRow}}
<1>1. PoolInv /\ TypeOK /\ Info(c) = ws[c].acct
  BY DEF SpaceInv, PoolInv, SpaceOK, Is
<1>2. CASE Insert(c)
  <2> DEFINE r == NewRow(call[c].payload, Embedded(c), Info(c))
  <2>1. rows' = [rows EXCEPT ![last + 1] = r] /\ r.acct = Info(c)
    BY <1>2 DEF Insert, NewRow
  <2>2. i = last + 1 /\ rows'[i] = r
    BY <1>1, <2>1 DEF TypeOK
  <2>3. rows[i] = NoRow
    BY <1>1, <2>2 DEF PoolInv, Unused, TypeOK
  <2>4. rows'[i] # NoRow
    BY <2>3
  <2> QED
    BY <1>1, <2>1, <2>2, <2>4
<1>3. CASE Upsert(c)
  <2>1. i \in Same(c)
    BY <1>1, <1>3 DEF Upsert, Oldest, TypeOK
  <2> QED
    BY <1>1, <2>1 DEF Same, Live
<1>4. CASE Split(c) \/ StoreToken(c)
  <2>1. i = call[c].id /\ rows[i] # NoRow
    BY <1>1, <1>4 DEF Split, StoreToken, Writable, TypeOK
  <2>2. rows[i].acct = Info(c)
    BY <1>1, <1>4, <2>1, RowOfCall DEF Split, StoreToken, At
  <2> QED
    BY <1>1, <2>1, <2>2
<1> QED
  BY <1>2, <1>3, <1>4 DEF ImportStep, Refuse

LEMMA BoundImportSteps ==
  SpaceInv /\ [Next]_vars =>
    [\A c \in Calls, i \in Ids :
       Is(c, "import") /\ call[c].op = "bound" /\ ImportStep(c) /\ rows'[i] # rows[i] =>
         ws[c].acct \in {r.acct : r \in {rows[i], rows'[i]} \ {NoRow}}]_vars
  BY BoundImportStep

(* The import of a bound workspace changes rows of its own account only.    *)
THEOREM BoundImportsOwnRow == Spec => BoundImportOwnRow
  BY SpaceInvariant, BoundImportSteps, PTL DEF Spec, BoundImportOwnRow
=============================================================================
