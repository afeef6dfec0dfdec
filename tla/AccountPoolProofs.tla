------------------------- MODULE AccountPoolProofs --------------------------
(* Proofs about AccountPool, for any number of rows, calls, accounts,       *)
(* browser sessions and JWTs.                                               *)
EXTENDS AccountPool, FiniteSetTheorems, TLAPS
-----------------------------------------------------------------------------
(* What the properties rest on: an id is not given twice; the credentials
   of a row, and those that a call is about to write, are logins of the
   row's account; and the row a call goes on with is of the account that it
   was told, or has been deleted.                                           *)
Unused == \A i \in Ids : i > last => rows[i] = NoRow

RowOK(r) ==
  r # NoRow =>
    /\ r.acct \in Users
    /\ r.payload # NoPayload => <<r.payload, r.acct>> \in Logins
    /\ r.embedded # NoToken => UserOf[r.embedded] = r.acct
    /\ r.jwt # NoToken => UserOf[r.jwt] = r.acct /\ r.status # "invalid"

CallOK(c) ==
  ~At(c, "idle") =>
    /\ call[c].token \in Tokens
    /\ call[c].op \in {"add", "bound", "edit"}
    /\ call[c].payload # NoPayload => <<call[c].payload, Info(c)>> \in Logins
    /\ call[c].at \in {"split", "token"} => call[c].payload # NoPayload
    /\ call[c].at # "upsert" => call[c].id \in Ids /\ call[c].id <= last
    /\ call[c].at \notin {"upsert", "check"} /\ rows[call[c].id] # NoRow =>
         rows[call[c].id].acct = Info(c)

PoolInv ==
  /\ TypeOK
  /\ Unused
  /\ \A i \in Ids : RowOK(rows[i])
  /\ \A c \in Calls : CallOK(c)
  /\ OneRowPerAccount

(* What a step may do to the rows: it leaves their accounts alone, and only
   a new row of an account without one has a new id.                        *)
RowsStep ==
  /\ rows' \in [Ids -> Row \cup {NoRow}]
  /\ last' \in 0 .. MaxId
  /\ last <= last'
  /\ Unused'
  /\ \A i \in Ids :
       /\ RowOK(rows'[i])
       /\ rows[i] # NoRow /\ rows'[i] # NoRow => rows'[i].acct = rows[i].acct
       /\ rows[i] = NoRow /\ rows'[i] # NoRow =>
            /\ i > last
            /\ \A j \in Ids \ {i} : rows'[j] = rows[j]
            /\ \A j \in Live : rows[j].acct # rows'[i].acct

(* Most steps delete no row.                                                *)
KeepsRows == RowsStep /\ \A i \in Live : rows'[i] # NoRow
-----------------------------------------------------------------------------
LEMMA RowsFit == \A r \in Row : r # NoRow
  BY PoolAssumption

LEMMA InitHolds == PoolInit => PoolInv
<1> SUFFICES ASSUME PoolInit PROVE PoolInv
  OBVIOUS
<1>1. PICK old \in InitRows : rows = [i \in Ids |-> IF i \in Old THEN old[i] ELSE NoRow]
  BY DEF PoolInit
<1>2. PICK n \in 0 .. MaxId : Old = 1 .. n
  BY PoolAssumption
<1>3. last = n /\ MaxId \in Nat
  BY <1>2, FS_Interval, PoolAssumption DEF PoolInit
<1>4. old \in [Old -> Row \cup {NoRow}]
  BY PoolAssumption
<1>5. TypeOK
  BY <1>1, <1>2, <1>3, <1>4 DEF PoolInit, TypeOK, Call, NoCall, Ids
<1>6. Unused
  BY <1>1, <1>2, <1>3 DEF Unused, Ids
<1>7. ASSUME NEW i \in Ids PROVE RowOK(rows[i])
  <2>1. CASE i \notin Old
    BY <1>1, <2>1 DEF RowOK
  <2>2. CASE i \in Old /\ old[i] # NoRow
    <3>1. old[i] \in Row
      BY <1>4, <2>2
    <3>2. /\ old[i].acct # NoUser
          /\ old[i].payload # NoPayload => <<old[i].payload, old[i].acct>> \in Logins
          /\ \A t \in {old[i].embedded, old[i].jwt} \ {NoToken} : UserOf[t] = old[i].acct
          /\ old[i].jwt # NoToken => old[i].status # "invalid"
      BY <2>2, PoolAssumption
    <3> QED
      BY <1>1, <2>2, <3>1, <3>2 DEF RowOK, Row
  <2>3. CASE i \in Old /\ old[i] = NoRow
    BY <1>1, <2>3 DEF RowOK
  <2> QED
    BY <2>1, <2>2, <2>3
<1>8. \A c \in Calls : CallOK(c)
  BY DEF PoolInit, CallOK, At, NoCall
<1>9. OneRowPerAccount
  BY <1>1 DEF OneRowPerAccount, Live
<1> QED
  BY <1>5, <1>6, <1>7, <1>8, <1>9 DEF PoolInv

(* The rest of the invariant follows, if the call that moves keeps to it.   *)
LEMMA StepKeeps ==
  ASSUME PoolInv, RowsStep, NEW c \in Calls, NEW m \in Call,
         call' = [call EXCEPT ![c] = m], CallOK(c)'
  PROVE  PoolInv'
<1>1. TypeOK'
  BY DEF PoolInv, TypeOK, RowsStep
<1>2. ASSUME NEW d \in Calls PROVE CallOK(d)'
  <2>1. CASE d # c
    <3>1. call'[d] = call[d]
      BY <2>1 DEF PoolInv, TypeOK
    <3>2. CallOK(d) /\ Unused
      BY DEF PoolInv
    <3>3. call[d].id \in Ids /\ call[d].id <= last => call[d].id <= last'
      BY PoolAssumption DEF RowsStep, PoolInv, TypeOK, Ids
    <3>4. ASSUME call[d].id \in Ids, call[d].id <= last, rows'[call[d].id] # NoRow
          PROVE  rows[call[d].id] # NoRow /\ rows'[call[d].id].acct = rows[call[d].id].acct
      BY <3>4, PoolAssumption DEF RowsStep, PoolInv, TypeOK, Ids
    <3> QED
      BY <3>1, <3>2, <3>3, <3>4 DEF CallOK, At, Info
  <2> QED
    BY <2>1
<1>3. OneRowPerAccount'
  <2> SUFFICES ASSUME NEW i \in Ids, NEW j \in Ids, i # j, rows'[i] # NoRow, rows'[j] # NoRow,
                      rows'[i].acct = rows'[j].acct
               PROVE  {i, j} \subseteq Old
    BY DEF OneRowPerAccount, Live
  <2>1. rows[i] # NoRow /\ rows[j] # NoRow
    BY DEF RowsStep, Live
  <2> QED
    BY <2>1 DEF RowsStep, PoolInv, OneRowPerAccount, Live
<1> QED
  BY <1>1, <1>2, <1>3 DEF PoolInv, RowsStep

(* A call that changes no row.                                              *)
LEMMA NoRowsStep ==
  ASSUME PoolInv, UNCHANGED <<rows, last>>
  PROVE  KeepsRows
  BY DEF KeepsRows, RowsStep, PoolInv, TypeOK, Unused, Live

(* One row changes, and keeps its account.                                  *)
LEMMA OneRowStep ==
  ASSUME PoolInv, NEW i \in Ids, rows[i] # NoRow, NEW r \in Row,
         r.acct = rows[i].acct, RowOK(r),
         rows' = [rows EXCEPT ![i] = r], UNCHANGED last
  PROVE  KeepsRows
<1>1. rows' \in [Ids -> Row \cup {NoRow}] /\ \A j \in Ids : rows'[j] = IF j = i THEN r ELSE rows[j]
  BY DEF PoolInv, TypeOK
<1> QED
  BY <1>1, RowsFit DEF KeepsRows, RowsStep, PoolInv, TypeOK, Unused, Live

(* Rows are deleted.                                                        *)
LEMMA DeletionStep ==
  ASSUME PoolInv, NEW S, rows' = [i \in Ids |-> IF i \in S THEN rows[i] ELSE NoRow], UNCHANGED last
  PROVE  RowsStep
<1>1. rows' \in [Ids -> Row \cup {NoRow}] /\ \A j \in Ids : rows'[j] \in {rows[j], NoRow}
  BY DEF PoolInv, TypeOK
<1> QED
  BY <1>1 DEF RowsStep, PoolInv, TypeOK, Unused, RowOK
-----------------------------------------------------------------------------
(* A call goes on.                                                          *)
LEMMA ProceedFits ==
  ASSUME PoolInv, RowsStep, NEW c \in Calls, ~At(c, "idle"), NEW i \in Ids, i <= last',
         rows'[i] # NoRow => rows'[i].acct = Info(c),
         NEW s \in {"idle", "profile", "split", "token", "enable", "added"}, Proceed(c, i, s),
         s \in {"split", "token"} => call[c].payload # NoPayload
  PROVE  PoolInv'
<1>1. CASE s = "idle"
  <2>1. NoCall \in Call
    BY DEF NoCall, Call
  <2>2. call' = [call EXCEPT ![c] = NoCall]
    BY <1>1 DEF Proceed
  <2>3. CallOK(c)'
    BY <2>2 DEF CallOK, At, NoCall, PoolInv, TypeOK
  <2> QED
    BY <2>1, <2>2, <2>3, StepKeeps
<1>2. CASE s # "idle"
  <2> DEFINE m == [call[c] EXCEPT !.at = s, !.id = i]
  <2>1. call[c] \in Call
    BY DEF PoolInv, TypeOK
  <2>2. m \in Call
    BY <2>1 DEF Call
  <2>3. call' = [call EXCEPT ![c] = m]
    BY <1>2 DEF Proceed
  <2>4. call'[c] = m
    BY <2>3 DEF PoolInv, TypeOK
  <2>5. /\ m.at = s /\ m.id = i /\ m.token = call[c].token /\ m.op = call[c].op
        /\ m.payload = call[c].payload
    BY <2>1 DEF Call
  <2>6. CallOK(c)
    BY DEF PoolInv
  <2>7. CallOK(c)'
    BY <2>4, <2>5, <2>6 DEF CallOK, At, Info
  <2> QED
    BY <2>2, <2>3, <2>7, StepKeeps
<1> QED
  BY <1>1, <1>2

LEMMA EndsSomewhere ==
  ASSUME PoolInv, NEW c \in Calls, ~At(c, "idle")
  PROVE  /\ End(c) \subseteq {"idle", "enable", "added"}
         /\ AfterValue(c) \subseteq {"idle", "split", "enable", "added"}
         /\ "split" \in AfterValue(c) => call[c].payload # NoPayload
<1>1. call[c].op \in {"add", "bound", "edit"}
  BY DEF PoolInv, CallOK
<1>2. End(c) \subseteq {"idle", "enable", "added"}
  BY <1>1 DEF End
<1> QED
  BY <1>2 DEF AfterValue, Storable

(* A call comes to an end.                                                  *)
LEMMA DoneFits ==
  ASSUME PoolInv, RowsStep, NEW c \in Calls, Done(c)
  PROVE  PoolInv'
<1>1. NoCall \in Call
  BY DEF NoCall, Call
<1>2. CallOK(c)'
  BY DEF Done, CallOK, At, NoCall, PoolInv, TypeOK
<1> QED
  BY <1>1, <1>2, StepKeeps DEF Done

(* What a call is about to write is a login of its account.                 *)
LEMMA LoginOfCall ==
  ASSUME PoolInv, NEW c \in Calls, ~At(c, "idle")
  PROVE  /\ Info(c) \in Users
         /\ call[c].token \in Tokens
         /\ call[c].payload \in Payloads \cup {NoPayload}
         /\ call[c].payload # NoPayload => <<call[c].payload, Info(c)>> \in Logins
         /\ Embedded(c) \in Tokens \cup {NoToken}
         /\ Embedded(c) # NoToken => UserOf[Embedded(c)] = Info(c)
  BY PoolAssumption DEF PoolInv, TypeOK, CallOK, Call, Info, Embedded

(* The row a call goes on with.                                             *)
LEMMA RowOfCall ==
  ASSUME PoolInv, NEW c \in Calls, call[c].at \notin {"idle", "upsert"}
  PROVE  /\ call[c].id \in Ids
         /\ call[c].id <= last
         /\ rows[call[c].id] \in Row \cup {NoRow}
         /\ RowOK(rows[call[c].id])
         /\ call[c].at # "check" /\ rows[call[c].id] # NoRow => rows[call[c].id].acct = Info(c)
<1>1. CallOK(c)
  BY DEF PoolInv
<1>2. call[c].id \in Ids
  BY <1>1 DEF CallOK, At
<1> QED
  BY <1>1, <1>2 DEF PoolInv, TypeOK, CallOK, At
-----------------------------------------------------------------------------
LEMMA ValidatedKeeps ==
  ASSUME PoolInv, NEW c \in Calls, NEW op \in {"add", "bound", "edit"}, NEW x \in Pasted,
         NEW i \in Ids \cup {0}, op = "edit" => i \in Live, Validated(c, op, i, x[1], x[2], x[3])
  PROVE  KeepsRows /\ PoolInv'
<1> DEFINE m == [at |-> IF op = "edit" THEN "check" ELSE "upsert", op |-> op, id |-> i,
                 payload |-> x[1], token |-> x[2], plain |-> x[3]]
<1>1. /\ x[1] \in Payloads \cup {NoPayload}
      /\ x[2] \in Tokens
      /\ x[3] \in BOOLEAN
      /\ x[1] # NoPayload => <<x[1], UserOf[x[2]]>> \in Logins
  BY PoolAssumption
<1>2. m \in Call
  BY <1>1 DEF Call
<1>3. call' = [call EXCEPT ![c] = m] /\ call'[c] = m
  BY DEF Validated, PoolInv, TypeOK
<1>4. op = "edit" => i \in Ids /\ i <= last
  BY PoolAssumption DEF PoolInv, Unused, Live, Ids, TypeOK
<1>5. KeepsRows
  BY NoRowsStep DEF Validated
<1>6. last' = last
  BY DEF Validated
<1>7. CallOK(c)'
  BY <1>1, <1>3, <1>4, <1>6 DEF CallOK, At, Info
<1> QED
  BY <1>2, <1>3, <1>5, <1>7, StepKeeps DEF KeepsRows

LEMMA InsertKeeps ==
  ASSUME PoolInv, NEW c \in Calls, Insert(c)
  PROVE  KeepsRows /\ PoolInv'
<1> DEFINE r == NewRow(call[c].payload, Embedded(c), Info(c))
<1>1. At(c, "upsert") /\ ~At(c, "idle")
  BY DEF Insert, At
<1>2. last + 1 \in Ids /\ last' = last + 1 /\ last' \in 0 .. MaxId /\ last \in Nat
  BY PoolAssumption DEF Insert, PoolInv, TypeOK, Ids
<1>3. r \in Row /\ RowOK(r) /\ r.acct = Info(c)
  <2>1. Info(c) \in Users
    BY <1>1, LoginOfCall
  <2>2. r \in Row
    <3>1. 0 \in 0 .. FailCap
      BY RowAssumption
    <3>2. call[c].payload \in Payloads \cup {NoPayload} /\ Embedded(c) \in Tokens \cup {NoToken}
      BY <1>1, LoginOfCall
    <3> QED
      BY <2>1, <3>1, <3>2 DEF NewRow, Row, Status, Reasons
  <2> QED
    BY <1>1, <2>1, <2>2, LoginOfCall DEF NewRow, RowOK
<1>4. /\ rows' = [rows EXCEPT ![last + 1] = r]
      /\ rows' \in [Ids -> Row \cup {NoRow}]
      /\ \A j \in Ids : rows'[j] = IF j = last + 1 THEN r ELSE rows[j]
  BY <1>2, <1>3 DEF Insert, PoolInv, TypeOK
<1>5. rows[last + 1] = NoRow
  BY <1>2 DEF PoolInv, Unused
<1>6. \A j \in Live : rows[j].acct # Info(c)
  BY DEF Insert, Same
<1>7. Unused'
  BY <1>2, <1>4 DEF PoolInv, Unused, Ids
<1>8. KeepsRows
  BY <1>2, <1>3, <1>4, <1>5, <1>6, <1>7, RowsFit DEF KeepsRows, RowsStep, PoolInv, Live
<1>9. PICK s \in AfterValue(c) : Proceed(c, last + 1, s)
  BY DEF Insert
<1>10. rows'[last + 1].acct = Info(c)
  BY <1>2, <1>3, <1>4
<1> QED
  BY <1>1, <1>2, <1>8, <1>9, <1>10, EndsSomewhere, ProceedFits DEF KeepsRows

LEMMA UpsertKeeps ==
  ASSUME PoolInv, NEW c \in Calls, Upsert(c)
  PROVE  RowsStep /\ PoolInv'
<1>1. At(c, "upsert") /\ ~At(c, "idle") /\ last' = last
  BY DEF Upsert, At
<1>2. PICK i \in Ids :
        /\ Oldest(i, Same(c))
        /\ rows' = [j \in Ids |-> IF j = i THEN Updated(rows[i], c)
                                 ELSE IF j \in Same(c) THEN NoRow ELSE rows[j]]
        /\ \E s \in AfterValue(c) : Proceed(c, i, s)
  BY DEF Upsert
<1>3. rows[i] \in Row /\ RowOK(rows[i]) /\ rows[i].acct = Info(c)
  BY <1>2 DEF Oldest, Same, Live, PoolInv, TypeOK
<1>4. Updated(rows[i], c) \in Row /\ Updated(rows[i], c).acct = Info(c)
  BY <1>1, <1>3, LoginOfCall DEF Updated, Row, Reasons
<1>5. RowOK(Updated(rows[i], c))
  <2>1. /\ Updated(rows[i], c).payload = call[c].payload
        /\ Updated(rows[i], c).embedded = Embedded(c)
        /\ Updated(rows[i], c).jwt = rows[i].jwt
        /\ Updated(rows[i], c).status = rows[i].status
    BY <1>3 DEF Updated, Row
  <2> QED
    BY <1>1, <1>3, <1>4, <2>1, LoginOfCall, RowsFit DEF RowOK
<1>6. i <= last
  BY <1>2, <1>3, RowsFit, PoolAssumption DEF PoolInv, Unused, TypeOK, Ids
<1>7. rows' \in [Ids -> Row \cup {NoRow}]
  BY <1>2, <1>4 DEF PoolInv, TypeOK
<1>8. \A j \in Ids : j # i => rows'[j] \in {rows[j], NoRow}
  BY <1>2
<1>9. rows'[i] = Updated(rows[i], c)
  BY <1>2
<1>10. \A j \in Ids : RowOK(rows'[j])
  BY <1>5, <1>8, <1>9 DEF PoolInv, RowOK
<1>11. Unused'
  BY <1>1, <1>6, <1>8, PoolAssumption DEF PoolInv, Unused, TypeOK, Ids
<1>12. RowsStep
  BY <1>1, <1>3, <1>4, <1>7, <1>8, <1>9, <1>10, <1>11, RowsFit DEF RowsStep, PoolInv, TypeOK
<1>13. PICK s \in AfterValue(c) : Proceed(c, i, s)
  BY <1>2
<1> QED
  BY <1>1, <1>4, <1>6, <1>9, <1>12, <1>13, EndsSomewhere, ProceedFits

LEMMA CheckKeeps ==
  ASSUME PoolInv, NEW c \in Calls, Check(c)
  PROVE  KeepsRows /\ PoolInv'
<1>1. At(c, "check") /\ ~At(c, "idle") /\ UNCHANGED <<rows, last>>
  BY DEF Check, At
<1>2. KeepsRows
  BY <1>1, NoRowsStep
<1>3. CASE Done(c)
  BY <1>2, <1>3, DoneFits DEF KeepsRows
<1>4. CASE ~Done(c)
  <2>1. /\ rows[call[c].id] # NoRow /\ rows[call[c].id].acct \in {NoUser, Info(c)}
        /\ Go(c, "write")
    BY <1>4 DEF Check
  <2>2. rows[call[c].id].acct = Info(c) /\ call[c].id \in Ids
    BY <1>1, <2>1, RowOfCall, RowAssumption DEF RowOK, At
  <2> DEFINE m == [call[c] EXCEPT !.at = "write"]
  <2>3. call[c] \in Call
    BY DEF PoolInv, TypeOK
  <2>4. m \in Call
    BY <2>3 DEF Call
  <2>5. call' = [call EXCEPT ![c] = m] /\ call'[c] = m
    BY <2>1 DEF Go, PoolInv, TypeOK
  <2>6. /\ m.at = "write" /\ m.id = call[c].id /\ m.token = call[c].token
        /\ m.op = call[c].op /\ m.payload = call[c].payload
    BY <2>3 DEF Call
  <2>7. CallOK(c)'
    BY <1>1, <2>2, <2>5, <2>6 DEF CallOK, At, Info, PoolInv
  <2> QED
    BY <1>2, <2>4, <2>5, <2>7, StepKeeps DEF KeepsRows
<1> QED
  BY <1>3, <1>4

(* A call stays with its row and goes to s.                                 *)
LEMMA GoFits ==
  ASSUME PoolInv, RowsStep, NEW c \in Calls, call[c].at \notin {"idle", "upsert", "check"},
         NEW s \in {"profile", "token"}, Go(c, s), s = "token" => call[c].payload # NoPayload
  PROVE  PoolInv'
<1> DEFINE m == [call[c] EXCEPT !.at = s]
<1>1. call[c] \in Call /\ CallOK(c)
  BY DEF PoolInv, TypeOK
<1>2. m \in Call
  BY <1>1 DEF Call
<1>3. call' = [call EXCEPT ![c] = m] /\ call'[c] = m
  BY DEF Go, PoolInv, TypeOK
<1>4. /\ m.at = s /\ m.id = call[c].id /\ m.token = call[c].token
      /\ m.op = call[c].op /\ m.payload = call[c].payload
  BY <1>1 DEF Call
<1>5. call[c].id \in Ids /\ call[c].id <= last
  BY RowOfCall
<1>6. call[c].id <= last'
  BY <1>5, PoolAssumption DEF RowsStep, PoolInv, TypeOK, Ids
<1>7. rows'[call[c].id] # NoRow => rows'[call[c].id].acct = Info(c)
  <2>1. ASSUME rows'[call[c].id] # NoRow
        PROVE  rows[call[c].id] # NoRow /\ rows'[call[c].id].acct = rows[call[c].id].acct
    BY <1>5, <2>1, PoolAssumption DEF RowsStep, PoolInv, TypeOK, Ids
  <2> QED
    BY <2>1, RowOfCall
<1>8. CallOK(c)'
  BY <1>1, <1>3, <1>4, <1>5, <1>6, <1>7 DEF CallOK, At, Info
<1> QED
  BY <1>2, <1>3, <1>8, StepKeeps

LEMMA WriteKeeps ==
  ASSUME PoolInv, NEW c \in Calls, Write(c)
  PROVE  KeepsRows /\ PoolInv'
<1>1. At(c, "write") /\ call[c].at \notin {"idle", "upsert", "check"} /\ last' = last
  BY DEF Write, At
<1> DEFINE i == call[c].id
           r == [rows[i] EXCEPT !.payload = call[c].payload, !.embedded = Embedded(c)]
<1>2. CASE Writable(i, call[c].payload, Embedded(c))
  <2>1. rows[i] \in Row /\ rows[i] # NoRow /\ RowOK(rows[i]) /\ rows[i].acct = Info(c) /\ i \in Ids
    BY <1>1, <1>2, RowOfCall DEF Writable
  <2>2. r \in Row /\ r.acct = rows[i].acct /\ RowOK(r)
    BY <1>1, <2>1, LoginOfCall DEF Row, RowOK, At
  <2>3. rows' = [rows EXCEPT ![i] = r] /\ Go(c, "profile")
    BY <1>2 DEF Write
  <2>4. KeepsRows
    BY <1>1, <2>1, <2>2, <2>3, OneRowStep
  <2> QED
    BY <1>1, <2>3, <2>4, GoFits DEF KeepsRows
<1>3. CASE ~Writable(i, call[c].payload, Embedded(c))
  BY <1>1, <1>3, NoRowsStep, DoneFits DEF Write, KeepsRows
<1> QED
  BY <1>2, <1>3

LEMMA BindProfileKeeps ==
  ASSUME PoolInv, NEW c \in Calls, BindProfile(c)
  PROVE  KeepsRows /\ PoolInv'
<1>1. At(c, "profile") /\ ~At(c, "idle") /\ call[c].at \notin {"idle", "upsert", "check"} /\ last' = last
  BY DEF BindProfile, At
<1> DEFINE i == call[c].id
<1>2. i \in Ids /\ i <= last /\ rows[i] \in Row \cup {NoRow} /\ RowOK(rows[i])
      /\ (rows[i] # NoRow => rows[i].acct = Info(c))
  BY <1>1, RowOfCall
<1>3. rows' = rows
  <2>1. CASE rows' = rows
    BY <2>1
  <2>2. CASE rows[i] # NoRow /\ rows' = [rows EXCEPT ![i] = SetProfile(@, Info(c))]
    <3>1. SetProfile(rows[i], Info(c)) = rows[i]
      BY <1>2, <2>2 DEF SetProfile, Row
    <3> QED
      BY <1>2, <2>2, <3>1 DEF PoolInv, TypeOK
  <2> QED
    BY <2>1, <2>2 DEF BindProfile
<1>4. KeepsRows
  BY <1>1, <1>3, NoRowsStep
<1>5. PICK s \in AfterValue(c) : Proceed(c, i, s)
  BY DEF BindProfile
<1> QED
  BY <1>1, <1>2, <1>3, <1>4, <1>5, EndsSomewhere, ProceedFits DEF KeepsRows

LEMMA SplitKeeps ==
  ASSUME PoolInv, NEW c \in Calls, Split(c)
  PROVE  KeepsRows /\ PoolInv'
<1>1. At(c, "split") /\ ~At(c, "idle") /\ call[c].at \notin {"idle", "upsert", "check"} /\ last' = last
  BY DEF Split, At
<1> DEFINE i == call[c].id
           r == UpdateCookieValue(rows[i], call[c].payload)
<1>2. call[c].payload # NoPayload
  BY <1>1 DEF PoolInv, CallOK, At
<1>3. KeepsRows
  <2>1. CASE Writable(i, call[c].payload, NoToken)
    <3>1. rows[i] \in Row /\ rows[i] # NoRow /\ RowOK(rows[i]) /\ rows[i].acct = Info(c) /\ i \in Ids
      BY <1>1, <2>1, RowOfCall DEF Writable
    <3>2. r \in Row /\ r.acct = rows[i].acct /\ RowOK(r)
      BY <1>1, <1>2, <3>1, LoginOfCall DEF Row, RowOK, UpdateCookieValue
    <3>3. rows' = [rows EXCEPT ![i] = r]
      BY <2>1 DEF Split
    <3> QED
      BY <1>1, <3>1, <3>2, <3>3, OneRowStep
  <2>2. CASE ~Writable(i, call[c].payload, NoToken)
    BY <1>1, <2>2, NoRowsStep DEF Split
  <2> QED
    BY <2>1, <2>2
<1> QED
  BY <1>1, <1>2, <1>3, GoFits DEF Split, KeepsRows

LEMMA StoreTokenKeeps ==
  ASSUME PoolInv, NEW c \in Calls, StoreToken(c)
  PROVE  KeepsRows /\ PoolInv'
<1>1. At(c, "token") /\ ~At(c, "idle") /\ call[c].at \notin {"idle", "upsert", "check"} /\ last' = last
  BY DEF StoreToken, At
<1> DEFINE i == call[c].id
           r == UpdateCookieSessionSuccess(rows[i], call[c].token)
<1>2. i \in Ids /\ i <= last /\ rows[i] \in Row \cup {NoRow} /\ RowOK(rows[i])
      /\ (rows[i] # NoRow => rows[i].acct = Info(c))
  BY <1>1, RowOfCall
<1>3. KeepsRows /\ (rows'[i] # NoRow => rows'[i].acct = Info(c))
  <2>1. CASE rows[i] = NoRow
    BY <1>1, <1>2, <2>1, NoRowsStep DEF StoreToken
  <2>2. CASE rows[i] # NoRow
    <3>1. r \in Row /\ r.acct = rows[i].acct
      <4>1. rows[i] \in Row /\ call[c].token \in Tokens
        BY <1>1, <1>2, <2>2, LoginOfCall
      <4>2. 0 \in 0 .. FailCap
        BY RowAssumption
      <4>3. CASE rows[i].disabled \in SelfHealing
        BY <4>1, <4>2, <4>3 DEF Row, UpdateCookieSessionSuccess, Status, Reasons
      <4>4. CASE rows[i].disabled \notin SelfHealing
        BY <4>1, <4>2, <4>4 DEF Row, UpdateCookieSessionSuccess, Status, Reasons
      <4> QED
        BY <4>3, <4>4
    <3>2. RowOK(r)
      BY <1>1, <1>2, <2>2, LoginOfCall DEF Row, RowOK, UpdateCookieSessionSuccess, Info
    <3>3. rows' = [rows EXCEPT ![i] = r]
      BY <2>2 DEF StoreToken
    <3>4. rows'[i] = r
      BY <1>2, <3>3 DEF PoolInv, TypeOK
    <3> QED
      BY <1>1, <1>2, <2>2, <3>1, <3>2, <3>3, <3>4, OneRowStep
  <2> QED
    BY <2>1, <2>2
<1>4. PICK s \in End(c) : Proceed(c, i, s)
  BY DEF StoreToken
<1> QED
  BY <1>1, <1>2, <1>3, <1>4, EndsSomewhere, ProceedFits DEF KeepsRows

LEMMA EnableKeeps ==
  ASSUME PoolInv, NEW c \in Calls, Enable(c)
  PROVE  KeepsRows /\ PoolInv'
<1>1. call[c].at \notin {"idle", "upsert", "check"} /\ last' = last /\ Done(c)
  BY DEF Enable, At
<1> DEFINE i == call[c].id
           r == ToggleCookie(rows[i], TRUE)
<1>2. i \in Ids /\ rows[i] \in Row \cup {NoRow} /\ RowOK(rows[i])
  BY <1>1, RowOfCall
<1>3. CASE rows[i] = NoRow
  BY <1>1, <1>3, NoRowsStep, DoneFits DEF Enable, KeepsRows
<1>4. CASE rows[i] # NoRow
  <2>1. r \in Row /\ r.acct = rows[i].acct /\ RowOK(r)
    BY <1>2, <1>4 DEF Row, RowOK, ToggleCookie, Status, Reasons
  <2>2. rows' = [rows EXCEPT ![i] = r]
    BY <1>4 DEF Enable
  <2> QED
    BY <1>1, <1>2, <1>4, <2>1, <2>2, OneRowStep, DoneFits DEF KeepsRows
<1> QED
  BY <1>3, <1>4

(* A step that moves no call.                                               *)
LEMMA NoCallMoves ==
  ASSUME PoolInv, RowsStep, UNCHANGED call
  PROVE  PoolInv'
<1>1. CASE Calls = {}
  BY <1>1 DEF PoolInv, TypeOK, RowsStep, OneRowPerAccount, Live
<1>2. CASE Calls # {}
  <2>1. PICK c \in Calls : TRUE
    BY <1>2
  <2> DEFINE m == call[c]
  <2>2. m \in Call /\ call' = [call EXCEPT ![c] = m] /\ CallOK(c)
    BY DEF PoolInv, TypeOK
  <2>3. CallOK(c)'
    <3>1. call[c].id \in Ids /\ call[c].id <= last => call[c].id <= last'
      BY PoolAssumption DEF RowsStep, PoolInv, TypeOK, Ids
    <3>2. ASSUME call[c].id \in Ids, call[c].id <= last, rows'[call[c].id] # NoRow
          PROVE  rows[call[c].id] # NoRow /\ rows'[call[c].id].acct = rows[call[c].id].acct
      BY <3>2, PoolAssumption DEF RowsStep, PoolInv, TypeOK, Ids
    <3> QED
      BY <2>2, <3>1, <3>2 DEF CallOK, At, Info
  <2> QED
    BY <2>2, <2>3, StepKeeps
<1> QED
  BY <1>1, <1>2

LEMMA PoolStep ==
  ASSUME PoolInv, PoolNext
  PROVE  /\ RowsStep
         /\ PoolInv'
         /\ KeepsRows \/ Merge \/ (\E c \in Calls : Upsert(c)) \/ (\E i \in Live : Delete(i))
<1>1. ASSUME NEW c \in Calls, NEW x \in Pasted, Add(c, x[1], x[2], x[3])
      PROVE  KeepsRows /\ PoolInv'
  BY <1>1, ValidatedKeeps DEF Add
<1>10. ASSUME NEW c \in Calls, NEW x \in Pasted, NEW u \in Users, Bound(c, u, x[1], x[2], x[3])
       PROVE  KeepsRows /\ PoolInv'
  BY <1>10, ValidatedKeeps DEF Bound
<1>2. ASSUME NEW c \in Calls, NEW x \in Pasted, NEW i \in Live, Edit(c, i, x[1], x[2], x[3])
      PROVE  KeepsRows /\ PoolInv'
  BY <1>2, ValidatedKeeps DEF Edit, Live
<1>3. ASSUME NEW c \in Calls, ImportStep(c), ~Upsert(c) PROVE KeepsRows /\ PoolInv'
  <2>1. CASE Refuse(c)
    BY <2>1, NoRowsStep, DoneFits DEF Refuse, KeepsRows
  <2> QED
    BY <1>3, <2>1, InsertKeeps, SplitKeeps, StoreTokenKeeps DEF ImportStep
<1>4. ASSUME NEW c \in Calls, EditStep(c) PROVE KeepsRows /\ PoolInv'
  BY <1>4, CheckKeeps, WriteKeeps, BindProfileKeeps, EnableKeeps DEF EditStep
<1>5. ASSUME NEW c \in Calls, Leave(c) PROVE KeepsRows /\ PoolInv'
  BY <1>5, NoRowsStep, DoneFits DEF Leave, KeepsRows
<1>6. ASSUME NEW i \in Live, Delete(i) PROVE RowsStep /\ PoolInv'
  <2>1. rows' = [j \in Ids |-> IF j \in Ids \ {i} THEN rows[j] ELSE NoRow]
    BY <1>6 DEF Delete, PoolInv, TypeOK
  <2> QED
    BY <1>6, <2>1, DeletionStep, NoCallMoves DEF Delete
<1>7. ASSUME Merge PROVE RowsStep /\ PoolInv'
  <2>1. PICK kept \in SUBSET Live : rows' = [i \in Ids |-> IF i \in kept THEN rows[i] ELSE NoRow]
    BY <1>7 DEF Merge
  <2> QED
    BY <1>7, <2>1, DeletionStep, NoCallMoves DEF Merge
<1>8. ASSUME NEW c \in Calls, Upsert(c) PROVE RowsStep /\ PoolInv'
  BY <1>8, UpsertKeeps
<1>9. KeepsRows => RowsStep
  BY DEF KeepsRows
<1> QED
  BY <1>1, <1>2, <1>3, <1>4, <1>5, <1>6, <1>7, <1>8, <1>9, <1>10 DEF PoolNext

LEMMA StepHolds == PoolInv /\ [PoolNext]_poolVars => PoolInv'
<1>1. ASSUME PoolInv, UNCHANGED poolVars PROVE PoolInv'
  BY <1>1, NoRowsStep, NoCallMoves DEF poolVars, KeepsRows
<1> QED
  BY <1>1, PoolStep

LEMMA PoolInvariant == PoolSpec => []PoolInv
  BY InitHolds, StepHolds, PTL DEF PoolSpec
-----------------------------------------------------------------------------
(* The table and the calls keep their types.                                *)
THEOREM TypeCorrect == PoolSpec => []TypeOK
  BY PoolInvariant, PTL DEF PoolInv

(* A row's cookie and JWTs are of its own account, for any number of calls
   and however the browser sessions were switched.                          *)
THEOREM CredentialsAlwaysMatch == PoolSpec => []CredentialsMatch
<1>1. PoolInv => CredentialsMatch
  BY DEF PoolInv, RowOK, CredentialsMatch, Live
<1> QED
  BY <1>1, PoolInvariant, PTL

(* No account gets a second row.                                            *)
THEOREM AccountHasOneRow == PoolSpec => []OneRowPerAccount
  BY PoolInvariant, PTL DEF PoolInv

(* No account with a JWT is enabled in a state that every scheduler skips.  *)
THEOREM ImportsWork == PoolSpec => []ImportedNotStuck
<1>1. PoolInv => ImportedNotStuck
  BY DEF PoolInv, RowOK, ImportedNotStuck, Live
<1> QED
  BY <1>1, PoolInvariant, PTL

(* An account with a row keeps one, unless a deletion is the step.          *)
LEMMA AccountStays ==
  ASSUME PoolInv, NEW u \in Users, HasRow(u), KeepsRows \/ Merge \/ \E c \in Calls : Upsert(c)
  PROVE  HasRow(u)'
<1>1. PICK i \in Live : rows[i].acct = u
  BY DEF HasRow
<1>2. CASE \E c \in Calls : Upsert(c)
  <2>1. PICK c \in Calls : Upsert(c)
    BY <1>2
  <2>2. PICK k \in Ids :
          /\ k \in Same(c)
          /\ rows' = [j \in Ids |-> IF j = k THEN Updated(rows[k], c)
                                   ELSE IF j \in Same(c) THEN NoRow ELSE rows[j]]
    BY <2>1 DEF Upsert, Oldest
  <2>3. rows[k] \in Row /\ rows[k].acct = Info(c)
    BY <2>2 DEF Same, Live, PoolInv, TypeOK
  <2>4. Updated(rows[k], c) # NoRow /\ Updated(rows[k], c).acct = Info(c)
    <3>1. Updated(rows[k], c) \in Row
      BY <2>1, <2>3, LoginOfCall DEF Updated, Row, Reasons, Upsert, At
    <3> QED
      BY <2>3, <3>1, RowsFit DEF Updated, Row
  <2>5. CASE i \in Same(c)
    BY <1>1, <2>2, <2>4, <2>5 DEF HasRow, Live, Same
  <2>6. CASE i \notin Same(c)
    BY <1>1, <2>2, <2>6 DEF HasRow, Live
  <2> QED
    BY <2>5, <2>6
<1>3. CASE Merge
  <2>1. PICK kept \in SUBSET Live :
          /\ \A k \in Live : \E j \in kept : rows[j].acct = rows[k].acct
          /\ rows' = [k \in Ids |-> IF k \in kept THEN rows[k] ELSE NoRow]
    BY <1>3 DEF Merge
  <2>2. PICK j \in kept : rows[j].acct = u
    BY <1>1, <2>1
  <2> QED
    BY <2>1, <2>2 DEF HasRow, Live
<1>4. CASE KeepsRows
  BY <1>1, <1>4 DEF HasRow, Live, KeepsRows, RowsStep
<1> QED
  BY <1>2, <1>3, <1>4

LEMMA StepKeepsAccounts ==
  PoolInv /\ [PoolNext]_poolVars =>
    [\A u \in Users : HasRow(u) => HasRow(u)' \/ \E i \in Live : Delete(i)]_poolVars
  BY PoolStep, AccountStays

(* An account leaves the pool by the user's deletion only.                  *)
THEOREM AccountsKept == PoolSpec => AccountKept
  BY PoolInvariant, StepKeepsAccounts, PTL DEF PoolSpec, AccountKept
=============================================================================
