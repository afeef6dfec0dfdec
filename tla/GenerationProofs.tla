-------------------------- MODULE GenerationProofs --------------------------
(***************************************************************************)
(* Proofs about Generation, for every set of calls, accounts, requests and *)
(* generations: type correctness, that a delivered result stays in the     *)
(* library, and that Generate, the image call, submits again only after a  *)
(* failure.                                                                *)
(***************************************************************************)
EXTENDS Generation, SequenceTheorems, FiniteSetTheorems, TLAPS

USE DEF callVars, history, GoTo, Media
-----------------------------------------------------------------------------
(* Type correctness.                                                       *)
LEMMA InitTyped == Init => TypeOK
<1> SUFFICES ASSUME Init PROVE TypeOK
  OBVIOUS
<1>1. rows \in Seq(Row) /\ Len(rows) = 0
  BY EmptySeq DEF Init
<1>2. sync \in [items : SUBSET Item, item : Generations \cup {NoGen}, found : Nat] /\ sync.found = 0
  BY DEF Init, Idle
<1> QED
  BY <1>1, <1>2 DEF Init, TypeOK, Remote

(* The variables of the calls, and the rest of the state.                  *)
CallTyped ==
  /\ at \in [Calls -> {"idle", "find", "next", "session", "create", "poll", "log"}]
  /\ asked \in [Calls -> Requests \cup {NoRequest}]
  /\ left \in [Calls -> SUBSET Accounts]
  /\ acct \in [Calls -> Accounts \cup {NoAccount}]
  /\ second \in [Calls -> BOOLEAN]
  /\ mine \in [Calls -> Generations \cup {NoGen}]
  /\ known \in [Calls -> SUBSET Generations]

LEMMA ReturnTyped ==
  ASSUME CallTyped, NEW c \in Calls, Return(c)
  PROVE  CallTyped'
  BY DEF CallTyped, Return

LEMMA NextAccountTyped ==
  ASSUME CallTyped, NEW c \in Calls, NextAccount(c), known' = known
  PROVE  CallTyped'
  BY DEF CallTyped, NextAccount

LEMMA RetryTyped ==
  ASSUME CallTyped, NEW c \in Calls, Retry(c), known' = known
  PROVE  CallTyped'
  BY DEF CallTyped, Retry

(* What a new row does to the log.                                         *)
LEMMA RowAppended ==
  ASSUME rows \in Seq(Row), NEW row \in Row, rows' = Append(rows, row)
  PROVE  /\ rows' \in Seq(Row)
         /\ Len(rows') = Len(rows) + 1
         /\ DOMAIN rows = 1 .. Len(rows) /\ DOMAIN rows' = 1 .. (Len(rows) + 1)
         /\ Len(rows) \in Nat
         /\ \A i \in DOMAIN rows : rows'[i] = rows[i]
         /\ rows'[Len(rows) + 1] = row
  BY AppendProperties, LenProperties

(* What changing a row does to it.                                         *)
LEMMA RowChanged ==
  ASSUME rows \in Seq(Row), NEW i \in 1 .. Len(rows), NEW row \in Row, rows' = [rows EXCEPT ![i] = row]
  PROVE  /\ rows' \in Seq(Row)
         /\ Len(rows') = Len(rows)
         /\ DOMAIN rows = 1 .. Len(rows) /\ DOMAIN rows' = 1 .. Len(rows)
         /\ Len(rows) \in Nat
         /\ \A j \in DOMAIN rows : rows'[j] = IF j = i THEN row ELSE rows[j]
  BY ExceptSeq, LenProperties

(* A call that polls, or logs, has been given a generation.                *)
Waiting == \A c \in Calls : at[c] \in {"poll", "log"} => mine[c] \in Generations

LEMMA StepWaiting == TypeOK /\ Waiting /\ [Next]_vars => Waiting'
<1> SUFFICES ASSUME TypeOK, Waiting, [Next]_vars PROVE Waiting'
  OBVIOUS
<1>1. CASE UNCHANGED callVars
  BY <1>1 DEF Waiting
<1>2. ASSUME NEW c \in Calls, NEW r \in Requests \cup {NoRequest}, Receive(c, r) PROVE Waiting'
  BY <1>2 DEF Receive, Waiting, TypeOK
<1>3. ASSUME NEW c \in Calls, Return(c) PROVE Waiting'
  BY <1>3 DEF Return, Waiting, TypeOK
<1>4. ASSUME NEW c \in Calls, NextAccount(c) \/ Retry(c) PROVE Waiting'
  BY <1>4 DEF NextAccount, Retry, Waiting, TypeOK
<1>5. ASSUME NEW c \in Calls, Find(c), ~Return(c) PROVE Waiting'
  BY <1>5 DEF Find, Waiting, TypeOK
<1>6. ASSUME NEW c \in Calls, Visit(c) PROVE Waiting'
  BY <1>6 DEF Visit, Waiting, TypeOK
<1>7. ASSUME NEW c \in Calls, Session(c), ~(NextAccount(c) \/ Retry(c)) PROVE Waiting'
  BY <1>7 DEF Session, Waiting, TypeOK
<1>8. ASSUME NEW c \in Calls, Create(c), ~NextAccount(c) PROVE Waiting'
  BY <1>8 DEF Create, Unused, Waiting, TypeOK
<1>9. ASSUME NEW c \in Calls, PollSuccess(c) PROVE Waiting'
  BY <1>9 DEF PollSuccess, Waiting, TypeOK
<1> QED
  BY <1>1, <1>2, <1>3, <1>4, <1>5, <1>6, <1>7, <1>8, <1>9
  DEF vars, Next, Step, NoneLeft, Refuse, PollFailure, ImageTimeout, VideoTimeout, Log, Crash,
      Finish, List, Select, Upsert, Hide

LEMMA StepCallTyped == TypeOK /\ [Next]_vars => CallTyped'
<1> SUFFICES ASSUME TypeOK, [Next]_vars PROVE CallTyped'
  OBVIOUS
<1>0. CallTyped
  BY DEF TypeOK, CallTyped
<1>1. CASE UNCHANGED callVars
  BY <1>0, <1>1 DEF CallTyped
<1>2. ASSUME NEW c \in Calls, NEW r \in Requests \cup {NoRequest}, Receive(c, r) PROVE CallTyped'
  BY <1>0, <1>2 DEF Receive, CallTyped
<1>3. ASSUME NEW c \in Calls, Return(c) PROVE CallTyped'
  BY <1>0, <1>3, ReturnTyped
<1>4. ASSUME NEW c \in Calls, NextAccount(c) \/ Retry(c), known' = known PROVE CallTyped'
  BY <1>0, <1>4, NextAccountTyped, RetryTyped
<1>5. ASSUME NEW c \in Calls, Find(c), ~Return(c) PROVE CallTyped'
  BY <1>0, <1>5 DEF Find, CallTyped
<1>6. ASSUME NEW c \in Calls, Visit(c) PROVE CallTyped'
  BY <1>0, <1>6 DEF Visit, CallTyped
<1>7. ASSUME NEW c \in Calls, Session(c), ~(NextAccount(c) \/ Retry(c)) PROVE CallTyped'
  BY <1>0, <1>7 DEF Session, CallTyped
<1>8. ASSUME NEW c \in Calls, Create(c), ~(NextAccount(c) /\ known' = known) PROVE CallTyped'
  BY <1>0, <1>8 DEF Create, Unused, CallTyped
<1>9. ASSUME NEW c \in Calls, PollSuccess(c) PROVE CallTyped'
  BY <1>0, <1>9 DEF PollSuccess, CallTyped
<1> QED
  BY <1>1, <1>2, <1>3, <1>4, <1>5, <1>6, <1>7, <1>8, <1>9
  DEF vars, Next, Step, NoneLeft, Session, Refuse, PollFailure, ImageTimeout, VideoTimeout, Log, Crash,
      Finish, List, Select, Upsert, Hide
-----------------------------------------------------------------------------
(* How a step may change the log: it adds a row, or changes one row's other
   fields but not its generation.                                          *)
LEMMA StepRows ==
  ASSUME TypeOK, Waiting, [Next]_vars
  PROVE  /\ rows' \in Seq(Row)
         /\ Len(rows) \in Nat /\ Len(rows') \in Nat /\ Len(rows') >= Len(rows)
         /\ DOMAIN rows = 1 .. Len(rows) /\ DOMAIN rows' = 1 .. Len(rows')
         /\ \A i \in DOMAIN rows : rows'[i].gen = rows[i].gen
<1>0. rows \in Seq(Row) /\ Len(rows) \in Nat /\ DOMAIN rows = 1 .. Len(rows)
  BY LenProperties DEF TypeOK
<1>1. CASE UNCHANGED rows
  BY <1>0, <1>1
<1>2. ASSUME NEW row \in Row, rows' = Append(rows, row)
      PROVE  /\ rows' \in Seq(Row)
             /\ Len(rows') = Len(rows) + 1
             /\ DOMAIN rows' = 1 .. (Len(rows) + 1)
             /\ \A i \in DOMAIN rows : rows'[i] = rows[i]
  BY <1>0, <1>2, RowAppended
<1>3. ASSUME NEW c \in Calls, ImageTimeout(c) \/ Log(c) PROVE \E row \in Row : rows' = Append(rows, row)
  <2>1. mine[c] \in Generations /\ asked[c] \in Requests \cup {NoRequest}
    BY <1>3 DEF ImageTimeout, Log, Waiting, TypeOK
  <2> QED
    BY <1>3, <2>1 DEF ImageTimeout, Log, NewRow, Row
<1>4. ASSUME NEW i \in 1 .. Len(rows), NEW row \in Row, row.gen = rows[i].gen, rows' = [rows EXCEPT ![i] = row]
      PROVE  /\ rows' \in Seq(Row)
             /\ Len(rows') = Len(rows)
             /\ DOMAIN rows' = 1 .. Len(rows)
             /\ \A j \in DOMAIN rows : rows'[j].gen = rows[j].gen
  BY <1>0, <1>4, RowChanged
<1>5. ASSUME NEW g \in Generations, Upsert(g)
      PROVE  \/ \E row \in Row : rows' = Append(rows, row)
             \/ \E i \in 1 .. Len(rows), row \in Row : row.gen = rows[i].gen /\ rows' = [rows EXCEPT ![i] = row]
  <2>1. LibraryStatus(g) = "success" \/ LibraryStatus(g) = "pending"
    BY DEF LibraryStatus
  <2>2. CASE sync.found = 0
    <3>1. NewRow(g, "image", NoRequest, LibraryStatus(g)) \in Row
      BY <2>1 DEF NewRow, Row
    <3>2. rows' = Append(rows, NewRow(g, "image", NoRequest, LibraryStatus(g)))
      BY <1>5, <2>2 DEF Upsert
    <3> QED
      BY <3>1, <3>2
  <2>3. CASE sync.found # 0
    <3>1. sync.found \in 1 .. Len(rows) /\ rows[sync.found] \in Row
      BY <1>0, <2>3 DEF TypeOK
    <3>2. Overwritten(rows[sync.found], LibraryStatus(g)) \in Row
      BY <2>1, <3>1 DEF Overwritten, Row
    <3>3. Overwritten(rows[sync.found], LibraryStatus(g)).gen = rows[sync.found].gen
      BY <3>1 DEF Overwritten, Row
    <3> QED
      BY <1>5, <2>3, <3>1, <3>2, <3>3 DEF Upsert
  <2> QED
    BY <2>2, <2>3
<1>6. ASSUME NEW i \in DOMAIN rows, Hide(i)
      PROVE  \E row \in Row : row.gen = rows[i].gen /\ rows' = [rows EXCEPT ![i] = row]
  <2>1. rows[i] \in Row
    BY <1>0
  <2>2. [rows[i] EXCEPT !.hidden = TRUE] \in Row /\ [rows[i] EXCEPT !.hidden = TRUE].gen = rows[i].gen
    BY <2>1 DEF Row
  <2> QED
    BY <1>6, <2>2 DEF Hide
<1>7. \/ UNCHANGED rows
      \/ \E row \in Row : rows' = Append(rows, row)
      \/ \E i \in 1 .. Len(rows), row \in Row : row.gen = rows[i].gen /\ rows' = [rows EXCEPT ![i] = row]
  BY <1>0, <1>3, <1>5, <1>6
  DEF vars, Next, Step, Receive, Find, Visit, NoneLeft, Session, Create, Refuse, PollSuccess, PollFailure,
      VideoTimeout, Crash, Finish, List, Select
<1>8. CASE \E row \in Row : rows' = Append(rows, row)
  BY <1>0, <1>2, <1>8
<1>9. CASE \E i \in 1 .. Len(rows), row \in Row : row.gen = rows[i].gen /\ rows' = [rows EXCEPT ![i] = row]
  BY <1>0, <1>4, <1>9
<1> QED
  BY <1>1, <1>7, <1>8, <1>9
-----------------------------------------------------------------------------
(* The sync imports generations that are complete.                         *)
SyncSound ==
  /\ \A i \in sync.items : i.status = "complete"
  /\ sync.item # NoGen => \E i \in sync.items : i.gen = sync.item

LEMMA StepTyped == TypeOK /\ Waiting /\ [Next]_vars => TypeOK'
<1> SUFFICES ASSUME TypeOK, Waiting, [Next]_vars PROVE TypeOK'
  OBVIOUS
<1>1. CallTyped' /\ rows' \in Seq(Row) /\ Len(rows) \in Nat /\ Len(rows') \in Nat /\ Len(rows') >= Len(rows)
  BY StepCallTyped, StepRows
<1>2. remote' \in [Generations -> Remote]
  <2>1. CASE UNCHANGED remote
    BY <2>1 DEF TypeOK
  <2>2. ASSUME NEW c \in Calls, Create(c) PROVE remote' \in [Generations -> Remote]
    BY <2>2 DEF Create, Unused, TypeOK, Remote
  <2>3. ASSUME NEW g \in Generations, Finish(g) PROVE remote' \in [Generations -> Remote]
    BY <2>3 DEF Finish, TypeOK, Remote
  <2> QED
    BY <2>1, <2>2, <2>3
    DEF vars, Next, Step, Receive, Find, Visit, NoneLeft, Session, Refuse, PollSuccess, PollFailure,
        ImageTimeout, VideoTimeout, Log, Crash, List, Select, Upsert, Hide
<1>3. /\ sync' \in [items : SUBSET Item, item : Generations \cup {NoGen}, found : Nat]
      /\ sync'.found \in 0 .. Len(rows')
  <2>1. CASE UNCHANGED sync
    BY <1>1, <2>1 DEF TypeOK
  <2>2. ASSUME NEW a \in Accounts, List(a)
        PROVE  /\ sync' \in [items : SUBSET Item, item : Generations \cup {NoGen}, found : Nat]
               /\ sync'.found = 0
    <3> DEFINE S == {[gen |-> h, status |-> remote[h].status] :
                       h \in {k \in Created : remote[k].account = a /\ remote[k].status = "complete"}}
    <3>1. sync' = [sync EXCEPT !.items = S]
      BY <2>2 DEF List
    <3>2. S \in SUBSET Item
      BY DEF Created, Item
    <3> HIDE DEF S
    <3>3. sync.found = 0
      BY <2>2 DEF List, Idle
    <3> QED
      BY <3>1, <3>2, <3>3 DEF TypeOK
  <2>3. ASSUME NEW g \in Generations, Select(g)
        PROVE  /\ sync' \in [items : SUBSET Item, item : Generations \cup {NoGen}, found : Nat]
               /\ sync'.found \in 0 .. Len(rows)
    <3>1. RowsOf(g) \subseteq 1 .. Len(rows)
      BY LenProperties DEF RowsOf, TypeOK
    <3>2. CASE sync' = [sync EXCEPT !.item = g]
      BY <3>2 DEF TypeOK
    <3>3. ASSUME NEW n \in RowsOf(g), sync' = [sync EXCEPT !.item = g, !.found = n]
          PROVE  /\ sync' \in [items : SUBSET Item, item : Generations \cup {NoGen}, found : Nat]
                 /\ sync'.found \in 0 .. Len(rows)
      <4>1. n \in 0 .. Len(rows) /\ n \in Nat
        BY <1>1, <3>1
      <4> QED
        BY <3>3, <4>1 DEF TypeOK
    <3> QED
      BY <2>3, <3>2, <3>3 DEF Select
  <2>4. ASSUME NEW g \in Generations, Upsert(g)
        PROVE  /\ sync' \in [items : SUBSET Item, item : Generations \cup {NoGen}, found : Nat]
               /\ sync'.found = 0
    BY <2>4 DEF Upsert, TypeOK
  <2> QED
    <3>1. 0 \in 0 .. Len(rows') /\ \A n \in 0 .. Len(rows) : n \in 0 .. Len(rows')
      BY <1>1
    <3>2. \/ UNCHANGED sync
          \/ \E a \in Accounts : List(a)
          \/ \E g \in Generations : Select(g) \/ Upsert(g)
      BY DEF vars, Next, Step, Receive, Find, Visit, NoneLeft, Session, Create, Refuse, PollSuccess,
             PollFailure, ImageTimeout, VideoTimeout, Log, Crash, Finish, Hide
    <3> QED
      BY <2>1, <2>2, <2>3, <2>4, <3>1, <3>2
<1>4. hidden' \subseteq Generations /\ delivered' \subseteq (Requests \cup {NoRequest}) \X Generations
  <2>1. CASE UNCHANGED history
    BY <2>1 DEF TypeOK
  <2>2. ASSUME NEW c \in Calls, Log(c)
        PROVE  hidden' \subseteq Generations /\ delivered' \subseteq (Requests \cup {NoRequest}) \X Generations
    BY <2>2 DEF Log, Waiting, TypeOK
  <2>3. ASSUME NEW i \in DOMAIN rows, Hide(i)
        PROVE  hidden' \subseteq Generations /\ delivered' \subseteq (Requests \cup {NoRequest}) \X Generations
    <3>1. rows[i] \in Row
      BY LenProperties DEF TypeOK
    <3>2. rows[i].gen \in Generations
      BY <3>1 DEF Row
    <3> QED
      BY <2>3, <3>2 DEF Hide, TypeOK
  <2> QED
    BY <2>1, <2>2, <2>3
    DEF vars, Next, Step, Receive, Find, Visit, NoneLeft, Session, Create, Refuse, PollSuccess, PollFailure,
        ImageTimeout, VideoTimeout, Crash, Finish, List, Select, Upsert
<1> QED
  BY <1>1, <1>2, <1>3, <1>4 DEF TypeOK, CallTyped

LEMMA InitWaiting == Init => Waiting
  BY DEF Init, Waiting

(* Every variable has its type, in every behaviour (the local variables of
   Generate and GenerateVideo, the rows of generation_logs, the sync).     *)
THEOREM TypeCorrect == Spec => []TypeOK
<1>1. Init => TypeOK /\ Waiting
  BY InitTyped, InitWaiting
<1>2. TypeOK /\ Waiting /\ [Next]_vars => (TypeOK /\ Waiting)'
  BY StepTyped, StepWaiting
<1> QED
  BY <1>1, <1>2, PTL DEF Spec
-----------------------------------------------------------------------------
(* A delivered result stays in the library.                                *)
LEMMA StepSyncSound == TypeOK /\ SyncSound /\ [Next]_vars => SyncSound'
<1> SUFFICES ASSUME TypeOK, SyncSound, [Next]_vars PROVE SyncSound'
  OBVIOUS
<1>1. CASE UNCHANGED sync
  BY <1>1 DEF SyncSound
<1>2. ASSUME NEW a \in Accounts, List(a) PROVE SyncSound'
  <2> DEFINE S == {[gen |-> h, status |-> remote[h].status] :
                     h \in {k \in Created : remote[k].account = a /\ remote[k].status = "complete"}}
  <2>1. sync'.items = S /\ sync'.item = NoGen
    BY <1>2 DEF List, Idle, TypeOK
  <2>2. \A i \in S : i.status = "complete"
    OBVIOUS
  <2> QED
    BY <2>1, <2>2 DEF SyncSound
<1>3. ASSUME NEW g \in Generations, Select(g) PROVE SyncSound'
  <2>1. sync'.items = sync.items /\ sync'.item = g
    BY <1>3 DEF Select, TypeOK
  <2> QED
    BY <1>3, <2>1 DEF Select, SyncSound
<1>4. ASSUME NEW g \in Generations, Upsert(g) PROVE SyncSound'
  BY <1>4 DEF Upsert, SyncSound
<1> QED
  BY <1>1, <1>2, <1>3, <1>4
  DEF vars, Next, Step, Receive, Find, Visit, NoneLeft, Session, Create, Refuse, PollSuccess, PollFailure,
      ImageTimeout, VideoTimeout, Log, Crash, Finish, Hide

(* No step takes a row's success back.                                     *)
LEMMA SuccessKept ==
  ASSUME TypeOK, Waiting, SyncSound, [Next]_vars, NEW i \in DOMAIN rows, rows[i].status = "success"
  PROVE  i \in DOMAIN rows' /\ rows'[i].gen = rows[i].gen /\ rows'[i].status = "success"
<1>1. i \in DOMAIN rows' /\ rows'[i].gen = rows[i].gen /\ i \in 1 .. Len(rows)
  BY StepRows
<1>2. CASE UNCHANGED rows
  BY <1>2
<1>3. ASSUME NEW row \in Row, rows' = Append(rows, row) PROVE rows'[i].status = "success"
  BY <1>3, RowAppended DEF TypeOK
<1>4. ASSUME NEW c \in Calls, ImageTimeout(c) \/ Log(c) PROVE rows'[i].status = "success"
  <2>1. mine[c] \in Generations /\ asked[c] \in Requests \cup {NoRequest}
    BY <1>4 DEF ImageTimeout, Log, Waiting, TypeOK
  <2>2. \E row \in Row : rows' = Append(rows, row)
    BY <1>4, <2>1 DEF ImageTimeout, Log, NewRow, Row
  <2> QED
    BY <1>3, <2>2
<1>5. ASSUME NEW g \in Generations, Upsert(g) PROVE rows'[i].status = "success"
  <2>1. LibraryStatus(g) = "success"
    <3>1. sync.item = g
      BY <1>5 DEF Upsert
    <3>2. PICK item \in sync.items : item.gen = g /\ item.status = "complete"
      BY <3>1, GenerationAssumption DEF SyncSound
    <3>3. item = [gen |-> g, status |-> "complete"]
      BY <3>2 DEF TypeOK, Item
    <3> QED
      BY <3>2, <3>3 DEF LibraryStatus
  <2>2. CASE sync.found = 0
    <3>1. NewRow(g, "image", NoRequest, "success") \in Row
      BY DEF NewRow, Row
    <3> QED
      BY <1>3, <1>5, <2>1, <2>2, <3>1 DEF Upsert
  <2>3. CASE sync.found # 0
    <3>1. sync.found \in 1 .. Len(rows) /\ rows[sync.found] \in Row
      BY <2>3, LenProperties DEF TypeOK
    <3>2. Overwritten(rows[sync.found], "success") \in Row /\ Overwritten(rows[sync.found], "success").status = "success"
      BY <3>1 DEF Overwritten, Row
    <3>3. rows' = [rows EXCEPT ![sync.found] = Overwritten(rows[sync.found], "success")]
      BY <1>5, <2>1, <2>3 DEF Upsert
    <3> QED
      BY <3>1, <3>2, <3>3, RowChanged DEF TypeOK
  <2> QED
    BY <2>2, <2>3
<1>6. ASSUME NEW j \in DOMAIN rows, Hide(j) PROVE rows'[i].status = "success"
  <2>1. j \in 1 .. Len(rows) /\ rows[j] \in Row
    BY LenProperties DEF TypeOK
  <2>2. [rows[j] EXCEPT !.hidden = TRUE] \in Row /\ [rows[j] EXCEPT !.hidden = TRUE].status = rows[j].status
    BY <2>1 DEF Row
  <2>3. rows' = [rows EXCEPT ![j] = [rows[j] EXCEPT !.hidden = TRUE]]
    BY <1>6 DEF Hide
  <2> QED
    BY <2>1, <2>2, <2>3, RowChanged DEF TypeOK
<1>7. rows'[i].status = "success"
  BY <1>2, <1>4, <1>5, <1>6
  DEF vars, Next, Step, Receive, Find, Visit, NoneLeft, Session, Create, Refuse, PollSuccess, PollFailure,
      VideoTimeout, Crash, Finish, List, Select
<1> QED
  BY <1>1, <1>7

LEMMA StepDelivered ==
  TypeOK /\ Waiting /\ SyncSound /\ DeliveredInLibrary /\ [Next]_vars => DeliveredInLibrary'
<1> SUFFICES ASSUME TypeOK, Waiting, SyncSound, DeliveredInLibrary, [Next]_vars,
                    NEW r \in Requests \cup {NoRequest}, NEW g \in Generations, <<r, g>> \in delivered'
             PROVE  \E i \in DOMAIN rows' : rows'[i].gen = g /\ rows'[i].status = "success"
  BY DEF DeliveredInLibrary, RowsOf
<1>1. CASE <<r, g>> \in delivered
  <2>1. PICK i \in DOMAIN rows : rows[i].gen = g /\ rows[i].status = "success"
    BY <1>1 DEF DeliveredInLibrary, RowsOf
  <2> QED
    BY <2>1, SuccessKept
<1>2. CASE <<r, g>> \notin delivered
  <2>5. PICK c \in Calls : Log(c)
    BY <1>2
    DEF vars, Next, Step, Receive, Find, Visit, NoneLeft, Session, Create, Refuse, PollSuccess, PollFailure,
        ImageTimeout, VideoTimeout, Crash, Finish, List, Select, Upsert, Hide
  <2>1. Log(c) /\ g = mine[c]
    BY <1>2, <2>5 DEF Log
  <2> DEFINE row == NewRow(mine[c], Media(asked[c]), asked[c], "success")
  <2>2. row \in Row /\ row.gen = g /\ row.status = "success"
    BY <2>1 DEF TypeOK, NewRow, Row
  <2>3. rows' = Append(rows, row)
    BY <2>1 DEF Log
  <2> HIDE DEF row
  <2>4. Len(rows) \in Nat /\ Len(rows) + 1 \in DOMAIN rows' /\ rows'[Len(rows) + 1] = row
    BY <2>2, <2>3, RowAppended DEF TypeOK
  <2> QED
    BY <2>2, <2>4
<1> QED
  BY <1>1, <1>2

(* A result that was given to a client is a success in the generation log,
   however the log is synced with Leonardo, and hidden or not.             *)
THEOREM DeliveredStaysInLibrary == Spec => []DeliveredInLibrary
<1>1. Init => TypeOK /\ Waiting /\ SyncSound /\ DeliveredInLibrary
  BY InitTyped, InitWaiting DEF Init, Idle, SyncSound, DeliveredInLibrary
<1>2. TypeOK /\ Waiting /\ SyncSound /\ DeliveredInLibrary /\ [Next]_vars
        => (TypeOK /\ Waiting /\ SyncSound /\ DeliveredInLibrary)'
  BY StepTyped, StepWaiting, StepSyncSound, StepDelivered
<1> QED
  BY <1>1, <1>2, PTL DEF Spec
-----------------------------------------------------------------------------
(* A call for an image submits again only after a failure.                 *)
FailedBefore ==
  \A c \in Calls :
    /\ at[c] = "idle" => known[c] = {}
    /\ Media(asked[c]) = "image" =>
         \A g \in known[c] :
           remote[g].status = "failed" \/ (at[c] \in {"poll", "log"} /\ g = mine[c])

(* What has failed stays failed.                                           *)
LEMMA FailedStays ==
  ASSUME TypeOK, [Next]_vars, NEW g \in Generations, remote[g].status = "failed"
  PROVE  remote'[g].status = "failed"
  BY DEF vars, Next, Step, Receive, Find, Visit, NoneLeft, Session, Create, Unused, Refuse, PollSuccess,
         PollFailure, ImageTimeout, VideoTimeout, Log, Crash, Finish, List, Select, Upsert, Hide, TypeOK, Remote

(* A call forgets what it was given when it ends, and is given nothing but *)
(* by Create.                                                              *)
LEMMA StepKnown ==
  ASSUME TypeOK, [Next]_vars, NEW c \in Calls, at[c] = "idle" => known[c] = {}
  PROVE  at'[c] = "idle" => known'[c] = {}
<1>1. ASSUME NEW d \in Calls, Return(d) PROVE at'[c] = "idle" => known'[c] = {}
  BY <1>1 DEF Return, TypeOK
<1>2. ASSUME NEW d \in Calls, Step(d) \/ (\E r \in Requests \cup {NoRequest} : Receive(d, r))
      PROVE  at'[c] = "idle" => known'[c] = {}
  BY <1>1, <1>2
  DEF Step, Receive, Find, Visit, NoneLeft, Session, Create, Refuse, PollSuccess, PollFailure, ImageTimeout,
      VideoTimeout, Log, NextAccount, Retry, TypeOK
<1> QED
  BY <1>1, <1>2 DEF vars, Next, Crash, Finish, List, Select, Upsert, Hide

(* Within a call the request does not change.                              *)
LEMMA StepAsked ==
  ASSUME TypeOK, [Next]_vars, NEW c \in Calls, at[c] # "idle"
  PROVE  asked'[c] = asked[c] \/ known'[c] = {}
  BY DEF vars, Next, Step, Receive, Find, Return, Visit, NoneLeft, Session, Create, NextAccount, Retry,
         Refuse, PollSuccess, PollFailure, ImageTimeout, VideoTimeout, Log, Crash, Finish, List, Select, Upsert,
         Hide, TypeOK

LEMMA StepFailedBefore ==
  ASSUME TypeOK, FailedBefore, [Next]_vars
  PROVE  FailedBefore'
<1>0. SUFFICES ASSUME NEW c \in Calls, Media(asked'[c]) = "image", NEW g \in known'[c]
               PROVE  remote'[g].status = "failed" \/ (at'[c] \in {"poll", "log"} /\ g = mine'[c])
  BY StepKnown DEF FailedBefore
<1>1. CASE g \notin known[c]
  <2>1. PICK d \in Calls : Create(d) /\ ~UNCHANGED known
    BY <1>1
    DEF vars, Next, Step, Receive, Find, Return, Visit, NoneLeft, Session, Refuse, PollSuccess,
        PollFailure, ImageTimeout, VideoTimeout, Log, Crash, Finish, List, Select, Upsert, Hide, TypeOK
  <2>2. PICK h \in Generations : at' = [at EXCEPT ![d] = "poll"] /\ mine' = [mine EXCEPT ![d] = h]
                                 /\ known' = [known EXCEPT ![d] = @ \cup {h}]
    BY <2>1 DEF Create, Unused
  <2> QED
    BY <1>1, <2>2 DEF TypeOK
<1>2. CASE g \in known[c]
  <2>1. at[c] # "idle" /\ Media(asked[c]) = "image"
    BY <1>0, <1>2, StepAsked DEF FailedBefore, TypeOK
  <2>2. CASE remote[g].status = "failed"
    BY <1>2, <2>2, FailedStays DEF TypeOK
  <2>3. CASE at[c] \in {"poll", "log"} /\ g = mine[c] /\ remote[g].status # "failed"
    <3>1. CASE UNCHANGED callVars
      BY <2>3, <3>1
    <3>2. ASSUME NEW d \in Calls, Return(d) PROVE at'[c] = at[c] /\ mine'[c] = mine[c]
      BY <1>0, <3>2 DEF Return, TypeOK
    <3>3. ASSUME NEW d \in Calls, d # c, NextAccount(d) \/ Retry(d)
          PROVE  at'[c] = at[c] /\ mine'[c] = mine[c]
      BY <3>3 DEF NextAccount, Retry, TypeOK
    <3>4. ASSUME NEW d \in Calls, PollSuccess(d) PROVE at'[c] \in {"poll", "log"} /\ mine'[c] = mine[c]
      BY <2>3, <3>4 DEF PollSuccess, TypeOK
    <3>5. ASSUME NEW d \in Calls, at[d] \notin {"poll", "log"}, UNCHANGED mine,
                 at' = [at EXCEPT ![d] = "next"] \/ at' = [at EXCEPT ![d] = "session"] \/ at' = at
                   \/ at' = [at EXCEPT ![d] = "find"] \/ at' = [at EXCEPT ![d] = "create"]
          PROVE  at'[c] = at[c] /\ mine'[c] = mine[c]
      BY <2>3, <3>5 DEF TypeOK
    <3>6. ASSUME NEW d \in Calls, Create(d) PROVE at'[c] = at[c] /\ mine'[c] = mine[c]
      BY <2>3, <3>6 DEF Create, NextAccount, TypeOK
    <3>7. ASSUME NEW d \in Calls, VideoTimeout(d) PROVE at'[c] = at[c] /\ mine'[c] = mine[c]
      BY <2>1, <3>3, <3>7 DEF VideoTimeout
    <3> QED
      BY <2>3, <3>1, <3>2, <3>3, <3>4, <3>5, <3>6, <3>7
      DEF vars, Next, Step, Receive, Find, Visit, NoneLeft, Session, Refuse, PollFailure, ImageTimeout,
          Log, Crash, Finish, List, Select, Upsert, Hide
  <2> QED
    BY <1>2, <2>1, <2>2, <2>3 DEF FailedBefore
<1> QED
  BY <1>1, <1>2

(* A call for an image has another generation created only when Leonardo has
   said of its earlier ones that they failed.                              *)
THEOREM ImagesNotResubmitted == Spec => NoResubmission
<1>1. Init => TypeOK /\ Waiting /\ FailedBefore
  BY InitTyped, InitWaiting DEF Init, FailedBefore
<1>2. TypeOK /\ Waiting /\ FailedBefore /\ [Next]_vars => (TypeOK /\ Waiting /\ FailedBefore)'
  BY StepTyped, StepWaiting, StepFailedBefore
<1>3. TypeOK /\ FailedBefore /\ [Next]_vars
        => [\A c \in Calls : Media(asked[c]) = "image" /\ Submitted(c) # {} =>
              \A g \in known[c] : remote[g].status = "failed"]_vars
  <2> SUFFICES ASSUME TypeOK, FailedBefore, Next, NEW c \in Calls, Media(asked[c]) = "image",
                      Submitted(c) # {}, NEW g \in known[c]
               PROVE  remote[g].status = "failed"
    OBVIOUS
  <2>1. at[c] = "create"
    BY DEF vars, Next, Step, Receive, Find, Return, Visit, NoneLeft, Session, Create, Refuse, PollSuccess,
           PollFailure, ImageTimeout, VideoTimeout, Log, Crash, Finish, List, Select, Upsert, Hide, TypeOK, Submitted
  <2> QED
    BY <2>1 DEF FailedBefore
<1> QED
  BY <1>1, <1>2, <1>3, PTL DEF Spec, NoResubmission
-----------------------------------------------------------------------------
(* A repeated request finds its result, as long as no sync overwrites the   *)
(* log: the row that names the request stays, and only the user hides it.   *)
NoSync == ~Syncs => sync = Idle

Answers(row, r, g) == row.gen = g /\ row.request = r /\ row.media = Media(r) /\ row.status = "success"

Remembered ==
  \A r \in Requests, g \in Generations :
    <<r, g>> \in delivered =>
      \E i \in DOMAIN rows : Answers(rows[i], r, g) /\ (rows[i].hidden => g \in hidden)

LEMMA RememberedStep ==
  ASSUME ~Syncs, TypeOK, Waiting, NoSync, Remembered, [Next]_vars
  PROVE  NoSync' /\ Remembered'
<1>a. sync = Idle /\ rows \in Seq(Row) /\ DOMAIN rows = 1 .. Len(rows) /\ Len(rows) \in Nat
  BY LenProperties DEF NoSync, TypeOK
<1>1. ASSUME NEW g \in Generations, Select(g) \/ Upsert(g) PROVE FALSE
  BY <1>1, <1>a, GenerationAssumption DEF Select, Upsert, Idle
<1>2. ASSUME NEW a \in Accounts, List(a) PROVE FALSE
  BY <1>2 DEF List
<1>3. NoSync'
  BY <1>1, <1>2
  DEF NoSync, vars, Next, Step, Receive, Find, Visit, NoneLeft, Session, Create, Refuse, PollSuccess,
      PollFailure, ImageTimeout, VideoTimeout, Log, Crash, Finish, Hide
<1>4. ASSUME UNCHANGED <<rows, delivered, hidden>> PROVE Remembered'
  BY <1>4 DEF Remembered
<1>5. ASSUME NEW row \in Row, rows' = Append(rows, row), UNCHANGED hidden,
             \A r \in Requests, g \in Generations :
               <<r, g>> \in delivered' =>
                 <<r, g>> \in delivered \/ (Answers(row, r, g) /\ ~row.hidden)
      PROVE  Remembered'
  <2> SUFFICES ASSUME NEW r \in Requests, NEW g \in Generations, <<r, g>> \in delivered'
               PROVE  \E i \in DOMAIN rows' : Answers(rows'[i], r, g) /\ (rows'[i].hidden => g \in hidden')
    BY DEF Remembered
  <2>1. /\ DOMAIN rows' = 1 .. (Len(rows) + 1)
        /\ \A i \in DOMAIN rows : rows'[i] = rows[i] /\ i \in DOMAIN rows'
        /\ rows'[Len(rows) + 1] = row
    BY <1>a, <1>5, RowAppended
  <2>2. CASE <<r, g>> \in delivered
    <3>1. PICK i \in DOMAIN rows : Answers(rows[i], r, g) /\ (rows[i].hidden => g \in hidden)
      BY <2>2 DEF Remembered
    <3> QED
      BY <1>5, <2>1, <3>1
  <2>3. CASE Answers(row, r, g) /\ ~row.hidden
    BY <1>a, <2>1, <2>3
  <2> QED
    BY <1>5, <2>2, <2>3
<1>6. ASSUME NEW c \in Calls, ImageTimeout(c) PROVE Remembered'
  <2>1. NewRow(mine[c], "image", asked[c], "pending") \in Row
    BY <1>6 DEF ImageTimeout, Waiting, TypeOK, NewRow, Row
  <2> QED
    BY <1>5, <1>6, <2>1 DEF ImageTimeout
<1>7. ASSUME NEW c \in Calls, Log(c) PROVE Remembered'
  <2> DEFINE row == NewRow(mine[c], Media(asked[c]), asked[c], "success")
  <2>1. row \in Row
    BY <1>7 DEF Log, Waiting, TypeOK, NewRow, Row
  <2>2. Answers(row, asked[c], mine[c]) /\ ~row.hidden
    BY DEF NewRow, Answers
  <2>3. rows' = Append(rows, row) /\ delivered' = delivered \cup {<<asked[c], mine[c]>>} /\ UNCHANGED hidden
    BY <1>7 DEF Log
  <2> HIDE DEF row
  <2> QED
    BY <1>5, <2>1, <2>2, <2>3
<1>8. ASSUME NEW j \in DOMAIN rows, Hide(j) PROVE Remembered'
  <2>1. rows[j] \in Row /\ j \in 1 .. Len(rows)
    BY <1>a
  <2> DEFINE hiddenRow == [rows[j] EXCEPT !.hidden = TRUE]
  <2>2. /\ hiddenRow \in Row
        /\ \A r \in Requests, g \in Generations : Answers(rows[j], r, g) => Answers(hiddenRow, r, g)
    BY <2>1 DEF Row, Answers
  <2>3. rows' = [rows EXCEPT ![j] = hiddenRow] /\ hidden' = hidden \cup {rows[j].gen} /\ UNCHANGED delivered
    BY <1>8 DEF Hide
  <2> HIDE DEF hiddenRow
  <2>4. DOMAIN rows' = DOMAIN rows /\ \A i \in DOMAIN rows : rows'[i] = IF i = j THEN hiddenRow ELSE rows[i]
    BY <1>a, <2>1, <2>2, <2>3, RowChanged
  <2>5. ASSUME NEW r \in Requests, NEW g \in Generations, <<r, g>> \in delivered
        PROVE  \E i \in DOMAIN rows' : Answers(rows'[i], r, g) /\ (rows'[i].hidden => g \in hidden')
    <3>1. PICK i \in DOMAIN rows : Answers(rows[i], r, g) /\ (rows[i].hidden => g \in hidden)
      BY <2>5 DEF Remembered
    <3>2. CASE i = j
      <4>1. Answers(rows'[i], r, g)
        BY <2>2, <2>4, <3>1, <3>2
      <4>2. g \in hidden'
        BY <2>3, <3>1, <3>2 DEF Answers
      <4> QED
        BY <2>4, <4>1, <4>2
    <3>3. CASE i # j
      BY <2>3, <2>4, <3>1, <3>3
    <3> QED
      BY <3>2, <3>3
  <2> QED
    BY <2>3, <2>5 DEF Remembered
<1>9. Remembered'
  BY <1>1, <1>2, <1>4, <1>6, <1>7, <1>8
  DEF vars, history, Next, Step, Receive, Find, Visit, NoneLeft, Session, Create, Refuse, PollSuccess,
      PollFailure, VideoTimeout, Crash, Finish
<1> QED
  BY <1>3, <1>9

(* No account is visited for a request whose result was delivered before,   *)
(* unless the user has hidden it, for any number of calls, if nobody syncs  *)
(* the library.                                                             *)
THEOREM RepeatsFindTheirResult ==
  ASSUME ~Syncs
  PROVE  Spec => ReuseStored
<1>1. Init => TypeOK /\ Waiting /\ NoSync /\ Remembered
  BY InitTyped, InitWaiting DEF Init, NoSync, Remembered
<1>2. TypeOK /\ Waiting /\ NoSync /\ Remembered /\ [Next]_vars =>
        (TypeOK /\ Waiting /\ NoSync /\ Remembered)'
  BY StepTyped, StepWaiting, RememberedStep
<1>3. TypeOK /\ Remembered /\ [Next]_vars =>
        [\A c \in Calls : asked[c] # NoRequest /\ at[c] = "find" /\ at'[c] = "next" =>
           \A g \in Generations : <<asked[c], g>> \in delivered => g \in hidden]_vars
  <2> SUFFICES ASSUME TypeOK, Remembered, [Next]_vars, NEW c \in Calls,
                      asked[c] # NoRequest, at[c] = "find", at'[c] = "next",
                      NEW g \in Generations, <<asked[c], g>> \in delivered
               PROVE  g \in hidden
    OBVIOUS
  <2>1. asked[c] \in Requests /\ at \in [Calls -> {"idle", "find", "next", "session", "create", "poll", "log"}]
    BY DEF TypeOK
  <2>2. ~Stored(asked[c])
    <3>1. ASSUME NEW d \in Calls, Find(d) PROVE ~Stored(asked[c])
      BY <2>1, <3>1 DEF Find, Return
    <3>2. ASSUME NEW d \in Calls, at[d] # "find", \E l : at' = [at EXCEPT ![d] = l] PROVE FALSE
      BY <2>1, <3>2
    <3>3. CASE UNCHANGED at
      BY <3>3
    <3>4. ASSUME NEW d \in Calls, Return(d) PROVE FALSE
      BY <2>1, <3>4 DEF Return
    <3>5. ASSUME NEW d \in Calls, Visit(d) \/ PollSuccess(d) PROVE FALSE
      BY <2>1, <3>2, <3>5 DEF Visit, PollSuccess
    <3>6. ASSUME NEW d \in Calls, Session(d) \/ Create(d) \/ Refuse(d) \/ PollFailure(d) \/ VideoTimeout(d)
          PROVE  FALSE
      BY <3>2, <3>6 DEF Session, Create, Refuse, PollFailure, VideoTimeout, NextAccount, Retry
    <3>7. ASSUME NEW d \in Calls, NEW r \in Requests \cup {NoRequest}, Receive(d, r) PROVE FALSE
      BY <3>2, <3>7 DEF Receive
    <3> QED
      BY <3>1, <3>3, <3>4, <3>5, <3>6, <3>7
      DEF Next, Step, NoneLeft, ImageTimeout, Log, Crash, Finish, Select, Upsert, List, Hide, vars
  <2>3. PICK i \in DOMAIN rows : Answers(rows[i], asked[c], g) /\ (rows[i].hidden => g \in hidden)
    BY <2>1 DEF Remembered
  <2>4. rows[i].hidden
    BY <2>2, <2>3 DEF Stored, Reusable, Answers
  <2> QED
    BY <2>3, <2>4
<1> QED
  BY <1>1, <1>2, <1>3, PTL DEF Spec, ReuseStored
-----------------------------------------------------------------------------
(* What a call can cost, and that it ends.  A step is of one call, or of    *)
(* none, and leaves the local variables of the others alone.               *)
Untouched(c) ==
  /\ at'[c] = at[c] /\ left'[c] = left[c] /\ acct'[c] = acct[c]
  /\ second'[c] = second[c] /\ known'[c] = known[c]

LEMMA OneCallSteps ==
  ASSUME TypeOK, [Next]_vars, NEW c \in Calls
  PROVE  \/ Untouched(c) \/ Step(c) \/ Crash(c)
         \/ \E r \in Requests \cup {NoRequest} : Receive(c, r)
<1>1. ASSUME NEW d \in Calls \ {c}, Return(d) PROVE Untouched(c)
  BY <1>1 DEF Return, Untouched, TypeOK
<1>2. ASSUME NEW d \in Calls \ {c}, NextAccount(d) \/ Retry(d), known' = known PROVE Untouched(c)
  BY <1>2 DEF NextAccount, Retry, Untouched, TypeOK
<1>3. ASSUME NEW d \in Calls \ {c}, NEW r \in Requests \cup {NoRequest}, Receive(d, r) PROVE Untouched(c)
  BY <1>3 DEF Receive, Untouched, TypeOK
<1>4. ASSUME NEW d \in Calls \ {c}, Find(d) \/ Visit(d) PROVE Untouched(c)
  BY <1>1, <1>4 DEF Find, Visit, Untouched, TypeOK
<1>5. ASSUME NEW d \in Calls \ {c}, Session(d) \/ Create(d) \/ PollSuccess(d) PROVE Untouched(c)
  BY <1>2, <1>5 DEF Session, Create, PollSuccess, Untouched, TypeOK
<1>6. ASSUME NEW d \in Calls \ {c}, Step(d) \/ Crash(d) PROVE Untouched(c)
  BY <1>1, <1>2, <1>4, <1>5, <1>6
  DEF Step, NoneLeft, Refuse, PollFailure, ImageTimeout, VideoTimeout, Log, Crash
<1>7. ASSUME UNCHANGED callVars PROVE Untouched(c)
  BY <1>7 DEF Untouched
<1>8. \/ UNCHANGED callVars
      \/ \E d \in Calls : \/ Step(d) \/ Crash(d)
                         \/ \E r \in Requests \cup {NoRequest} : Receive(d, r)
  BY DEF vars, Next, Finish, List, Select, Upsert, Hide
<1> QED
  BY <1>3, <1>6, <1>7, <1>8

(* Leonardo keeps what it has created, with its account.                   *)
LEMMA CreatedKept ==
  ASSUME TypeOK, [Next]_vars, NEW g \in Generations, remote[g].status # "none"
  PROVE  remote'[g].status # "none" /\ remote'[g].account = remote[g].account
<1>1. ASSUME NEW c \in Calls, Create(c) PROVE remote'[g] = remote[g]
  BY <1>1 DEF Create, Unused, TypeOK
<1>2. ASSUME NEW h \in Generations, Finish(h)
      PROVE  remote'[g].status # "none" /\ remote'[g].account = remote[g].account
  BY <1>2 DEF Finish, TypeOK, Remote
<1>3. \/ UNCHANGED remote \/ (\E c \in Calls : Create(c)) \/ \E h \in Generations : Finish(h)
  BY DEF vars, Next, Step, Receive, Find, Visit, NoneLeft, Session, Refuse, PollSuccess, PollFailure,
         ImageTimeout, VideoTimeout, Log, Crash, List, Select, Upsert, Hide
<1> QED
  BY <1>1, <1>2, <1>3

(* What a call was told of is paid by accounts that it does not visit again *)
(* and that it is not about to have create another one.                    *)
Charged ==
  \A c \in Calls :
    /\ at[c] \in {"idle", "find"} => known[c] = {} /\ acct[c] = NoAccount
    /\ acct[c] \notin left[c]
    /\ \A g \in known[c] :
         /\ remote[g].status # "none"
         /\ remote[g].account \notin left[c]
         /\ at[c] \in {"session", "create"} => remote[g].account # acct[c]

LEMMA StepCharged ==
  ASSUME TypeOK, Charged, OncePerAccount, [Next]_vars
  PROVE  Charged' /\ OncePerAccount'
<1> SUFFICES ASSUME NEW c \in Calls
    PROVE  /\ at'[c] \in {"idle", "find"} => known'[c] = {} /\ acct'[c] = NoAccount
           /\ acct'[c] \notin left'[c]
           /\ \A g \in known'[c] :
                /\ remote'[g].status # "none"
                /\ remote'[g].account \notin left'[c]
                /\ at'[c] \in {"session", "create"} => remote'[g].account # acct'[c]
           /\ \A g, h \in known'[c] : g # h => remote'[g].account # remote'[h].account
  BY DEF Charged, OncePerAccount
<1> DEFINE Goal == /\ at'[c] \in {"idle", "find"} => known'[c] = {} /\ acct'[c] = NoAccount
                   /\ acct'[c] \notin left'[c]
                   /\ \A g \in known'[c] :
                        /\ remote'[g].status # "none"
                        /\ remote'[g].account \notin left'[c]
                        /\ at'[c] \in {"session", "create"} => remote'[g].account # acct'[c]
                   /\ \A g, h \in known'[c] : g # h => remote'[g].account # remote'[h].account
<1>a. /\ known[c] \subseteq Generations /\ left[c] \subseteq Accounts
      /\ at \in [Calls -> {"idle", "find", "next", "session", "create", "poll", "log"}]
      /\ known \in [Calls -> SUBSET Generations] /\ left \in [Calls -> SUBSET Accounts]
      /\ acct \in [Calls -> Accounts \cup {NoAccount}] /\ NoAccount \notin Accounts
  BY GenerationAssumption DEF TypeOK
<1>b. /\ at[c] \in {"idle", "find"} => known[c] = {} /\ acct[c] = NoAccount
      /\ acct[c] \notin left[c]
      /\ \A g \in known[c] : remote[g].account \notin left[c]
      /\ \A g \in known[c] : at[c] \in {"session", "create"} => remote[g].account # acct[c]
      /\ \A g, h \in known[c] : g # h => remote[g].account # remote[h].account
  BY DEF Charged, OncePerAccount
<1>c. \A g \in known[c] : /\ remote[g].status # "none" /\ remote'[g].status # "none"
                          /\ remote'[g].account = remote[g].account
  BY <1>a, CreatedKept DEF Charged
<1>1. ASSUME known'[c] = known[c], left'[c] \subseteq left[c], acct'[c] \notin left'[c],
             at'[c] \in {"idle", "find"} => known[c] = {} /\ acct'[c] = NoAccount,
             at'[c] \in {"session", "create"} => \A g \in known[c] : remote[g].account # acct'[c]
      PROVE  Goal
  BY <1>b, <1>c, <1>1
<1>2. CASE Untouched(c)
  BY <1>b, <1>1, <1>2 DEF Untouched
<1>3. CASE Return(c)
  BY <1>3, <1>a DEF Return
<1>4. CASE NextAccount(c) /\ known' = known
  <2>1. at'[c] = "next" /\ acct'[c] = NoAccount /\ left'[c] = left[c]
    BY <1>4, <1>a DEF NextAccount
  <2> QED
    BY <1>a, <1>b, <1>1, <1>4, <2>1
<1>5. CASE Retry(c) /\ known' = known /\ at[c] \in {"session", "create"}
  <2>1. at'[c] = "session" /\ acct'[c] = acct[c] /\ left'[c] = left[c]
    BY <1>5, <1>a DEF Retry
  <2> QED
    BY <1>b, <1>1, <1>5, <2>1
<1>6. ASSUME NEW r \in Requests \cup {NoRequest}, Receive(c, r) PROVE Goal
  BY <1>a, <1>b, <1>1, <1>6 DEF Receive
<1>7. CASE Find(c) /\ ~Return(c)
  <2>1. known'[c] = {} /\ at'[c] = "next" /\ acct'[c] = acct[c]
        /\ left' \in [Calls -> SUBSET Accounts]
    BY <1>7, <1>a, <1>b, StepCallTyped DEF Find, CallTyped
  <2>2. acct[c] = NoAccount
    BY <1>7, <1>b DEF Find
  <2> QED
    BY <1>a, <2>1, <2>2
<1>8. CASE Visit(c)
  <2>1. PICK a \in left[c] :
          /\ left' = [left EXCEPT ![c] = @ \ {a}]
          /\ UNCHANGED <<at, acct>> \/ (at' = [at EXCEPT ![c] = "session"] /\ acct' = [acct EXCEPT ![c] = a])
    BY <1>8 DEF Visit
  <2>2. left'[c] = left[c] \ {a} /\ known' = known /\ at[c] = "next"
    BY <1>8, <1>a, <2>1 DEF Visit
  <2>3. CASE UNCHANGED <<at, acct>>
    BY <1>b, <1>1, <2>2, <2>3
  <2>4. CASE at' = [at EXCEPT ![c] = "session"] /\ acct' = [acct EXCEPT ![c] = a]
    <3>1. at'[c] = "session" /\ acct'[c] = a
      BY <1>a, <2>4
    <3>2. \A g \in known[c] : remote[g].account # a
      BY <1>b
    <3> QED
      BY <1>1, <2>2, <3>1, <3>2
  <2> QED
    BY <2>1, <2>3, <2>4
<1>9. CASE Session(c) /\ at' = [at EXCEPT ![c] = "create"] /\ UNCHANGED <<left, acct>>
  <2>1. at'[c] = "create" /\ known' = known /\ at[c] = "session"
    BY <1>a, <1>9 DEF Session
  <2> QED
    BY <1>b, <1>1, <1>9, <2>1
<1>10. CASE Create(c) /\ ~(NextAccount(c) /\ known' = known)
  <2>1. PICK g \in Unused :
          /\ remote' = [remote EXCEPT ![g] = [status |-> "running", account |-> acct[c]]]
          /\ at' = [at EXCEPT ![c] = "poll"]
          /\ known' = [known EXCEPT ![c] = @ \cup {g}]
          /\ UNCHANGED <<left, acct>>
    BY <1>10 DEF Create
  <2>2. /\ at'[c] = "poll" /\ known'[c] = known[c] \cup {g} /\ at[c] = "create"
        /\ left'[c] = left[c] /\ acct'[c] = acct[c]
        /\ remote'[g].account = acct[c] /\ remote'[g].status = "running"
    BY <1>a, <1>10, <2>1 DEF Create, Unused, TypeOK
  <2>3. \A h \in known[c] : remote'[h].account # remote'[g].account
    BY <1>b, <1>c, <2>2
  <2> QED
    BY <1>b, <1>c, <2>2, <2>3
<1>11. CASE PollSuccess(c)
  <2>1. at'[c] = "log" /\ UNCHANGED <<left, acct, known>>
    BY <1>a, <1>11 DEF PollSuccess
  <2> QED
    BY <1>b, <1>1, <2>1
<1> QED
  <2>1. \/ Return(c) \/ (NextAccount(c) /\ known' = known)
        \/ (Retry(c) /\ known' = known /\ at[c] \in {"session", "create"})
        \/ (Find(c) /\ ~Return(c)) \/ Visit(c)
        \/ Session(c) /\ at' = [at EXCEPT ![c] = "create"] /\ UNCHANGED <<left, acct>>
        \/ (Create(c) /\ ~(NextAccount(c) /\ known' = known))
        \/ PollSuccess(c) \/ Untouched(c) \/ \E r \in Requests \cup {NoRequest} : Receive(c, r)
    BY OneCallSteps
    DEF Step, NoneLeft, Session, Refuse, PollFailure, ImageTimeout, VideoTimeout, Log, Crash
  <2> QED
    BY <1>2, <1>3, <1>4, <1>5, <1>6, <1>7, <1>8, <1>9, <1>10, <1>11, <2>1

(* A call pays each account for one generation at most that it is told of,  *)
(* however many accounts it visits and polls that end too early.            *)
THEOREM AccountsPayOnce == Spec => []OncePerAccount
<1>1. Init => TypeOK /\ Waiting /\ Charged /\ OncePerAccount
  BY InitTyped, InitWaiting DEF Init, Charged, OncePerAccount
<1>2. TypeOK /\ Waiting /\ Charged /\ OncePerAccount /\ [Next]_vars =>
        (TypeOK /\ Waiting /\ Charged /\ OncePerAccount)'
  BY StepTyped, StepWaiting, StepCharged
<1> QED
  BY <1>1, <1>2, PTL DEF Spec

(* The steps that a call may still have ahead of it: at most seven with     *)
(* each account that is left, and those with the account that it visits.    *)
Stage(c) ==
  IF at[c] = "next" THEN 1
  ELSE IF at[c] = "log" THEN 2
  ELSE IF at[c] = "poll" THEN 3
  ELSE IF at[c] = "create" THEN IF second[c] THEN 4 ELSE 6
  ELSE IF second[c] THEN 5 ELSE 7
Ahead(c) ==
  IF at[c] = "idle" THEN 0
  ELSE IF at[c] = "find" THEN 8 * Cardinality(Accounts) + 2
  ELSE 8 * Cardinality(left[c]) + Stage(c)

Counted ==
  \A c \in Calls :
    /\ Cardinality(left[c]) \in Nat /\ Cardinality(left[c]) <= Cardinality(Accounts)
    /\ \A a \in left[c] : Cardinality(left[c] \ {a}) = Cardinality(left[c]) - 1
    /\ Stage(c) \in 1..7

LEMMA AccountsCounted == Cardinality(Accounts) \in Nat
  BY GenerationAssumption, FS_CardinalityType

LEMMA LeftCounted == TypeOK => Counted
<1> SUFFICES ASSUME TypeOK, NEW c \in Calls
    PROVE  /\ Cardinality(left[c]) \in Nat /\ Cardinality(left[c]) <= Cardinality(Accounts)
           /\ \A a \in left[c] : Cardinality(left[c] \ {a}) = Cardinality(left[c]) - 1
           /\ Stage(c) \in 1..7
  BY DEF Counted
<1>1. IsFiniteSet(Accounts) /\ left[c] \in SUBSET Accounts
  BY GenerationAssumption DEF TypeOK
<1>2. IsFiniteSet(left[c]) /\ Cardinality(left[c]) <= Cardinality(Accounts)
  BY <1>1, FS_Subset
<1>3. \A a \in left[c] : Cardinality(left[c] \ {a}) = Cardinality(left[c]) - 1
  BY <1>2, FS_RemoveElement
<1>4. Stage(c) \in 1..7
  BY DEF Stage
<1> QED
  BY <1>1, <1>2, <1>3, <1>4, FS_CardinalityType

(* Every step of a call leaves it fewer.                                    *)
LEMMA StepGetsOn ==
  ASSUME TypeOK, Counted, Counted', NEW c \in Calls, Step(c)
  PROVE  Ahead(c)' < Ahead(c)
<1>a. /\ Cardinality(Accounts) \in Nat
      /\ Cardinality(left[c]) \in Nat /\ Cardinality(left[c]) <= Cardinality(Accounts)
      /\ Cardinality(left'[c]) \in Nat /\ Cardinality(left'[c]) <= Cardinality(Accounts)
      /\ \A a \in left[c] : Cardinality(left[c] \ {a}) = Cardinality(left[c]) - 1
      /\ Stage(c) \in 1..7 /\ Stage(c)' \in 1..7
  BY AccountsCounted DEF Counted
<1>b. /\ at \in [Calls -> {"idle", "find", "next", "session", "create", "poll", "log"}]
      /\ left \in [Calls -> SUBSET Accounts] /\ second \in [Calls -> BOOLEAN]
  BY DEF TypeOK
<1>1. CASE Return(c) /\ at[c] # "idle"
  <2>1. at'[c] = "idle"
    BY <1>1, <1>b DEF Return
  <2>2. Ahead(c)' = 0
    BY <2>1 DEF Ahead
  <2>3. Ahead(c) \in Nat \ {0}
    BY <1>1, <1>a DEF Ahead
  <2> QED
    BY <2>2, <2>3
<1>2. CASE NextAccount(c) /\ at[c] \in {"session", "create", "poll"}
  <2>1. at'[c] = "next" /\ left'[c] = left[c]
    BY <1>2, <1>b DEF NextAccount
  <2>2. Stage(c) \in 3..7 /\ Stage(c)' = 1
    BY <1>2, <1>b, <2>1 DEF Stage
  <2> QED
    BY <1>2, <1>a, <2>1, <2>2 DEF Ahead
<1>3. CASE Retry(c) /\ at[c] \in {"session", "create"}
  <2>1. at'[c] = "session" /\ left'[c] = left[c] /\ ~second[c] /\ second'[c]
    BY <1>3, <1>b DEF Retry
  <2>2. Stage(c) \in 6..7 /\ Stage(c)' = 5
    BY <1>3, <2>1 DEF Stage
  <2> QED
    BY <1>3, <1>a, <2>1, <2>2 DEF Ahead
<1>4. CASE Find(c) /\ ~Return(c)
  <2>1. at[c] = "find" /\ at'[c] = "next"
    BY <1>4, <1>b DEF Find
  <2>2. Stage(c)' = 1
    BY <2>1 DEF Stage
  <2> QED
    BY <1>a, <2>1, <2>2 DEF Ahead
<1>5. CASE Visit(c)
  <2>1. PICK a \in left[c] :
          /\ left' = [left EXCEPT ![c] = @ \ {a}]
          /\ UNCHANGED at \/ at' = [at EXCEPT ![c] = "session"]
    BY <1>5 DEF Visit
  <2>2. at[c] = "next" /\ at'[c] \in {"next", "session"} /\ left'[c] = left[c] \ {a}
    BY <1>5, <1>b, <2>1 DEF Visit
  <2>3. Cardinality(left'[c]) = Cardinality(left[c]) - 1
    BY <1>a, <2>2
  <2>4. Stage(c) = 1
    BY <2>2 DEF Stage
  <2>5. Ahead(c) = 8 * Cardinality(left[c]) + 1 /\ Ahead(c)' = 8 * Cardinality(left'[c]) + Stage(c)'
    BY <2>2, <2>4 DEF Ahead
  <2> QED
    BY <1>a, <2>3, <2>5
<1>6. CASE Session(c) /\ at' = [at EXCEPT ![c] = "create"] /\ UNCHANGED <<left, second>>
  <2>1. at[c] = "session" /\ at'[c] = "create" /\ left'[c] = left[c] /\ second'[c] = second[c]
    BY <1>6, <1>b DEF Session
  <2>2. Stage(c)' = Stage(c) - 1
    BY <2>1 DEF Stage
  <2> QED
    BY <1>a, <2>1, <2>2 DEF Ahead
<1>7. CASE Create(c) /\ at' = [at EXCEPT ![c] = "poll"] /\ UNCHANGED <<left, second>>
  <2>1. at[c] = "create" /\ at'[c] = "poll" /\ left'[c] = left[c]
    BY <1>7, <1>b DEF Create
  <2>2. Stage(c) \in {4, 6} /\ Stage(c)' = 3
    BY <2>1 DEF Stage
  <2> QED
    BY <1>a, <2>1, <2>2 DEF Ahead
<1>8. CASE PollSuccess(c)
  <2>1. at[c] = "poll" /\ at'[c] = "log" /\ left'[c] = left[c]
    BY <1>8, <1>b DEF PollSuccess
  <2>2. Stage(c) = 3 /\ Stage(c)' = 2
    BY <2>1 DEF Stage
  <2> QED
    BY <1>a, <2>1, <2>2 DEF Ahead
<1>9. \/ Return(c) /\ at[c] # "idle"
      \/ NextAccount(c) /\ at[c] \in {"session", "create", "poll"}
      \/ Retry(c) /\ at[c] \in {"session", "create"}
      \/ (Find(c) /\ ~Return(c)) \/ Visit(c) \/ PollSuccess(c)
      \/ Session(c) /\ at' = [at EXCEPT ![c] = "create"] /\ UNCHANGED <<left, second>>
      \/ Create(c) /\ at' = [at EXCEPT ![c] = "poll"] /\ UNCHANGED <<left, second>>
  BY DEF Step, Find, NoneLeft, Session, Create, Refuse, PollFailure, ImageTimeout, VideoTimeout, Log
<1> QED
  BY <1>1, <1>2, <1>3, <1>4, <1>5, <1>6, <1>7, <1>8, <1>9

(* A call ends after at most eight steps per account and two more, if its   *)
(* steps do: each leaves it fewer of them, and nothing else adds any.  What *)
(* CallEnds says of a small instance needs of fairness only that a call     *)
(* which is not idle takes a step.                                          *)
GetsOn ==
  [][\A c \in Calls : /\ Step(c) => Ahead(c)' < Ahead(c)
                      /\ at[c] # "idle" => Ahead(c)' <= Ahead(c)]_vars
Bounded ==
  \A c \in Calls : /\ Ahead(c) \in Nat /\ Ahead(c) <= 8 * Cardinality(Accounts) + 7
                   /\ Ahead(c) = 0 <=> at[c] = "idle"

LEMMA AheadBounded == TypeOK => Bounded
<1> SUFFICES ASSUME TypeOK, NEW c \in Calls
             PROVE  /\ Ahead(c) \in Nat /\ Ahead(c) <= 8 * Cardinality(Accounts) + 7
                    /\ Ahead(c) = 0 <=> at[c] = "idle"
  BY DEF Bounded
<1>1. /\ Cardinality(left[c]) \in Nat /\ Cardinality(left[c]) <= Cardinality(Accounts)
      /\ Stage(c) \in 1..7 /\ Cardinality(Accounts) \in Nat
  BY LeftCounted, AccountsCounted DEF Counted
<1> QED
  BY <1>1 DEF Ahead

(* Every call for a generation ends, if its own steps go on.                *)
THEOREM CallsGetOn == Spec => []Bounded /\ GetsOn
<1>1. Counted /\ Bounded /\ TypeOK /\ (Counted /\ Bounded)' /\ [Next]_vars =>
        [\A c \in Calls : /\ Step(c) => Ahead(c)' < Ahead(c)
                          /\ at[c] # "idle" => Ahead(c)' <= Ahead(c)]_vars
  <2> SUFFICES ASSUME Counted, Bounded, TypeOK, Counted', Bounded', Next, NEW c \in Calls
               PROVE  /\ Step(c) => Ahead(c)' < Ahead(c)
                      /\ at[c] # "idle" => Ahead(c)' <= Ahead(c)
    OBVIOUS
  <2>1. Ahead(c) \in Nat /\ Ahead(c)' \in Nat
    <3>1. Ahead(c) \in Nat
      BY DEF Bounded
    <3>2. /\ Cardinality(left'[c]) \in Nat /\ Stage(c)' \in 1..7
          /\ Cardinality(Accounts) \in Nat
      BY AccountsCounted DEF Counted
    <3>3. Ahead(c)' \in Nat
      BY <3>2 DEF Ahead
    <3> QED
      BY <3>1, <3>3
  <2>2. CASE Step(c)
    BY <2>1, <2>2, StepGetsOn
  <2>3. CASE Untouched(c)
    <3>1. Ahead(c)' = Ahead(c)
      BY <2>3 DEF Untouched, Ahead, Stage
    <3> QED
      BY <2>1, <2>3, <3>1, StepGetsOn
  <2>4. CASE Crash(c)
    <3>1. at'[c] = "idle"
      BY <2>4 DEF Crash, Return, TypeOK
    <3>2. Ahead(c)' = 0
      BY <3>1 DEF Ahead
    <3> QED
      BY <2>1, <3>2, StepGetsOn
  <2>5. ASSUME NEW r \in Requests \cup {NoRequest}, Receive(c, r)
        PROVE  at[c] = "idle" /\ ~Step(c)
    BY <2>5 DEF Receive, Step, Find, Visit, NoneLeft, Session, Create, Refuse, PollSuccess, PollFailure,
                ImageTimeout, VideoTimeout, Log
  <2> QED
    BY <2>2, <2>3, <2>4, <2>5, OneCallSteps
<1>2. Spec => [](TypeOK /\ Counted /\ Bounded)
  BY TypeCorrect, LeftCounted, AheadBounded, PTL
<1> QED
  BY <1>1, <1>2, PTL DEF Spec, GetsOn
=============================================================================
