-------------------------- MODULE TaskPollingProofs --------------------------
(***************************************************************************)
(* Proofs about TaskPolling, for any tasks, passes, amounts and bounds.    *)
(*                                                                         *)
(* TypeOK is proved for every path.  The billing theorems are about the    *)
(* rows written by compare-and-swap alone (no Suno tasks, no lookups that  *)
(* write); with those paths TLC finds the properties violated.             *)
(*                                                                         *)
(* The argument: a pass works from an open row it read, so a swap succeeds *)
(* only while the row is open; while it is open nobody bills and the books *)
(* say what the row says; hence the one pass that closes the row starts    *)
(* billing with the books it read, and nobody else can start after it.     *)
(*                                                                         *)
(* What is said of the charge is said of booked, which counts the price a  *)
(* row was inserted with as paid: a settlement that failed at submission is*)
(* carried along and disturbs nothing after it.                            *)
(*                                                                         *)
(* FinishedBilled follows: while no call failed, whoever bills knows the   *)
(* amounts, so a finished row is billed or being billed.                   *)
(***************************************************************************)
EXTENDS TaskPolling, TLAPS

Working == {"prepare", "fetch", "save"}
PassBilling == {"settle", "settleToken", "saveQuota", "refund", "refundToken"}

SwapsOnly == Suno = {} /\ Realtime = {}

\* Without Suno tasks and lookups, these are the places a pass can be at.
PassPlaces ==
    /\ \A p \in Pass, t \in Task : pc[p][t] \in {"none", "done"} \union Working \union PassBilling
    /\ \A u \in Reader, t \in Task : pc[u][t] = "none"

\* What a pass works on was open when it was read, and as long as it still is, the pass
\* has its quota.
WorksOnOpen ==
    \A p \in Pass, t \in Task :
        pc[p][t] \in Working =>
            /\ snap[p][t].status \in Open
            /\ copy[p][t].status # "absent" /\ row[t].status # "absent"
            /\ row[t].status \in Open =>
                 snap[p][t].quota = row[t].quota /\ copy[p][t].quota = row[t].quota

\* Only a finished row is being billed, by one pass.
OneBills ==
    \A t \in Task, p \in Pass :
        pc[p][t] \in PassBilling =>
            /\ row[t].status \in Final
            /\ \A q \in Pass : pc[q][t] \in PassBilling => p = q

\* What the books say while a pass is billing.
BooksMatch ==
    \A p \in Pass, t \in Task :
        /\ pc[p][t] = "refund" => booked[t] = copy[p][t].quota /\ tokenBooked[t] = copy[p][t].quota
        /\ pc[p][t] = "refundToken" => tokenBooked[t] = copy[p][t].quota
        /\ pc[p][t] = "settle" => booked[t] = snap[p][t].quota /\ tokenBooked[t] = snap[p][t].quota
        /\ pc[p][t] = "settleToken" => tokenBooked[t] = snap[p][t].quota

Books == WorksOnOpen /\ OneBills /\ BooksMatch /\ OpenIsCharged /\ NeverOverRefunded

IInv == TypeOK /\ PassPlaces /\ Books

-----------------------------------------------------------------------------
(* Rows *)

LEMMA QuotaNat == Quota \subseteq Nat
BY QuotaAssumption DEF Quota

LEMMA RowType ==
    ASSUME NEW r \in Row
    PROVE  r.status \in Open \union Final \union {"absent"} /\ r.full \in BOOLEAN /\ r.quota \in Quota
BY DEF Row

LEMMA RowQuota ==
    ASSUME NEW r \in Row
    PROVE  r.quota \in Quota /\ r.quota \in Nat
BY QuotaNat DEF Row

LEMMA AbsentType == Absent \in Row /\ Absent.status = "absent"
BY DEF Absent, Row, Quota

LEMMA FinishedType ==
    ASSUME NEW r \in Row, NEW s \in Open \union Final
    PROVE  /\ Finished(s, r) \in Row
           /\ Finished(s, r).status = s /\ Finished(s, r).quota = r.quota
BY DEF Finished, Row

LEMMA RequotedType ==
    ASSUME NEW r \in Row, NEW q \in Quota
    PROVE  /\ Requoted(q, r) \in Row
           /\ Requoted(q, r).status = r.status /\ Requoted(q, r).quota = q
BY DEF Requoted, Row

LEMMA StatusType ==
    ASSUME NEW r \in Row, NEW s \in Open \union Final \union {"absent"}, NEW f \in BOOLEAN
    PROVE  /\ [r EXCEPT !.status = s, !.full = f] \in Row
           /\ [r EXCEPT !.status = s, !.full = f].quota = r.quota
           /\ [r EXCEPT !.status = s, !.full = f].status = s
BY DEF Row

LEMMA QueuedType ==
    ASSUME NEW r \in Row
    PROVE  /\ [r EXCEPT !.status = "QUEUED"] \in Row
           /\ [r EXCEPT !.status = "QUEUED"].quota = r.quota
           /\ [r EXCEPT !.status = "QUEUED"].status = "QUEUED"
BY DEF Row, Open

LEMMA ReportedType ==
    ASSUME NEW r \in Row, NEW x \in Reported(r)
    PROVE  x \in Row /\ x.quota = r.quota /\ x.status \in Open \union Final
<1>1. CASE \E s \in Final : x = Finished(s, r)
  BY <1>1, FinishedType
<1>2. CASE \E s \in {"QUEUED", "IN_PROGRESS"}, f \in {FALSE, EarlyFull} :
             x = [r EXCEPT !.status = s, !.full = f]
  <2>1. PICK s \in {"QUEUED", "IN_PROGRESS"}, f \in {FALSE, EarlyFull} :
             x = [r EXCEPT !.status = s, !.full = f]
    BY <1>2
  <2>2. s \in Open \union Final \union {"absent"} /\ s \in Open \union Final /\ f \in BOOLEAN
    BY BoundAssumption DEF Open
  <2> DEFINE y == [r EXCEPT !.status = s, !.full = f]
  <2>3. y \in Row /\ y.quota = r.quota /\ y.status = s
    BY <2>2 DEF Row
  <2>4. x = y
    BY <2>1
  <2> HIDE DEF y
  <2> QED
    BY <2>2, <2>3, <2>4
<1>3. \/ \E s \in Final : x = Finished(s, r)
      \/ \E s \in {"QUEUED", "IN_PROGRESS"}, f \in {FALSE, EarlyFull} :
             x = [r EXCEPT !.status = s, !.full = f]
  BY DEF Reported
<1> QED
  BY <1>1, <1>2, <1>3, Zenon

-----------------------------------------------------------------------------
(* Type correctness *)

LEMMA GotoType ==
    ASSUME TypeOK, NEW a \in Actor, NEW t \in Task, NEW x \in PC, Goto(a, t, x)
    PROVE  pc' \in [Actor -> [Task -> PC]]
BY DEF TypeOK, Goto

LEMMA CopyType ==
    ASSUME TypeOK, NEW a \in Actor, NEW t \in Task, NEW r \in Row,
           copy' = [copy EXCEPT ![a][t] = r]
    PROVE  copy' \in [Actor -> [Task -> Row]]
BY DEF TypeOK

LEMMA WriteType ==
    ASSUME TypeOK, NEW t \in Task, NEW r \in Row, row' = [row EXCEPT ![t] = r]
    PROVE  row' \in [Task -> Row]
BY DEF TypeOK

LEMMA SettledType ==
    ASSUME NEW b \in SubmitQuota, NEW q \in SubmitQuota, NEW c \in SettledAt(b, q)
    PROVE  c[1] \in Nat /\ c[2] \in Nat
BY QuotaAssumption DEF SettledAt

LEMMA TypeStep == TypeOK /\ Next => TypeOK'
<1> SUFFICES ASSUME TypeOK, Next PROVE TypeOK'
  OBVIOUS
<1>a. Pass \subseteq Actor /\ Reader \subseteq Actor
  BY DEF Actor
<1>b. \A a \in Actor, t \in Task : copy[a][t] \in Row /\ snap[a][t] \in Row
  BY DEF TypeOK
<1>c. \A t \in Task : row[t] \in Row /\ paid[t] \in Int /\ tokenPaid[t] \in Int
  BY DEF TypeOK
<1>d. \A r \in Row : r.quota \in Int
  BY RowQuota
<1> USE <1>a
<1>1. ASSUME NEW t \in Task, RelayTask(t) PROVE TypeOK'
  <2>0. PICK b, q \in SubmitQuota, s \in {"NOT_START", "PREPARING"}, inserted \in BOOLEAN :
           \E c \in SettledAt(b, q) :
             /\ s = "PREPARING" => t \notin Suno
             /\ paid' = [paid EXCEPT ![t] = c[1]]
             /\ tokenPaid' = [tokenPaid EXCEPT ![t] = c[2]]
             /\ IF inserted
                THEN /\ row' = [row EXCEPT ![t] = [status |-> s, full |-> FALSE, quota |-> q]]
                     /\ owed' = [owed EXCEPT ![t] = q - c[1]]
                     /\ tokenOwed' = [tokenOwed EXCEPT ![t] = q - c[2]]
                ELSE UNCHANGED <<row, owed, tokenOwed>>
    BY <1>1 DEF RelayTask
  <2>1. PICK c \in SettledAt(b, q) :
           /\ paid' = [paid EXCEPT ![t] = c[1]] /\ tokenPaid' = [tokenPaid EXCEPT ![t] = c[2]]
           /\ \/ UNCHANGED <<row, owed, tokenOwed>>
              \/ /\ row' = [row EXCEPT ![t] = [status |-> s, full |-> FALSE, quota |-> q]]
                 /\ owed' = [owed EXCEPT ![t] = q - c[1]]
                 /\ tokenOwed' = [tokenOwed EXCEPT ![t] = q - c[2]]
    BY <2>0
  <2>2. q \in Int /\ c[1] \in Int /\ c[2] \in Int
    BY SettledType, QuotaAssumption
  <2>3. [status |-> s, full |-> FALSE, quota |-> q] \in Row
    BY DEF Row, Open, Quota
  <2>4. row' \in [Task -> Row]
    BY <2>1, <2>3, WriteType DEF TypeOK
  <2>5. paid' \in [Task -> Int] /\ tokenPaid' \in [Task -> Int]
    BY <2>1, <2>2 DEF TypeOK
  <2>6. owed' \in [Task -> Int] /\ tokenOwed' \in [Task -> Int]
    BY <2>1, <2>2 DEF TypeOK
  <2> QED
    BY <1>1, <2>4, <2>5, <2>6 DEF RelayTask, TypeOK, counts
<1>2. ASSUME NEW t \in Task, BecomesLate(t) PROVE TypeOK'
  BY <1>2 DEF BecomesLate, TypeOK, books, past, counts
<1>3. ASSUME NEW p \in Pass, sweepTimedOutTasks(p) PROVE TypeOK'
  <2>1. ASSUME NEW t \in Task PROVE Finished("FAILURE", row[t]) \in Row
    BY <1>c, FinishedType DEF Final
  <2>2. "save" \in PC
    BY DEF PC
  <2> QED
    BY <1>3, <2>1, <2>2, <1>c, AbsentType DEF sweepTimedOutTasks, Take, TypeOK, books, past, counts,
       PC
<1>4. ASSUME NEW p \in Pass, ListUnfinished(p) PROVE TypeOK'
  BY <1>4, <1>c, AbsentType DEF ListUnfinished, Take, TypeOK, books, past, counts, PC
<1>5. ASSUME NEW p \in Pass, PassEnds(p) PROVE TypeOK'
  BY <1>5, AbsentType DEF PassEnds, Take, TypeOK, books, past, counts, PC
<1>6. ASSUME NEW p \in Pass, Crash(p) PROVE TypeOK'
  BY <1>6, AbsentType, BoundAssumption DEF Crash, Take, Fault, TypeOK, books, past, PC
<1>7. ASSUME NEW p \in Pass, NEW t \in Task, updatePreparingVideoTask(p, t) PROVE TypeOK'
  <2>1. [copy[p][t] EXCEPT !.status = "QUEUED"] \in Row /\ Finished("FAILURE", copy[p][t]) \in Row
    BY <1>b, QueuedType, FinishedType DEF Final
  <2>2. pc' \in [Actor -> [Task -> PC]]
    BY <1>7, GotoType DEF updatePreparingVideoTask, PC
  <2>3. copy' \in [Actor -> [Task -> Row]]
    <3>1. CASE UNCHANGED copy
      BY <3>1 DEF TypeOK
    <3>2. CASE \E r \in Row : copy' = [copy EXCEPT ![p][t] = r]
      BY <3>2, CopyType
    <3> QED
      BY <1>7, <2>1, <3>1, <3>2 DEF updatePreparingVideoTask
  <2> QED
    BY <1>7, <2>2, <2>3 DEF updatePreparingVideoTask, TypeOK, books, past, counts
<1>8. ASSUME NEW p \in Pass, NEW t \in Task, FetchVideo(p, t) PROVE TypeOK'
  <2>1. \A r \in Reported(copy[p][t]) : r \in Row
    BY <1>b, ReportedType
  <2>2. pc' \in [Actor -> [Task -> PC]]
    BY <1>8, GotoType DEF FetchVideo, PC
  <2>3. copy' \in [Actor -> [Task -> Row]]
    <3>1. CASE UNCHANGED copy
      BY <3>1 DEF TypeOK
    <3>2. CASE \E r \in Row : copy' = [copy EXCEPT ![p][t] = r]
      BY <3>2, CopyType
    <3> QED
      BY <1>8, <2>1, <3>1, <3>2 DEF FetchVideo
  <2> QED
    BY <1>8, <2>2, <2>3 DEF FetchVideo, TypeOK, books, past, counts
<1>9. ASSUME NEW p \in Pass, NEW t \in Task, FetchSuno(p, t) PROVE TypeOK'
  <2>1. pc' \in [Actor -> [Task -> PC]]
    BY <1>9, GotoType DEF FetchSuno, PC, Billing
  <2>2. CASE UNCHANGED copy
    BY <1>9, <2>1, <2>2 DEF FetchSuno, TypeOK, books, past, counts
  <2>3. CASE \E r \in Row : copy' = [copy EXCEPT ![p][t] = r]
    BY <1>9, <2>1, <2>3 DEF FetchSuno, TypeOK, books, past, counts
  <2>4. ASSUME NEW s \in {copy[p][t].status, "NOT_START", "QUEUED", "IN_PROGRESS", "SUCCESS"},
               copy' = [copy EXCEPT ![p][t] = [@ EXCEPT !.status = s, !.full = (s = "SUCCESS")]]
        PROVE  \E r \in Row : copy' = [copy EXCEPT ![p][t] = r]
    <3>1. [copy[p][t] EXCEPT !.status = s, !.full = (s = "SUCCESS")] \in Row
      <4>1. s \in Open \union Final \union {"absent"} /\ (s = "SUCCESS") \in BOOLEAN
        BY <1>b, RowType DEF Open, Final
      <4> QED
        BY <4>1, <1>b, StatusType, Zenon
    <3> QED
      BY <2>4, <3>1
  <2>5. ASSUME NEW s \in {"NOT_START", "QUEUED", "IN_PROGRESS"} \union Final,
               copy' = [copy EXCEPT ![p][t] = Finished(s, @)]
        PROVE  \E r \in Row : copy' = [copy EXCEPT ![p][t] = r]
    <3>1. Finished(s, copy[p][t]) \in Row
      BY <1>b, FinishedType DEF Open
    <3> QED
      BY <2>5, <3>1
  <2> QED
    BY <1>9, <2>2, <2>3, <2>4, <2>5 DEF FetchSuno
<1>10. ASSUME NEW p \in Pass, NEW t \in Task, ChannelGone(p, t) PROVE TypeOK'
  <2>1. Finished("FAILURE", row[t]) \in Row
    BY <1>c, FinishedType DEF Final
  <2>2. pc' \in [Actor -> [Task -> PC]]
    BY <1>10, GotoType DEF ChannelGone, PC
  <2> QED
    BY <1>10, <2>1, <2>2 DEF ChannelGone, TypeOK, books, past, counts
<1>11. ASSUME NEW p \in Pass, NEW t \in Task, UpdateWithStatus(p, t) PROVE TypeOK'
  <2>1. pc' \in [Actor -> [Task -> PC]]
    BY <1>11, GotoType DEF UpdateWithStatus, AfterSwap, PC, Billing
  <2> QED
    BY <1>11, <1>b, <2>1 DEF UpdateWithStatus, TypeOK, books, past, counts
<1>12. ASSUME NEW p \in Pass, NEW t \in Task, Update(p, t) PROVE TypeOK'
  <2>1. pc' \in [Actor -> [Task -> PC]]
    BY <1>12, GotoType DEF Update, PC
  <2> QED
    BY <1>12, <1>b, <2>1 DEF Update, TypeOK, books, past, counts
<1>13. ASSUME NEW p \in Pass, NEW t \in Task, RefundTaskQuota(p, t) PROVE TypeOK'
  <2>1. pc' \in [Actor -> [Task -> PC]]
    BY <1>13, GotoType DEF RefundTaskQuota, PC, Billing
  <2>2. paid[t] - copy[p][t].quota \in Int
    BY <1>b, <1>c, <1>d
  <2> QED
    BY <1>13, <2>1, <2>2 DEF RefundTaskQuota, TypeOK, past, counts
<1>14. ASSUME NEW p \in Pass, NEW t \in Task, RefundToken(p, t) PROVE TypeOK'
  <2>1. pc' \in [Actor -> [Task -> PC]]
    BY <1>14, GotoType DEF RefundToken, PC, Billing
  <2>2. tokenPaid[t] - copy[p][t].quota \in Int
    BY <1>b, <1>c, <1>d
  <2> QED
    BY <1>14, <2>1, <2>2 DEF RefundToken, TypeOK, past, counts
<1>15. ASSUME NEW p \in Pass, NEW t \in Task, settleTaskBillingOnComplete(p, t) PROVE TypeOK'
  <2>1. pc' \in [Actor -> [Task -> PC]]
    BY <1>15, GotoType DEF settleTaskBillingOnComplete, PC, Billing
  <2>2. \A q \in ActualQuota : Requoted(q, copy[p][t]) \in Row
    BY <1>b, RequotedType DEF Quota
  <2>3. \A q \in ActualQuota : paid[t] + (q - snap[p][t].quota) \in Int
    BY <1>b, <1>c, <1>d, QuotaAssumption
  <2>4. copy' \in [Actor -> [Task -> Row]] /\ paid' \in [Task -> Int]
    <3>1. CASE UNCHANGED <<paid, copy>>
      BY <3>1 DEF TypeOK
    <3>2. ASSUME NEW q \in ActualQuota, copy' = [copy EXCEPT ![p][t] = Requoted(q, @)],
                 paid' = [paid EXCEPT ![t] = @ + (q - snap[p][t].quota)]
          PROVE  copy' \in [Actor -> [Task -> Row]] /\ paid' \in [Task -> Int]
      <4>1. copy' = [copy EXCEPT ![p][t] = Requoted(q, copy[p][t])]
        BY <3>2
      <4> QED
        BY <2>2, <2>3, <3>2, <4>1, CopyType DEF TypeOK
    <3> QED
      BY <1>15, <3>1, <3>2 DEF settleTaskBillingOnComplete
  <2> QED
    BY <1>15, <2>1, <2>4 DEF settleTaskBillingOnComplete, TypeOK, past, counts
<1>16. ASSUME NEW p \in Pass, NEW t \in Task, SettleToken(p, t) PROVE TypeOK'
  <2>1. pc' \in [Actor -> [Task -> PC]]
    BY <1>16, GotoType DEF SettleToken, PC, Billing
  <2>2. tokenPaid[t] + (copy[p][t].quota - snap[p][t].quota) \in Int
    BY <1>b, <1>c, <1>d
  <2> QED
    BY <1>16, <2>1, <2>2 DEF SettleToken, TypeOK, past, counts
<1>17. ASSUME NEW p \in Pass, NEW t \in Task, UpdateQuotaAndPrivateData(p, t) PROVE TypeOK'
  <2>1. pc' \in [Actor -> [Task -> PC]]
    BY <1>17, GotoType DEF UpdateQuotaAndPrivateData, PC
  <2>2. Requoted(copy[p][t].quota, row[t]) \in Row
    BY <1>b, <1>c, RowType, RequotedType
  <2> QED
    BY <1>17, <2>1, <2>2 DEF UpdateQuotaAndPrivateData, TypeOK, books, past, counts
<1>18. ASSUME NEW p \in Pass, NEW t \in Task, StatementFails(p, t) PROVE TypeOK'
  <2>1. pc' \in [Actor -> [Task -> PC]]
    BY <1>18, GotoType DEF StatementFails, AfterFailure, PC, Billing
  <2> QED
    BY <1>18, <2>1, BoundAssumption DEF StatementFails, Fault, TypeOK, books, past
<1>19. ASSUME NEW u \in Reader, NEW t \in Task, videoFetchByID(u, t) PROVE TypeOK'
  <2>1. pc' \in [Actor -> [Task -> PC]]
    BY <1>19, GotoType DEF videoFetchByID, PC
  <2>2. snap' \in [Actor -> [Task -> Row]] /\ copy' \in [Actor -> [Task -> Row]]
    BY <1>19, <1>c DEF videoFetchByID, TypeOK
  <2>3. reads' \in 0..MaxReads
    BY <1>19, BoundAssumption DEF videoFetchByID, TypeOK
  <2> QED
    BY <1>19, <2>1, <2>2, <2>3 DEF videoFetchByID, TypeOK, books, past
<1>20. ASSUME NEW u \in Reader, NEW t \in Task, tryRealtimeFetch(u, t) PROVE TypeOK'
  <2>1. pc' \in [Actor -> [Task -> PC]]
    BY <1>20, GotoType DEF tryRealtimeFetch, PC
  <2>2. \A r \in Reported(copy[u][t]) \union {copy[u][t]} : r \in Row
    BY <1>b, ReportedType
  <2> QED
    BY <1>20, <2>1, <2>2 DEF tryRealtimeFetch, TypeOK, books, past, counts
<1> QED
  BY <1>1, <1>2, <1>3, <1>4, <1>5, <1>6, <1>7, <1>8, <1>9, <1>10, <1>11, <1>12, <1>13, <1>14,
     <1>15, <1>16, <1>17, <1>18, <1>19, <1>20 DEF Next, PassStep, PollStep

LEMMA InitType == Init => TypeOK
BY AbsentType, BoundAssumption DEF Init, TypeOK, PC

\* Every row, copy and counter keeps its type on every path.
THEOREM TypeCorrect == Spec => []TypeOK
<1>1. Init => TypeOK
  BY InitType
<1>2. TypeOK /\ [Next]_vars => TypeOK'
  <2> SUFFICES ASSUME TypeOK, UNCHANGED vars PROVE TypeOK'
    BY TypeStep
  <2> QED
    BY DEF TypeOK, vars, books, past, counts
<1> QED
  BY <1>1, <1>2, PTL DEF Spec

-----------------------------------------------------------------------------
(* One pass finishes and bills a task *)

LEMMA GotoAt ==
    ASSUME TypeOK, NEW p \in Pass, NEW t \in Task, NEW x, Goto(p, t, x)
    PROVE  /\ \A q \in Pass, u \in Task : pc'[q][u] = IF q = p /\ u = t THEN x ELSE pc[q][u]
           /\ \A v \in Reader, u \in Task : pc'[v][u] = pc[v][u]
BY ActorAssumption DEF TypeOK, Goto, Actor

LEMMA CopyAt ==
    ASSUME TypeOK, NEW p \in Pass, NEW t \in Task, NEW r, copy' = [copy EXCEPT ![p][t] = r]
    PROVE  \A q \in Pass, u \in Task : copy'[q][u] = IF q = p /\ u = t THEN r ELSE copy[q][u]
BY DEF TypeOK, Actor

LEMMA WriteAt ==
    ASSUME TypeOK, NEW t \in Task, NEW r, row' = [row EXCEPT ![t] = r]
    PROVE  \A u \in Task : row'[u] = IF u = t THEN r ELSE row[u]
BY DEF TypeOK


LEMMA BookedType ==
    ASSUME TypeOK
    PROVE  booked \in [Task -> Int] /\ tokenBooked \in [Task -> Int]
BY DEF TypeOK, booked, tokenBooked

\* A step that pays or takes back d moves what is booked by d.
LEMMA BookedMore ==
    ASSUME TypeOK, NEW t \in Task, NEW d \in Int,
           paid' = [paid EXCEPT ![t] = paid[t] + d], owed' = owed
    PROVE  booked'[t] = booked[t] + d /\ \A u \in Task : u # t => booked'[u] = booked[u]
BY DEF TypeOK, booked

LEMMA BookedLess ==
    ASSUME TypeOK, NEW t \in Task, NEW d \in Int,
           paid' = [paid EXCEPT ![t] = paid[t] - d], owed' = owed
    PROVE  booked'[t] = booked[t] - d /\ \A u \in Task : u # t => booked'[u] = booked[u]
BY DEF TypeOK, booked

LEMMA TokenBookedMore ==
    ASSUME TypeOK, NEW t \in Task, NEW d \in Int,
           tokenPaid' = [tokenPaid EXCEPT ![t] = tokenPaid[t] + d], tokenOwed' = tokenOwed
    PROVE  /\ tokenBooked'[t] = tokenBooked[t] + d
           /\ \A u \in Task : u # t => tokenBooked'[u] = tokenBooked[u]
BY DEF TypeOK, tokenBooked

LEMMA TokenBookedLess ==
    ASSUME TypeOK, NEW t \in Task, NEW d \in Int,
           tokenPaid' = [tokenPaid EXCEPT ![t] = tokenPaid[t] - d], tokenOwed' = tokenOwed
    PROVE  /\ tokenBooked'[t] = tokenBooked[t] - d
           /\ \A u \in Task : u # t => tokenBooked'[u] = tokenBooked[u]
BY DEF TypeOK, tokenBooked

\* A submission books the price its row is inserted with, whatever the settlement came to,
\* or leaves a charge and no row.
LEMMA RelayBooks ==
    ASSUME TypeOK, NEW t \in Task, RelayTask(t)
    PROVE  /\ row[t].status = "absent" /\ paid[t] = 0 /\ tokenPaid[t] = 0
           /\ pc' = pc /\ snap' = snap /\ copy' = copy
           /\ \A u \in Task : u # t =>
                row'[u] = row[u] /\ booked'[u] = booked[u] /\ tokenBooked'[u] = tokenBooked[u]
           /\ \/ /\ row'[t].status \in Open /\ row'[t].quota \in Nat
                 /\ booked'[t] = row'[t].quota /\ tokenBooked'[t] = row'[t].quota
              \/ /\ row'[t] = row[t]
                 /\ booked'[t] >= booked[t] /\ tokenBooked'[t] >= tokenBooked[t]
<1>0. PICK b, q \in SubmitQuota, s \in {"NOT_START", "PREPARING"}, inserted \in BOOLEAN :
         \E c \in SettledAt(b, q) :
           /\ s = "PREPARING" => t \notin Suno
           /\ paid' = [paid EXCEPT ![t] = c[1]]
           /\ tokenPaid' = [tokenPaid EXCEPT ![t] = c[2]]
           /\ IF inserted
              THEN /\ row' = [row EXCEPT ![t] = [status |-> s, full |-> FALSE, quota |-> q]]
                   /\ owed' = [owed EXCEPT ![t] = q - c[1]]
                   /\ tokenOwed' = [tokenOwed EXCEPT ![t] = q - c[2]]
              ELSE UNCHANGED <<row, owed, tokenOwed>>
  BY DEF RelayTask
<1>1. PICK c \in SettledAt(b, q) :
         /\ paid' = [paid EXCEPT ![t] = c[1]] /\ tokenPaid' = [tokenPaid EXCEPT ![t] = c[2]]
         /\ \/ UNCHANGED <<row, owed, tokenOwed>>
            \/ /\ row' = [row EXCEPT ![t] = [status |-> s, full |-> FALSE, quota |-> q]]
               /\ owed' = [owed EXCEPT ![t] = q - c[1]]
               /\ tokenOwed' = [tokenOwed EXCEPT ![t] = q - c[2]]
  BY <1>0
<1>2. q \in Nat /\ c[1] \in Nat /\ c[2] \in Nat
  BY SettledType, QuotaAssumption
<1>3. row[t].status = "absent" /\ paid[t] = 0 /\ tokenPaid[t] = 0 /\ pc' = pc /\ snap' = snap /\ copy' = copy
  BY AbsentType DEF RelayTask
<1>4. ASSUME NEW u \in Task, u # t
      PROVE  row'[u] = row[u] /\ booked'[u] = booked[u] /\ tokenBooked'[u] = tokenBooked[u]
  BY <1>1, <1>4 DEF TypeOK, booked, tokenBooked
<1>5. CASE UNCHANGED <<row, owed, tokenOwed>>
  <2>1. booked'[t] >= booked[t] /\ tokenBooked'[t] >= tokenBooked[t]
    BY <1>1, <1>2, <1>3, <1>5 DEF TypeOK, booked, tokenBooked
  <2> QED
    BY <1>3, <1>4, <1>5, <2>1
<1>6. CASE /\ row' = [row EXCEPT ![t] = [status |-> s, full |-> FALSE, quota |-> q]]
           /\ owed' = [owed EXCEPT ![t] = q - c[1]]
           /\ tokenOwed' = [tokenOwed EXCEPT ![t] = q - c[2]]
  <2>1. row'[t].status \in Open /\ row'[t].quota = q
    BY <1>6 DEF TypeOK, Open
  <2>2. booked'[t] = q /\ tokenBooked'[t] = q
    BY <1>1, <1>2, <1>6 DEF TypeOK, booked, tokenBooked
  <2> QED
    BY <1>2, <1>3, <1>4, <2>1, <2>2
<1> QED
  BY <1>1, <1>5, <1>6

LEMMA BooksStep == SwapsOnly /\ IInv /\ Next => (PassPlaces /\ Books)'
<1> SUFFICES ASSUME SwapsOnly, IInv, Next PROVE (PassPlaces /\ Books)'
  OBVIOUS
<1>a. TypeOK
  BY DEF IInv
<1>b. \A a \in Pass, t \in Task : copy[a][t] \in Row /\ snap[a][t] \in Row
  BY <1>a DEF TypeOK, Actor
<1>c. \A t \in Task : row[t] \in Row /\ booked[t] \in Int /\ tokenBooked[t] \in Int
  BY <1>a, BookedType DEF TypeOK
<1>d. \A r \in Row : r.quota \in Nat
  BY RowQuota
<1>e. PassPlaces /\ WorksOnOpen /\ OneBills /\ BooksMatch /\ OpenIsCharged /\ NeverOverRefunded
  BY DEF IInv, Books
<1> USE <1>a
<1>1. ASSUME NEW t \in Task, RelayTask(t) PROVE (PassPlaces /\ Books)'
  <2>1. /\ row[t].status = "absent" /\ paid[t] = 0 /\ tokenPaid[t] = 0
        /\ \/ /\ row'[t].status \in Open /\ row'[t].quota \in Nat
              /\ booked'[t] = row'[t].quota /\ tokenBooked'[t] = row'[t].quota
           \/ row'[t] = row[t] /\ booked'[t] >= booked[t] /\ tokenBooked'[t] >= tokenBooked[t]
    BY <1>1, RelayBooks
  <2>2. booked[t] >= 0 /\ tokenBooked[t] >= 0 /\ booked[t] \in Int /\ tokenBooked[t] \in Int
    BY <1>c, <1>e DEF NeverOverRefunded
  <2>3. /\ \A u \in Task : u # t => row'[u] = row[u] /\ booked'[u] = booked[u] /\ tokenBooked'[u] = tokenBooked[u]
        /\ pc' = pc /\ snap' = snap /\ copy' = copy
    BY <1>1, RelayBooks
  <2>4. \A p \in Pass : pc[p][t] \notin Working \union PassBilling
    BY <2>1, <1>e DEF WorksOnOpen, OneBills, Final
  <2>5. PassPlaces'
    BY <2>1, <2>2, <2>3, <2>4, <1>b, <1>d, <1>e DEF Working, PassBilling, Open, Final, PassPlaces
  <2>6. WorksOnOpen'
    BY <2>1, <2>2, <2>3, <2>4, <1>b, <1>d, <1>e DEF Working, PassBilling, Open, Final, WorksOnOpen,
       PassPlaces
  <2>7. OneBills'
    BY <2>1, <2>2, <2>3, <2>4, <1>b, <1>d, <1>e DEF Working, PassBilling, Open, Final, OneBills,
       PassPlaces, WorksOnOpen
  <2>8. BooksMatch'
    BY <2>1, <2>2, <2>3, <2>4, <1>b, <1>d, <1>e DEF Working, PassBilling, Open, Final, BooksMatch,
       PassPlaces, WorksOnOpen, OneBills, OpenIsCharged
  <2>9. OpenIsCharged'
    BY <2>1, <2>2, <2>3, <2>4, <1>b, <1>d, <1>e DEF Working, PassBilling, Open, Final, OpenIsCharged,
       PassPlaces, WorksOnOpen, OneBills
  <2>11. booked'[t] \in Int /\ tokenBooked'[t] \in Int
    BY TypeStep, BookedType DEF booked, tokenBooked, TypeOK
  <2>10. NeverOverRefunded'
    <3>1. booked'[t] >= 0 /\ tokenBooked'[t] >= 0
      BY <2>1, <2>2, <2>11
    <3>2. \A u \in Task : u # t => booked'[u] >= 0 /\ tokenBooked'[u] >= 0
      BY <2>3, <1>e DEF NeverOverRefunded
    <3> QED
      BY <3>1, <3>2 DEF NeverOverRefunded
  <2> QED
    BY <2>5, <2>6, <2>7, <2>8, <2>9, <2>10 DEF Books
<1>2. ASSUME NEW t \in Task, BecomesLate(t) PROVE (PassPlaces /\ Books)'
  <2>1. /\ row' = row /\ booked' = booked /\ tokenBooked' = tokenBooked
        /\ pc' = pc /\ snap' = snap /\ copy' = copy
    BY <1>2 DEF BecomesLate, books, past, booked, tokenBooked
  <2> QED
    BY <2>1, <1>e DEF Books, PassPlaces, WorksOnOpen, OneBills, BooksMatch, OpenIsCharged,
       NeverOverRefunded
<1>3. ASSUME NEW p \in Pass, sweepTimedOutTasks(p) PROVE (PassPlaces /\ Books)'
  <2>1. /\ \A q \in Pass, t \in Task : q # p =>
             pc'[q][t] = pc[q][t] /\ snap'[q][t] = snap[q][t] /\ copy'[q][t] = copy[q][t]
        /\ \A u \in Reader, t \in Task : pc'[u][t] = pc[u][t]
        /\ row' = row /\ booked' = booked /\ tokenBooked' = tokenBooked
    BY <1>3, ActorAssumption DEF sweepTimedOutTasks, Take, TypeOK, Actor, books, past, booked, tokenBooked
  <2>2. ASSUME NEW t \in Task
        PROVE  \/ pc'[p][t] = "none"
               \/ /\ pc'[p][t] \in Working /\ row[t].status \in Open
                  /\ snap'[p][t] = row[t]
                  /\ copy'[p][t].quota = row[t].quota /\ copy'[p][t].status # "absent"
    <3>1. /\ Finished("FAILURE", row[t]).quota = row[t].quota
          /\ Finished("FAILURE", row[t]).status = "FAILURE"
      BY <1>c, FinishedType DEF Final
    <3> QED
      BY <1>3, <3>1 DEF sweepTimedOutTasks, Take, TypeOK, Actor, TimedOut, Unfinished, Working
  <2>3. PassPlaces'
    BY <2>1, <2>2, <1>b, <1>d, <1>e DEF Working, PassBilling, Open, Final, PassPlaces
  <2>4. WorksOnOpen'
    BY <2>1, <2>2, <1>b, <1>d, <1>e DEF Working, PassBilling, Open, Final, WorksOnOpen,
       PassPlaces
  <2>5. OneBills'
    BY <2>1, <2>2, <1>b, <1>d, <1>e DEF Working, PassBilling, Open, Final, OneBills,
       PassPlaces, WorksOnOpen
  <2>6. BooksMatch'
    BY <2>1, <2>2, <1>b, <1>d, <1>e DEF Working, PassBilling, Open, Final, BooksMatch,
       PassPlaces, WorksOnOpen, OneBills, OpenIsCharged
  <2>7. OpenIsCharged'
    BY <2>1, <2>2, <1>b, <1>d, <1>e DEF Working, PassBilling, Open, Final, OpenIsCharged,
       PassPlaces, WorksOnOpen, OneBills
  <2>8. NeverOverRefunded'
    BY <2>1, <2>2, <1>b, <1>d, <1>e DEF Working, PassBilling, Open, Final, NeverOverRefunded,
       PassPlaces, BooksMatch
  <2> QED
    BY <2>3, <2>4, <2>5, <2>6, <2>7, <2>8 DEF Books
<1>4. ASSUME NEW p \in Pass, ListUnfinished(p) PROVE (PassPlaces /\ Books)'
  <2>1. /\ \A q \in Pass, t \in Task : q # p =>
             pc'[q][t] = pc[q][t] /\ snap'[q][t] = snap[q][t] /\ copy'[q][t] = copy[q][t]
        /\ \A u \in Reader, t \in Task : pc'[u][t] = pc[u][t]
        /\ row' = row /\ booked' = booked /\ tokenBooked' = tokenBooked
    BY <1>4, ActorAssumption DEF ListUnfinished, Take, TypeOK, Actor, books, past, booked, tokenBooked
  <2>2. ASSUME NEW t \in Task
        PROVE  \/ pc'[p][t] = "none"
               \/ /\ pc'[p][t] \in Working /\ row[t].status \in Open
                  /\ snap'[p][t] = row[t]
                  /\ copy'[p][t].quota = row[t].quota /\ copy'[p][t].status # "absent"
    BY <1>4 DEF ListUnfinished, Take, TypeOK, Actor, Unfinished, Working, Open
  <2>3. PassPlaces'
    BY <2>1, <2>2, <1>b, <1>d, <1>e DEF Working, PassBilling, Open, Final, PassPlaces
  <2>4. WorksOnOpen'
    BY <2>1, <2>2, <1>b, <1>d, <1>e DEF Working, PassBilling, Open, Final, WorksOnOpen,
       PassPlaces
  <2>5. OneBills'
    BY <2>1, <2>2, <1>b, <1>d, <1>e DEF Working, PassBilling, Open, Final, OneBills,
       PassPlaces, WorksOnOpen
  <2>6. BooksMatch'
    BY <2>1, <2>2, <1>b, <1>d, <1>e DEF Working, PassBilling, Open, Final, BooksMatch,
       PassPlaces, WorksOnOpen, OneBills, OpenIsCharged
  <2>7. OpenIsCharged'
    BY <2>1, <2>2, <1>b, <1>d, <1>e DEF Working, PassBilling, Open, Final, OpenIsCharged,
       PassPlaces, WorksOnOpen, OneBills
  <2>8. NeverOverRefunded'
    BY <2>1, <2>2, <1>b, <1>d, <1>e DEF Working, PassBilling, Open, Final, NeverOverRefunded,
       PassPlaces, BooksMatch
  <2> QED
    BY <2>3, <2>4, <2>5, <2>6, <2>7, <2>8 DEF Books
<1>5. ASSUME NEW p \in Pass, PassEnds(p) PROVE (PassPlaces /\ Books)'
  <2>1. /\ \A q \in Pass, t \in Task : q # p =>
             pc'[q][t] = pc[q][t] /\ snap'[q][t] = snap[q][t] /\ copy'[q][t] = copy[q][t]
        /\ \A u \in Reader, t \in Task : pc'[u][t] = pc[u][t]
        /\ row' = row /\ booked' = booked /\ tokenBooked' = tokenBooked
    BY <1>5, ActorAssumption DEF PassEnds, Take, TypeOK, Actor, books, past, booked, tokenBooked
  <2>2. ASSUME NEW t \in Task
        PROVE  \/ pc'[p][t] = "none"
               \/ /\ pc'[p][t] \in Working /\ row[t].status \in Open
                  /\ snap'[p][t] = row[t]
                  /\ copy'[p][t].quota = row[t].quota /\ copy'[p][t].status # "absent"
    BY <1>5 DEF PassEnds, Take, TypeOK, Actor
  <2>3. PassPlaces'
    BY <2>1, <2>2, <1>b, <1>d, <1>e DEF Working, PassBilling, Open, Final, PassPlaces
  <2>4. WorksOnOpen'
    BY <2>1, <2>2, <1>b, <1>d, <1>e DEF Working, PassBilling, Open, Final, WorksOnOpen,
       PassPlaces
  <2>5. OneBills'
    BY <2>1, <2>2, <1>b, <1>d, <1>e DEF Working, PassBilling, Open, Final, OneBills,
       PassPlaces, WorksOnOpen
  <2>6. BooksMatch'
    BY <2>1, <2>2, <1>b, <1>d, <1>e DEF Working, PassBilling, Open, Final, BooksMatch,
       PassPlaces, WorksOnOpen, OneBills, OpenIsCharged
  <2>7. OpenIsCharged'
    BY <2>1, <2>2, <1>b, <1>d, <1>e DEF Working, PassBilling, Open, Final, OpenIsCharged,
       PassPlaces, WorksOnOpen, OneBills
  <2>8. NeverOverRefunded'
    BY <2>1, <2>2, <1>b, <1>d, <1>e DEF Working, PassBilling, Open, Final, NeverOverRefunded,
       PassPlaces, BooksMatch
  <2> QED
    BY <2>3, <2>4, <2>5, <2>6, <2>7, <2>8 DEF Books
<1>6. ASSUME NEW p \in Pass, Crash(p) PROVE (PassPlaces /\ Books)'
  <2>1. /\ \A q \in Pass, t \in Task : q # p =>
             pc'[q][t] = pc[q][t] /\ snap'[q][t] = snap[q][t] /\ copy'[q][t] = copy[q][t]
        /\ \A u \in Reader, t \in Task : pc'[u][t] = pc[u][t]
        /\ row' = row /\ booked' = booked /\ tokenBooked' = tokenBooked
    BY <1>6, ActorAssumption DEF Crash, Take, TypeOK, Actor, books, past, booked, tokenBooked
  <2>2. ASSUME NEW t \in Task
        PROVE  \/ pc'[p][t] = "none"
               \/ /\ pc'[p][t] \in Working /\ row[t].status \in Open
                  /\ snap'[p][t] = row[t]
                  /\ copy'[p][t].quota = row[t].quota /\ copy'[p][t].status # "absent"
    BY <1>6 DEF Crash, Take, TypeOK, Actor
  <2>3. PassPlaces'
    BY <2>1, <2>2, <1>b, <1>d, <1>e DEF Working, PassBilling, Open, Final, PassPlaces
  <2>4. WorksOnOpen'
    BY <2>1, <2>2, <1>b, <1>d, <1>e DEF Working, PassBilling, Open, Final, WorksOnOpen,
       PassPlaces
  <2>5. OneBills'
    BY <2>1, <2>2, <1>b, <1>d, <1>e DEF Working, PassBilling, Open, Final, OneBills,
       PassPlaces, WorksOnOpen
  <2>6. BooksMatch'
    BY <2>1, <2>2, <1>b, <1>d, <1>e DEF Working, PassBilling, Open, Final, BooksMatch,
       PassPlaces, WorksOnOpen, OneBills, OpenIsCharged
  <2>7. OpenIsCharged'
    BY <2>1, <2>2, <1>b, <1>d, <1>e DEF Working, PassBilling, Open, Final, OpenIsCharged,
       PassPlaces, WorksOnOpen, OneBills
  <2>8. NeverOverRefunded'
    BY <2>1, <2>2, <1>b, <1>d, <1>e DEF Working, PassBilling, Open, Final, NeverOverRefunded,
       PassPlaces, BooksMatch
  <2> QED
    BY <2>3, <2>4, <2>5, <2>6, <2>7, <2>8 DEF Books
<1>7. ASSUME NEW p \in Pass, NEW t \in Task, updatePreparingVideoTask(p, t) PROVE (PassPlaces /\ Books)'
  <2>1. row' = row /\ snap' = snap /\ booked' = booked /\ tokenBooked' = tokenBooked /\ pc[p][t] \in Working
    BY <1>7 DEF updatePreparingVideoTask, books, past, booked, tokenBooked, Working
  <2>2. PICK x \in {"done", "save"} : /\ \A q \in Pass, u \in Task : pc'[q][u] = IF q = p /\ u = t THEN x ELSE pc[q][u]
        /\ \A v \in Reader, u \in Task : pc'[v][u] = pc[v][u]
    BY <1>7, GotoAt DEF updatePreparingVideoTask
  <2>3. /\ \A q \in Pass, u \in Task : q # p \/ u # t => copy'[q][u] = copy[q][u]
        /\ copy'[p][t].quota = copy[p][t].quota /\ copy'[p][t].status # "absent"
    <3>1. CASE UNCHANGED copy
      BY <2>1, <3>1, <1>e DEF WorksOnOpen
    <3>2. CASE \E r \in Row : /\ r.quota = copy[p][t].quota /\ r.status # "absent"
                              /\ copy' = [copy EXCEPT ![p][t] = r]
      <4>1. PICK r \in Row : /\ r.quota = copy[p][t].quota /\ r.status # "absent"
                             /\ copy' = [copy EXCEPT ![p][t] = r]
        BY <3>2
      <4>2. \A q \in Pass, u \in Task : copy'[q][u] = IF q = p /\ u = t THEN r ELSE copy[q][u]
        BY <4>1 DEF TypeOK, Actor
      <4>3. copy'[p][t] = r
        BY <4>2
      <4>4. \A q \in Pass, u \in Task : q # p \/ u # t => copy'[q][u] = copy[q][u]
        BY <4>2
      <4> QED
        BY <4>1, <4>3, <4>4
    <3>3. ASSUME NEW r \in {[copy[p][t] EXCEPT !.status = "QUEUED"], Finished("FAILURE", copy[p][t])}
          PROVE  r \in Row /\ r.quota = copy[p][t].quota /\ r.status # "absent"
      <4> DEFINE a == [copy[p][t] EXCEPT !.status = "QUEUED"]
                 b == Finished("FAILURE", copy[p][t])
      <4>1. a \in Row /\ a.quota = copy[p][t].quota /\ a.status = "QUEUED"
        BY <1>b, QueuedType
      <4>2. b \in Row /\ b.quota = copy[p][t].quota /\ b.status = "FAILURE"
        BY <1>b, FinishedType DEF Final
      <4>3. r = a \/ r = b
        BY <3>3
      <4> HIDE DEF a, b
      <4> QED
        BY <4>1, <4>2, <4>3
    <3> QED
      BY <1>7, <3>1, <3>2, <3>3 DEF updatePreparingVideoTask
  <2>4. PassPlaces'
    BY <2>1, <2>2, <2>3, <1>b, <1>d, <1>e DEF Working, PassBilling, Open, Final, PassPlaces
  <2>5. WorksOnOpen'
    BY <2>1, <2>2, <2>3, <1>b, <1>d, <1>e DEF Working, PassBilling, Open, Final, WorksOnOpen,
       PassPlaces
  <2>6. OneBills'
    BY <2>1, <2>2, <2>3, <1>b, <1>d, <1>e DEF Working, PassBilling, Open, Final, OneBills,
       PassPlaces, WorksOnOpen
  <2>7. BooksMatch'
    BY <2>1, <2>2, <2>3, <1>b, <1>d, <1>e DEF Working, PassBilling, Open, Final, BooksMatch,
       PassPlaces, WorksOnOpen, OneBills, OpenIsCharged
  <2>8. OpenIsCharged'
    BY <2>1, <2>2, <2>3, <1>b, <1>d, <1>e DEF Working, PassBilling, Open, Final, OpenIsCharged,
       PassPlaces, WorksOnOpen, OneBills
  <2>9. NeverOverRefunded'
    BY <2>1, <2>2, <2>3, <1>b, <1>d, <1>e DEF Working, PassBilling, Open, Final,
       NeverOverRefunded, PassPlaces, BooksMatch
  <2> QED
    BY <2>4, <2>5, <2>6, <2>7, <2>8, <2>9 DEF Books
<1>8. ASSUME NEW p \in Pass, NEW t \in Task, FetchVideo(p, t) PROVE (PassPlaces /\ Books)'
  <2>1. row' = row /\ snap' = snap /\ booked' = booked /\ tokenBooked' = tokenBooked /\ pc[p][t] \in Working
    BY <1>8 DEF FetchVideo, books, past, booked, tokenBooked, Working
  <2>2. PICK x \in {"done", "save"} : /\ \A q \in Pass, u \in Task : pc'[q][u] = IF q = p /\ u = t THEN x ELSE pc[q][u]
        /\ \A v \in Reader, u \in Task : pc'[v][u] = pc[v][u]
    BY <1>8, GotoAt DEF FetchVideo
  <2>3. /\ \A q \in Pass, u \in Task : q # p \/ u # t => copy'[q][u] = copy[q][u]
        /\ copy'[p][t].quota = copy[p][t].quota /\ copy'[p][t].status # "absent"
    <3>1. CASE UNCHANGED copy
      BY <2>1, <3>1, <1>e DEF WorksOnOpen
    <3>2. CASE \E r \in Row : /\ r.quota = copy[p][t].quota /\ r.status # "absent"
                              /\ copy' = [copy EXCEPT ![p][t] = r]
      <4>1. PICK r \in Row : /\ r.quota = copy[p][t].quota /\ r.status # "absent"
                             /\ copy' = [copy EXCEPT ![p][t] = r]
        BY <3>2
      <4>2. \A q \in Pass, u \in Task : copy'[q][u] = IF q = p /\ u = t THEN r ELSE copy[q][u]
        BY <4>1 DEF TypeOK, Actor
      <4>3. copy'[p][t] = r
        BY <4>2
      <4>4. \A q \in Pass, u \in Task : q # p \/ u # t => copy'[q][u] = copy[q][u]
        BY <4>2
      <4> QED
        BY <4>1, <4>3, <4>4
    <3>3. ASSUME NEW r \in Reported(copy[p][t])
          PROVE  r \in Row /\ r.quota = copy[p][t].quota /\ r.status # "absent"
      BY <1>b, ReportedType DEF Open, Final
    <3> QED
      BY <1>8, <3>1, <3>2, <3>3 DEF FetchVideo
  <2>4. PassPlaces'
    BY <2>1, <2>2, <2>3, <1>b, <1>d, <1>e DEF Working, PassBilling, Open, Final, PassPlaces
  <2>5. WorksOnOpen'
    BY <2>1, <2>2, <2>3, <1>b, <1>d, <1>e DEF Working, PassBilling, Open, Final, WorksOnOpen,
       PassPlaces
  <2>6. OneBills'
    BY <2>1, <2>2, <2>3, <1>b, <1>d, <1>e DEF Working, PassBilling, Open, Final, OneBills,
       PassPlaces, WorksOnOpen
  <2>7. BooksMatch'
    BY <2>1, <2>2, <2>3, <1>b, <1>d, <1>e DEF Working, PassBilling, Open, Final, BooksMatch,
       PassPlaces, WorksOnOpen, OneBills, OpenIsCharged
  <2>8. OpenIsCharged'
    BY <2>1, <2>2, <2>3, <1>b, <1>d, <1>e DEF Working, PassBilling, Open, Final, OpenIsCharged,
       PassPlaces, WorksOnOpen, OneBills
  <2>9. NeverOverRefunded'
    BY <2>1, <2>2, <2>3, <1>b, <1>d, <1>e DEF Working, PassBilling, Open, Final,
       NeverOverRefunded, PassPlaces, BooksMatch
  <2> QED
    BY <2>4, <2>5, <2>6, <2>7, <2>8, <2>9 DEF Books
<1>9. ASSUME NEW p \in Pass, NEW t \in Task, FetchSuno(p, t) PROVE (PassPlaces /\ Books)'
  BY <1>9 DEF FetchSuno, SwapsOnly
<1>10. ASSUME NEW p \in Pass, NEW t \in Task, ChannelGone(p, t) PROVE (PassPlaces /\ Books)'
  <2>1. /\ booked' = booked /\ tokenBooked' = tokenBooked /\ snap' = snap /\ copy' = copy
        /\ row' = [row EXCEPT ![t] = Finished("FAILURE", row[t])]
    BY <1>10 DEF ChannelGone, books, past, booked, tokenBooked
  <2>2. /\ \A q \in Pass, u \in Task : pc'[q][u] = IF q = p /\ u = t THEN "done" ELSE pc[q][u]
        /\ \A v \in Reader, u \in Task : pc'[v][u] = pc[v][u]
    BY <1>10, GotoAt DEF ChannelGone
  <2>3. /\ \A u \in Task : u # t => row'[u] = row[u]
        /\ row'[t].status = "FAILURE"
    <3>1. Finished("FAILURE", row[t]).status = "FAILURE"
      BY <1>c, FinishedType DEF Final
    <3> DEFINE y == Finished("FAILURE", row[t])
    <3>2. row' = [row EXCEPT ![t] = y]
      BY <2>1
    <3> HIDE DEF y
    <3>3. \A u \in Task : row'[u] = IF u = t THEN y ELSE row[u]
      BY <3>2, WriteAt
    <3>4. y.status = "FAILURE"
      BY <3>1 DEF y
    <3> QED
      BY <3>3, <3>4
  <2>4. PassPlaces'
    BY <2>1, <2>2, <2>3, <1>b, <1>d, <1>e DEF Working, PassBilling, Open, Final, PassPlaces
  <2>5. WorksOnOpen'
    BY <2>1, <2>2, <2>3, <1>b, <1>d, <1>e DEF Working, PassBilling, Open, Final, WorksOnOpen,
       PassPlaces
  <2>6. OneBills'
    BY <2>1, <2>2, <2>3, <1>b, <1>d, <1>e DEF Working, PassBilling, Open, Final, OneBills,
       PassPlaces, WorksOnOpen
  <2>7. BooksMatch'
    BY <2>1, <2>2, <2>3, <1>b, <1>d, <1>e DEF Working, PassBilling, Open, Final, BooksMatch,
       PassPlaces, WorksOnOpen, OneBills, OpenIsCharged
  <2>8. OpenIsCharged'
    BY <2>1, <2>2, <2>3, <1>b, <1>d, <1>e DEF Working, PassBilling, Open, Final, OpenIsCharged,
       PassPlaces, WorksOnOpen, OneBills
  <2>9. NeverOverRefunded'
    BY <2>1, <2>2, <2>3, <1>b, <1>d, <1>e DEF Working, PassBilling, Open, Final,
       NeverOverRefunded, PassPlaces, BooksMatch
  <2> QED
    BY <2>4, <2>5, <2>6, <2>7, <2>8, <2>9 DEF Books
<1>11. ASSUME NEW p \in Pass, NEW t \in Task, UpdateWithStatus(p, t) PROVE (PassPlaces /\ Books)'
  <2>1. /\ booked' = booked /\ tokenBooked' = tokenBooked /\ snap' = snap /\ copy' = copy
        /\ pc[p][t] = "save"
    BY <1>11 DEF UpdateWithStatus, books, past, booked, tokenBooked
  <2>2. CASE ~Swaps(p, t)
    <3>1. row' = row
      BY <1>11, <2>2 DEF UpdateWithStatus
    <3>2. /\ \A q \in Pass, u \in Task : pc'[q][u] = IF q = p /\ u = t THEN "done" ELSE pc[q][u]
        /\ \A v \in Reader, u \in Task : pc'[v][u] = pc[v][u]
      BY <1>11, <2>2, GotoAt DEF UpdateWithStatus
    <3>3. PassPlaces'
    BY <2>1, <3>1, <3>2, <1>b, <1>d, <1>e DEF Working, PassBilling, Open, Final, PassPlaces
  <3>4. WorksOnOpen'
    BY <2>1, <3>1, <3>2, <1>b, <1>d, <1>e DEF Working, PassBilling, Open, Final, WorksOnOpen,
       PassPlaces
  <3>5. OneBills'
    BY <2>1, <3>1, <3>2, <1>b, <1>d, <1>e DEF Working, PassBilling, Open, Final, OneBills,
       PassPlaces, WorksOnOpen
  <3>6. BooksMatch'
    BY <2>1, <3>1, <3>2, <1>b, <1>d, <1>e DEF Working, PassBilling, Open, Final, BooksMatch,
       PassPlaces, WorksOnOpen, OneBills, OpenIsCharged
  <3>7. OpenIsCharged'
    BY <2>1, <3>1, <3>2, <1>b, <1>d, <1>e DEF Working, PassBilling, Open, Final, OpenIsCharged,
       PassPlaces, WorksOnOpen, OneBills
  <3>8. NeverOverRefunded'
    BY <2>1, <3>1, <3>2, <1>b, <1>d, <1>e DEF Working, PassBilling, Open, Final,
       NeverOverRefunded, PassPlaces, BooksMatch
    <3> QED
    BY <3>3, <3>4, <3>5, <3>6, <3>7, <3>8 DEF Books
  <2>3. CASE Swaps(p, t)
    <3>1. /\ row' = [row EXCEPT ![t] = copy[p][t]]
          /\ Goto(p, t, AfterSwap(copy[p][t]))
      BY <1>11, <2>3 DEF UpdateWithStatus
    <3>2. \A u \in Task : row'[u] = IF u = t THEN copy[p][t] ELSE row[u]
      BY <3>1, WriteAt
    <3>3. /\ \A q \in Pass, u \in Task : pc'[q][u] = IF q = p /\ u = t THEN AfterSwap(copy[p][t]) ELSE pc[q][u]
        /\ \A v \in Reader, u \in Task : pc'[v][u] = pc[v][u]
      BY <3>1, GotoAt
    <3>4. /\ row[t].status \in Open
          /\ snap[p][t].quota = row[t].quota /\ copy[p][t].quota = row[t].quota
          /\ copy[p][t].status \in Open \union Final
      BY <2>1, <2>3, <1>b, <1>e, RowType DEF WorksOnOpen, Swaps, Working
    <3>5. \A q \in Pass : pc[q][t] \notin PassBilling
      BY <3>4, <1>e DEF OneBills, Open, Final
    <3>6. PassPlaces'
      BY <2>1, <3>2, <3>3, <3>4, <3>5, <1>b, <1>d, <1>e DEF Working, PassBilling, Open, Final,
         PassPlaces, AfterSwap
    <3>7. WorksOnOpen'
      BY <2>1, <3>2, <3>3, <3>4, <3>5, <1>b, <1>d, <1>e DEF Working, PassBilling, Open, Final,
         WorksOnOpen, AfterSwap, PassPlaces
    <3>8. OneBills'
      BY <2>1, <3>2, <3>3, <3>4, <3>5, <1>b, <1>d, <1>e DEF Working, PassBilling, Open, Final,
         OneBills, AfterSwap, PassPlaces
    <3>9. BooksMatch'
      BY <2>1, <3>2, <3>3, <3>4, <3>5, <1>b, <1>d, <1>e DEF Working, PassBilling, Open, Final,
         BooksMatch, AfterSwap, PassPlaces, OpenIsCharged
    <3>10. OpenIsCharged'
      BY <2>1, <3>2, <3>3, <3>4, <3>5, <1>b, <1>d, <1>e DEF Working, PassBilling, Open, Final,
         OpenIsCharged, AfterSwap, PassPlaces
    <3>11. NeverOverRefunded'
      BY <2>1, <3>2, <3>3, <3>4, <3>5, <1>b, <1>d, <1>e DEF Working, PassBilling, Open, Final,
         NeverOverRefunded, AfterSwap, PassPlaces
    <3> QED
      BY <3>6, <3>7, <3>8, <3>9, <3>10, <3>11 DEF Books
  <2> QED
    BY <2>2, <2>3
<1>12. ASSUME NEW p \in Pass, NEW t \in Task, Update(p, t) PROVE (PassPlaces /\ Books)'
  BY <1>12, <1>e DEF Update, PassPlaces, Working, PassBilling
<1>13. ASSUME NEW p \in Pass, NEW t \in Task, RefundTaskQuota(p, t) PROVE (PassPlaces /\ Books)'
  <2>1. row' = row /\ snap' = snap /\ copy' = copy /\ tokenBooked' = tokenBooked
    BY <1>13 DEF RefundTaskQuota, past, tokenBooked
  <2>2. pc[p][t] = "refund"
    BY <1>13, <1>e DEF RefundTaskQuota, PassPlaces, Working, PassBilling
  <2>3. /\ \A q \in Pass, u \in Task : pc'[q][u] = IF q = p /\ u = t THEN "refundToken" ELSE pc[q][u]
        /\ \A v \in Reader, u \in Task : pc'[v][u] = pc[v][u]
    BY <1>13, <2>2, GotoAt DEF RefundTaskQuota
  <2>4. /\ \A u \in Task : u # t => booked'[u] = booked[u]
        /\ booked'[t] = 0
    <3>1. paid' = [paid EXCEPT ![t] = paid[t] - copy[p][t].quota] /\ owed' = owed /\ copy[p][t].quota \in Int
      BY <1>13, <1>b, <1>d DEF RefundTaskQuota, past
    <3>2. /\ booked'[t] = booked[t] - copy[p][t].quota
          /\ \A u \in Task : u # t => booked'[u] = booked[u]
      BY <3>1, BookedLess
    <3> QED
      BY <2>2, <3>1, <3>2, <1>e DEF BooksMatch
  <2>5. PassPlaces'
    BY <2>1, <2>2, <2>3, <2>4, <1>b, <1>d, <1>e DEF Working, PassBilling, Open, Final,
       PassPlaces
  <2>6. WorksOnOpen'
    BY <2>1, <2>2, <2>3, <2>4, <1>b, <1>d, <1>e DEF Working, PassBilling, Open, Final,
       WorksOnOpen, PassPlaces
  <2>7. OneBills'
    BY <2>1, <2>2, <2>3, <2>4, <1>b, <1>d, <1>e DEF Working, PassBilling, Open, Final,
       OneBills, PassPlaces, WorksOnOpen
  <2>8. BooksMatch'
    BY <2>1, <2>2, <2>3, <2>4, <1>b, <1>d, <1>e DEF Working, PassBilling, Open, Final,
       BooksMatch, PassPlaces, WorksOnOpen, OneBills, OpenIsCharged
  <2>9. OpenIsCharged'
    BY <2>1, <2>2, <2>3, <2>4, <1>b, <1>d, <1>e DEF Working, PassBilling, Open, Final,
       OpenIsCharged, PassPlaces, WorksOnOpen, OneBills
  <2>10. NeverOverRefunded'
    BY <2>1, <2>2, <2>3, <2>4, <1>b, <1>d, <1>e DEF Working, PassBilling, Open, Final,
       NeverOverRefunded, PassPlaces, BooksMatch
  <2> QED
    BY <2>5, <2>6, <2>7, <2>8, <2>9, <2>10 DEF Books
<1>14. ASSUME NEW p \in Pass, NEW t \in Task, RefundToken(p, t) PROVE (PassPlaces /\ Books)'
  <2>1. row' = row /\ snap' = snap /\ copy' = copy /\ booked' = booked
    BY <1>14 DEF RefundToken, past, booked
  <2>2. pc[p][t] = "refundToken"
    BY <1>14, <1>e DEF RefundToken, PassPlaces, Working, PassBilling
  <2>3. /\ \A q \in Pass, u \in Task : pc'[q][u] = IF q = p /\ u = t THEN "done" ELSE pc[q][u]
        /\ \A v \in Reader, u \in Task : pc'[v][u] = pc[v][u]
    BY <1>14, <2>2, GotoAt DEF RefundToken
  <2>4. /\ \A u \in Task : u # t => tokenBooked'[u] = tokenBooked[u]
        /\ tokenBooked'[t] = 0
    <3>1. /\ tokenPaid' = [tokenPaid EXCEPT ![t] = tokenPaid[t] - copy[p][t].quota]
          /\ tokenOwed' = tokenOwed /\ copy[p][t].quota \in Int
      BY <1>14, <1>b, <1>d DEF RefundToken, past
    <3>2. /\ tokenBooked'[t] = tokenBooked[t] - copy[p][t].quota
          /\ \A u \in Task : u # t => tokenBooked'[u] = tokenBooked[u]
      BY <3>1, TokenBookedLess
    <3> QED
      BY <2>2, <3>1, <3>2, <1>e DEF BooksMatch
  <2>5. PassPlaces'
    BY <2>1, <2>2, <2>3, <2>4, <1>b, <1>d, <1>e DEF Working, PassBilling, Open, Final,
       PassPlaces
  <2>6. WorksOnOpen'
    BY <2>1, <2>2, <2>3, <2>4, <1>b, <1>d, <1>e DEF Working, PassBilling, Open, Final,
       WorksOnOpen, PassPlaces
  <2>7. OneBills'
    BY <2>1, <2>2, <2>3, <2>4, <1>b, <1>d, <1>e DEF Working, PassBilling, Open, Final,
       OneBills, PassPlaces, WorksOnOpen
  <2>8. BooksMatch'
    BY <2>1, <2>2, <2>3, <2>4, <1>b, <1>d, <1>e DEF Working, PassBilling, Open, Final,
       BooksMatch, PassPlaces, WorksOnOpen, OneBills, OpenIsCharged
  <2>9. OpenIsCharged'
    BY <2>1, <2>2, <2>3, <2>4, <1>b, <1>d, <1>e DEF Working, PassBilling, Open, Final,
       OpenIsCharged, PassPlaces, WorksOnOpen, OneBills
  <2>10. NeverOverRefunded'
    BY <2>1, <2>2, <2>3, <2>4, <1>b, <1>d, <1>e DEF Working, PassBilling, Open, Final,
       NeverOverRefunded, PassPlaces, BooksMatch
  <2> QED
    BY <2>5, <2>6, <2>7, <2>8, <2>9, <2>10 DEF Books
<1>15. ASSUME NEW p \in Pass, NEW t \in Task, settleTaskBillingOnComplete(p, t) PROVE (PassPlaces /\ Books)'
  <2>1. row' = row /\ snap' = snap /\ tokenBooked' = tokenBooked /\ pc[p][t] = "settle"
    BY <1>15 DEF settleTaskBillingOnComplete, past, tokenBooked
  <2>2. PICK x \in {"done", "settleToken"} : /\ \A q \in Pass, u \in Task : pc'[q][u] = IF q = p /\ u = t THEN x ELSE pc[q][u]
        /\ \A v \in Reader, u \in Task : pc'[v][u] = pc[v][u]
    BY <1>15, GotoAt DEF settleTaskBillingOnComplete
  <2>3. /\ \A u \in Task : u # t => booked'[u] = booked[u]
        /\ booked'[t] \in Nat
        /\ \A q \in Pass, u \in Task : q # p \/ u # t => copy'[q][u] = copy[q][u]
    <3>1. CASE UNCHANGED <<paid, copy>>
      <4>1. booked' = booked
        BY <1>15, <3>1 DEF settleTaskBillingOnComplete, past, booked
      <4> QED
        BY <2>1, <3>1, <4>1, <1>b, <1>d, <1>e DEF BooksMatch
    <3>2. ASSUME NEW q \in ActualQuota, copy' = [copy EXCEPT ![p][t] = Requoted(q, @)],
                 paid' = [paid EXCEPT ![t] = @ + (q - snap[p][t].quota)]
          PROVE  /\ \A u \in Task : u # t => booked'[u] = booked[u]
                 /\ booked'[t] \in Nat
                 /\ \A a \in Pass, u \in Task : a # p \/ u # t => copy'[a][u] = copy[a][u]
      <4>1. copy' = [copy EXCEPT ![p][t] = Requoted(q, copy[p][t])] /\ q \in Nat
        BY <3>2, QuotaAssumption
      <4>5. /\ booked'[t] = booked[t] + (q - snap[p][t].quota)
            /\ \A u \in Task : u # t => booked'[u] = booked[u]
        <5>1. q - snap[p][t].quota \in Int
          BY <4>1, <1>b, <1>d
        <5>2. owed' = owed /\ paid' = [paid EXCEPT ![t] = paid[t] + (q - snap[p][t].quota)]
          BY <1>15, <3>2 DEF settleTaskBillingOnComplete, past
        <5> QED
          BY <5>1, <5>2, BookedMore
      <4>2. booked'[t] = q
        BY <2>1, <4>1, <4>5, <1>b, <1>d, <1>e DEF BooksMatch
      <4>3. \A a \in Pass, u \in Task : a # p \/ u # t => copy'[a][u] = copy[a][u]
        BY <4>1, CopyAt
      <4>4. \A u \in Task : u # t => booked'[u] = booked[u]
        BY <4>5
      <4> QED
        BY <4>1, <4>2, <4>3, <4>4
    <3> QED
      BY <1>15, <3>1, <3>2 DEF settleTaskBillingOnComplete
  <2>4. PassPlaces'
    BY <2>1, <2>2, <2>3, <1>b, <1>d, <1>e DEF Working, PassBilling, Open, Final, PassPlaces
  <2>5. WorksOnOpen'
    BY <2>1, <2>2, <2>3, <1>b, <1>d, <1>e DEF Working, PassBilling, Open, Final, WorksOnOpen,
       PassPlaces
  <2>6. OneBills'
    BY <2>1, <2>2, <2>3, <1>b, <1>d, <1>e DEF Working, PassBilling, Open, Final, OneBills,
       PassPlaces, WorksOnOpen
  <2>7. BooksMatch'
    BY <2>1, <2>2, <2>3, <1>b, <1>d, <1>e DEF Working, PassBilling, Open, Final, BooksMatch,
       PassPlaces, WorksOnOpen, OneBills, OpenIsCharged
  <2>8. OpenIsCharged'
    BY <2>1, <2>2, <2>3, <1>b, <1>d, <1>e DEF Working, PassBilling, Open, Final, OpenIsCharged,
       PassPlaces, WorksOnOpen, OneBills
  <2>9. NeverOverRefunded'
    BY <2>1, <2>2, <2>3, <1>b, <1>d, <1>e DEF Working, PassBilling, Open, Final,
       NeverOverRefunded, PassPlaces, BooksMatch
  <2> QED
    BY <2>4, <2>5, <2>6, <2>7, <2>8, <2>9 DEF Books
<1>16. ASSUME NEW p \in Pass, NEW t \in Task, SettleToken(p, t) PROVE (PassPlaces /\ Books)'
  <2>1. row' = row /\ snap' = snap /\ copy' = copy /\ booked' = booked
    BY <1>16 DEF SettleToken, past, booked
  <2>2. pc[p][t] = "settleToken"
    BY <1>16, <1>e DEF SettleToken, PassPlaces, Working, PassBilling
  <2>3. /\ \A q \in Pass, u \in Task : pc'[q][u] = IF q = p /\ u = t THEN "saveQuota" ELSE pc[q][u]
        /\ \A v \in Reader, u \in Task : pc'[v][u] = pc[v][u]
    BY <1>16, <2>2, GotoAt DEF SettleToken
  <2>4. /\ \A u \in Task : u # t => tokenBooked'[u] = tokenBooked[u]
        /\ tokenBooked'[t] = copy[p][t].quota
    <3> DEFINE d == copy[p][t].quota - snap[p][t].quota
    <3>1. /\ tokenPaid' = [tokenPaid EXCEPT ![t] = tokenPaid[t] + d]
          /\ tokenOwed' = tokenOwed /\ d \in Int
      BY <1>16, <1>b, <1>d DEF SettleToken, past
    <3>2. /\ tokenBooked'[t] = tokenBooked[t] + d
          /\ \A u \in Task : u # t => tokenBooked'[u] = tokenBooked[u]
      <4> HIDE DEF d
      <4> QED
        BY <3>1, TokenBookedMore
    <3>3. copy[p][t].quota \in Int /\ snap[p][t].quota \in Int
      BY <1>b, <1>d
    <3> QED
      BY <2>2, <3>2, <3>3, <1>e DEF BooksMatch
  <2>5. PassPlaces'
    BY <2>1, <2>2, <2>3, <2>4, <1>b, <1>d, <1>e DEF Working, PassBilling, Open, Final,
       PassPlaces
  <2>6. WorksOnOpen'
    BY <2>1, <2>2, <2>3, <2>4, <1>b, <1>d, <1>e DEF Working, PassBilling, Open, Final,
       WorksOnOpen, PassPlaces
  <2>7. OneBills'
    BY <2>1, <2>2, <2>3, <2>4, <1>b, <1>d, <1>e DEF Working, PassBilling, Open, Final,
       OneBills, PassPlaces, WorksOnOpen
  <2>8. BooksMatch'
    BY <2>1, <2>2, <2>3, <2>4, <1>b, <1>d, <1>e DEF Working, PassBilling, Open, Final,
       BooksMatch, PassPlaces, WorksOnOpen, OneBills, OpenIsCharged
  <2>9. OpenIsCharged'
    BY <2>1, <2>2, <2>3, <2>4, <1>b, <1>d, <1>e DEF Working, PassBilling, Open, Final,
       OpenIsCharged, PassPlaces, WorksOnOpen, OneBills
  <2>10. NeverOverRefunded'
    BY <2>1, <2>2, <2>3, <2>4, <1>b, <1>d, <1>e DEF Working, PassBilling, Open, Final,
       NeverOverRefunded, PassPlaces, BooksMatch
  <2> QED
    BY <2>5, <2>6, <2>7, <2>8, <2>9, <2>10 DEF Books
<1>17. ASSUME NEW p \in Pass, NEW t \in Task, UpdateQuotaAndPrivateData(p, t) PROVE (PassPlaces /\ Books)'
  <2>1. snap' = snap /\ copy' = copy /\ booked' = booked /\ tokenBooked' = tokenBooked
    BY <1>17 DEF UpdateQuotaAndPrivateData, books, past, booked, tokenBooked
  <2>2. pc[p][t] = "saveQuota"
    BY <1>17, <1>e DEF UpdateQuotaAndPrivateData, PassPlaces, Working, PassBilling
  <2>3. /\ \A q \in Pass, u \in Task : pc'[q][u] = IF q = p /\ u = t THEN "done" ELSE pc[q][u]
        /\ \A v \in Reader, u \in Task : pc'[v][u] = pc[v][u]
    BY <1>17, <2>2, GotoAt DEF UpdateQuotaAndPrivateData
  <2>4. /\ \A u \in Task : u # t => row'[u] = row[u]
        /\ row'[t].status = row[t].status /\ row[t].status \in Final
    <3>1. row' = [row EXCEPT ![t] = Requoted(copy[p][t].quota, row[t])] /\ copy[p][t].quota \in Quota
      BY <1>17, <1>b, RowQuota DEF UpdateQuotaAndPrivateData
    <3> QED
      BY <2>2, <3>1, <1>c, <1>e, WriteAt, RequotedType DEF OneBills, PassBilling
  <2>5. PassPlaces'
    BY <2>1, <2>2, <2>3, <2>4, <1>b, <1>d, <1>e DEF Working, PassBilling, Open, Final,
       PassPlaces
  <2>6. WorksOnOpen'
    BY <2>1, <2>2, <2>3, <2>4, <1>b, <1>d, <1>e DEF Working, PassBilling, Open, Final,
       WorksOnOpen, PassPlaces
  <2>7. OneBills'
    BY <2>1, <2>2, <2>3, <2>4, <1>b, <1>d, <1>e DEF Working, PassBilling, Open, Final,
       OneBills, PassPlaces, WorksOnOpen
  <2>8. BooksMatch'
    BY <2>1, <2>2, <2>3, <2>4, <1>b, <1>d, <1>e DEF Working, PassBilling, Open, Final,
       BooksMatch, PassPlaces, WorksOnOpen, OneBills, OpenIsCharged
  <2>9. OpenIsCharged'
    BY <2>1, <2>2, <2>3, <2>4, <1>b, <1>d, <1>e DEF Working, PassBilling, Open, Final,
       OpenIsCharged, PassPlaces, WorksOnOpen, OneBills
  <2>10. NeverOverRefunded'
    BY <2>1, <2>2, <2>3, <2>4, <1>b, <1>d, <1>e DEF Working, PassBilling, Open, Final,
       NeverOverRefunded, PassPlaces, BooksMatch
  <2> QED
    BY <2>5, <2>6, <2>7, <2>8, <2>9, <2>10 DEF Books
<1>18. ASSUME NEW p \in Pass, NEW t \in Task, StatementFails(p, t) PROVE (PassPlaces /\ Books)'
  <2>1. row' = row /\ snap' = snap /\ copy' = copy /\ booked' = booked /\ tokenBooked' = tokenBooked
    BY <1>18 DEF StatementFails, books, past, booked, tokenBooked
  <2>2. PICK x \in {"done", "saveQuota"} :
          /\ x = "saveQuota" => pc[p][t] = "settleToken"
          /\ \A q \in Pass, u \in Task : pc'[q][u] = IF q = p /\ u = t THEN x ELSE pc[q][u]
          /\ \A v \in Reader, u \in Task : pc'[v][u] = pc[v][u]
    BY <1>18, <1>e, GotoAt DEF StatementFails, AfterFailure, PassPlaces, Working, PassBilling
  <2>3. PassPlaces'
    BY <2>1, <2>2, <1>b, <1>d, <1>e DEF Working, PassBilling, Open, Final, PassPlaces
  <2>4. WorksOnOpen'
    BY <2>1, <2>2, <1>b, <1>d, <1>e DEF Working, PassBilling, Open, Final, WorksOnOpen,
       PassPlaces
  <2>5. OneBills'
    BY <2>1, <2>2, <1>b, <1>d, <1>e DEF Working, PassBilling, Open, Final, OneBills,
       PassPlaces, WorksOnOpen
  <2>6. BooksMatch'
    BY <2>1, <2>2, <1>b, <1>d, <1>e DEF Working, PassBilling, Open, Final, BooksMatch,
       PassPlaces, WorksOnOpen, OneBills, OpenIsCharged
  <2>7. OpenIsCharged'
    BY <2>1, <2>2, <1>b, <1>d, <1>e DEF Working, PassBilling, Open, Final, OpenIsCharged,
       PassPlaces, WorksOnOpen, OneBills
  <2>8. NeverOverRefunded'
    BY <2>1, <2>2, <1>b, <1>d, <1>e DEF Working, PassBilling, Open, Final, NeverOverRefunded,
       PassPlaces, BooksMatch
  <2> QED
    BY <2>3, <2>4, <2>5, <2>6, <2>7, <2>8 DEF Books
<1>19. ASSUME NEW u \in Reader, NEW t \in Task, videoFetchByID(u, t) PROVE (PassPlaces /\ Books)'
  BY <1>19 DEF videoFetchByID, SwapsOnly
<1>20. ASSUME NEW u \in Reader, NEW t \in Task, tryRealtimeFetch(u, t) PROVE (PassPlaces /\ Books)'
  BY <1>20, <1>e DEF tryRealtimeFetch, PassPlaces
<1> QED
  BY <1>1, <1>2, <1>3, <1>4, <1>5, <1>6, <1>7, <1>8, <1>9, <1>10, <1>11, <1>12, <1>13, <1>14,
     <1>15, <1>16, <1>17, <1>18, <1>19, <1>20 DEF Next, PassStep, PollStep

LEMMA SpecIInv == ASSUME SwapsOnly PROVE Spec => []IInv
<1>1. Init => IInv
  <2> SUFFICES ASSUME Init PROVE IInv
    OBVIOUS
  <2>1. TypeOK
    BY InitType
  <2>2. /\ \A p \in Actor, t \in Task : pc[p][t] = "none"
        /\ \A t \in Task : row[t].status = "absent" /\ booked[t] = 0 /\ tokenBooked[t] = 0
    BY AbsentType DEF Init, booked, tokenBooked
  <2> QED
    BY <2>1, <2>2 DEF IInv, Books, PassPlaces, WorksOnOpen, OneBills, BooksMatch,
         OpenIsCharged, NeverOverRefunded, Actor, Working, PassBilling, Open
<1>2. IInv /\ [Next]_vars => IInv'
  <2>1. ASSUME IInv, Next PROVE IInv'
    BY <2>1, TypeStep, BooksStep DEF IInv
  <2>2. ASSUME IInv, UNCHANGED vars PROVE IInv'
    <3>1. TypeOK'
      BY <2>2 DEF IInv, TypeOK, vars, books, past, booked, tokenBooked, counts
    <3>2. /\ row' = row /\ booked' = booked /\ tokenBooked' = tokenBooked
          /\ pc' = pc /\ snap' = snap /\ copy' = copy
      BY <2>2 DEF vars, books, past, booked, tokenBooked
    <3> QED
      BY <2>2, <3>1, <3>2 DEF IInv, Books, PassPlaces, WorksOnOpen, OneBills, BooksMatch,
           OpenIsCharged, NeverOverRefunded
  <2> QED
    BY <2>1, <2>2
<1> QED
  BY <1>1, <1>2, PTL DEF Spec

\* "CAS lost: user quota should NOT change (no double refund)": whatever passes overlap,
\* stall, fail or die, no task is given back more than was paid for it, as long as its row
\* is written by compare-and-swap; channels may be deleted meanwhile.
THEOREM NoDoubleRefund == ASSUME SwapsOnly PROVE Spec => []NeverOverRefunded
<1>1. IInv => NeverOverRefunded
  BY DEF IInv, Books
<1> QED
  BY <1>1, SpecIInv, PTL

\* While a task is open its charge stays what its row says, but for what the settlement at
\* submission left open.
THEOREM OpenCharged == ASSUME SwapsOnly PROVE Spec => []OpenIsCharged
<1>1. IInv => OpenIsCharged
  BY DEF IInv, Books
<1> QED
  BY <1>1, SpecIInv, PTL

\* A row that is open when a pass writes it stays what the pass made of it: with every
\* channel in place no step of any pass takes a finished task out of its status.
LEMMA FinalStep ==
    ASSUME SwapsOnly, Orphan = {}, IInv, Next, NEW t \in Task, row[t].status \in Final
    PROVE  row'[t].status = row[t].status
<1>a. TypeOK /\ PassPlaces /\ WorksOnOpen /\ row[t] \in Row
  BY DEF IInv, Books, TypeOK
<1>b. row[t].status \notin Open /\ row[t] # Absent
  BY AbsentType DEF Open, Final
<1>1. ASSUME NEW u \in Task, RelayTask(u) PROVE row'[t] = row[t]
  BY <1>1, <1>a, <1>b DEF RelayTask, TypeOK
<1>2. ASSUME NEW p \in Pass, NEW u \in Task, UpdateWithStatus(p, u) PROVE row'[t] = row[t]
  <2>1. CASE u = t
    <3>1. ~Swaps(p, t)
      BY <1>2, <2>1, <1>a, <1>b DEF UpdateWithStatus, Swaps, WorksOnOpen, Working
    <3> QED
      BY <1>2, <2>1, <3>1 DEF UpdateWithStatus
  <2>2. CASE u # t
    BY <1>2, <2>2, <1>a DEF UpdateWithStatus, TypeOK
  <2> QED
    BY <2>1, <2>2
<1>3. ASSUME NEW p \in Pass, NEW u \in Task, UpdateQuotaAndPrivateData(p, u)
      PROVE  row'[t].status = row[t].status
  <2>1. CASE u = t
    <3>1. row'[t] = Requoted(copy[p][t].quota, row[t])
      BY <1>3, <2>1, <1>a DEF UpdateQuotaAndPrivateData, TypeOK
    <3>2. copy[p][t].quota \in Quota
      BY <1>a, RowQuota DEF TypeOK, Actor
    <3>3. Requoted(copy[p][t].quota, row[t]).status = row[t].status
      BY <3>2, <1>a, RequotedType
    <3> QED
      BY <3>1, <3>3
  <2>2. CASE u # t
    BY <1>3, <2>2, <1>a DEF UpdateQuotaAndPrivateData, TypeOK
  <2> QED
    BY <2>1, <2>2
<1>4. ASSUME NEW p \in Pass, NEW u \in Task, Update(p, u) PROVE FALSE
  BY <1>4, <1>a DEF Update, PassPlaces, Working, PassBilling
<1>5. ASSUME NEW v \in Reader, NEW u \in Task, tryRealtimeFetch(v, u) PROVE FALSE
  BY <1>5, <1>a DEF tryRealtimeFetch, PassPlaces
<1>6. ASSUME NEW p \in Pass, NEW u \in Task, ChannelGone(p, u) PROVE FALSE
  BY <1>6 DEF ChannelGone
<1>7. CASE row' = row
  BY <1>7
<1> QED
  <2>1. ASSUME NEW p \in Pass, PassStep(p) \/ Crash(p) PROVE row' = row
    BY <2>1 DEF PassStep, sweepTimedOutTasks, ListUnfinished, PassEnds, Crash
  <2>2. ASSUME NEW p \in Pass, NEW u \in Task, PollStep(p, u) \/ StatementFails(p, u)
        PROVE  row'[t].status = row[t].status
    <3>1. CASE \/ updatePreparingVideoTask(p, u) \/ FetchVideo(p, u) \/ FetchSuno(p, u)
               \/ RefundTaskQuota(p, u) \/ RefundToken(p, u) \/ SettleToken(p, u)
               \/ settleTaskBillingOnComplete(p, u) \/ StatementFails(p, u)
      <4>1. row' = row
        BY <3>1 DEF StatementFails, updatePreparingVideoTask, FetchVideo, FetchSuno,
             RefundTaskQuota, RefundToken, settleTaskBillingOnComplete, SettleToken
      <4> QED
        BY <4>1
    <3> QED
      BY <2>2, <3>1, <1>2, <1>3, <1>4, <1>6 DEF PollStep
  <2>3. ASSUME NEW u \in Task, BecomesLate(u) PROVE row' = row
    BY <2>3 DEF BecomesLate
  <2>4. ASSUME NEW v \in Reader, NEW u \in Task, videoFetchByID(v, u) PROVE row' = row
    BY <2>4 DEF videoFetchByID
  <2> QED
    BY <2>1, <2>2, <2>3, <2>4, <1>1, <1>5, <1>7 DEF Next

\* A finished task stays as it finished, whoever still has an older copy of it: the swap
\* asks for a status that was open when the copy was read.
THEOREM FinalStaysTheorem == ASSUME SwapsOnly, Orphan = {} PROVE Spec => FinalStays
<1>1. IInv /\ [Next]_vars
        => [\A t \in Task : row[t].status \in Final => row'[t].status = row[t].status]_vars
  <2>1. ASSUME IInv, Next, NEW t \in Task, row[t].status \in Final
        PROVE  row'[t].status = row[t].status
    BY <2>1, FinalStep
  <2> QED
    BY <2>1
<1> QED
  BY <1>1, SpecIInv, PTL DEF Spec, FinalStays

-----------------------------------------------------------------------------
(* A finished task ends up charged what its row says *)

\* What the pass that bills a task knows of the row and the funding source, as long as no
\* statement was lost; BooksMatch says the rest.
BillerKnows(p, t) ==
    /\ pc[p][t] \in {"refund", "refundToken"} => row[t].status = "FAILURE"
    /\ pc[p][t] \in {"settle", "settleToken", "saveQuota"} => row[t].status = "SUCCESS"
    /\ pc[p][t] = "refundToken" => booked[t] = 0
    /\ pc[p][t] = "settle" => row[t].quota = snap[p][t].quota
    /\ pc[p][t] = "settleToken" => booked[t] = copy[p][t].quota
    /\ pc[p][t] = "saveQuota" => booked[t] = copy[p][t].quota /\ tokenBooked[t] = copy[p][t].quota

Billed(t) ==
    /\ tokenBooked[t] = booked[t]
    /\ booked[t] = IF row[t].status = "SUCCESS" THEN row[t].quota ELSE 0

\* A finished task is billed or its biller is at work, and knows what it must.
BillingOf(t) ==
    /\ row[t].status \in Final => Billed(t) \/ \E p \in Pass : pc[p][t] \in PassBilling
    /\ \A p \in Pass : BillerKnows(p, t)

NothingLost == faults = 0 => \A t \in Task : BillingOf(t)

\* A task whose row, books and biller a step leaves alone.
LEMMA BillingKept ==
    ASSUME NEW t \in Task, BillingOf(t),
           row'[t] = row[t], booked'[t] = booked[t], tokenBooked'[t] = tokenBooked[t],
           \A p \in Pass : pc[p][t] \in PassBilling \/ pc'[p][t] \in PassBilling =>
               pc'[p][t] = pc[p][t] /\ snap'[p][t] = snap[p][t] /\ copy'[p][t] = copy[p][t]
    PROVE  BillingOf(t)'
BY DEF BillingOf, BillerKnows, Billed, PassBilling

\* A pass that starts or ends leaves no statement of a bill undone.
LEMMA TakeAt ==
    ASSUME TypeOK, NEW p \in Pass, sweepTimedOutTasks(p) \/ ListUnfinished(p) \/ PassEnds(p),
           stage[p] = "idle" => \A t \in Task : pc[p][t] \notin PassBilling
    PROVE  /\ row' = row /\ booked' = booked /\ tokenBooked' = tokenBooked
           /\ \A q \in Pass, t \in Task :
                pc[q][t] \in PassBilling \/ pc'[q][t] \in PassBilling =>
                  pc'[q][t] = pc[q][t] /\ snap'[q][t] = snap[q][t] /\ copy'[q][t] = copy[q][t]
<1>1. row' = row /\ booked' = booked /\ tokenBooked' = tokenBooked
  BY DEF sweepTimedOutTasks, ListUnfinished, PassEnds, books, past, booked, tokenBooked
<1>2. \A q \in Pass, t \in Task : q # p =>
        pc'[q][t] = pc[q][t] /\ snap'[q][t] = snap[q][t] /\ copy'[q][t] = copy[q][t]
  BY DEF sweepTimedOutTasks, ListUnfinished, PassEnds, Take, TypeOK, Actor
<1>3. \A t \in Task : pc'[p][t] \in {"none", "save", "prepare", "fetch"}
  <2>1. CASE sweepTimedOutTasks(p)
    BY <2>1 DEF sweepTimedOutTasks, Take, TypeOK, Actor
  <2>2. CASE ListUnfinished(p)
    BY <2>2 DEF ListUnfinished, Take, TypeOK, Actor
  <2>3. CASE PassEnds(p)
    BY <2>3 DEF PassEnds, Take, TypeOK, Actor
  <2> QED
    BY <2>1, <2>2, <2>3
<1>4. \A t \in Task : pc[p][t] \notin PassBilling
  BY DEF sweepTimedOutTasks, ListUnfinished, PassEnds, AllDone, PassBilling
<1> QED
  BY <1>1, <1>2, <1>3, <1>4 DEF PassBilling

\* An idle pass is nowhere.
IdleIsNowhere == \A p \in Pass : stage[p] = "idle" => \A t \in Task : pc[p][t] = "none"

LEMMA IdleStep ==
    ASSUME TypeOK, IdleIsNowhere, Next
    PROVE  IdleIsNowhere'
<1>1. CASE UNCHANGED <<stage, pc>>
  BY <1>1 DEF IdleIsNowhere
<1>2. ASSUME NEW p \in Pass, NEW t \in Task, NEW x, Goto(p, t, x), pc[p][t] # "none", stage' = stage
      PROVE  IdleIsNowhere'
  BY <1>2, GotoAt DEF IdleIsNowhere
<1>3. ASSUME NEW u \in Reader, NEW t \in Task, NEW x, Goto(u, t, x), stage' = stage
      PROVE  IdleIsNowhere'
  <2>1. \A p \in Pass : pc'[p] = pc[p]
    BY <1>3, ActorAssumption DEF Goto, TypeOK, Actor
  <2> QED
    BY <1>3, <2>1 DEF IdleIsNowhere
<1>4. ASSUME NEW p \in Pass, PassStep(p) \/ Crash(p) PROVE IdleIsNowhere'
  <2>1. \A q \in Pass : q # p => pc'[q] = pc[q] /\ stage'[q] = stage[q]
    BY <1>4 DEF PassStep, sweepTimedOutTasks, ListUnfinished, PassEnds, Crash, Take, TypeOK,
       Actor
  <2>2. stage'[p] = "idle" => \A t \in Task : pc'[p][t] = "none"
    BY <1>4 DEF PassStep, sweepTimedOutTasks, ListUnfinished, PassEnds, Crash, Take, TypeOK,
       Actor
  <2> QED
    BY <2>1, <2>2 DEF IdleIsNowhere
<1>5. ASSUME NEW p \in Pass, NEW t \in Task, PollStep(p, t) \/ StatementFails(p, t)
      PROVE  IdleIsNowhere'
  <2>1. pc[p][t] # "none" /\ stage' = stage
    BY <1>5 DEF PollStep, StatementFails, Billing, updatePreparingVideoTask, FetchVideo,
       FetchSuno,
         ChannelGone, UpdateWithStatus, Update, RefundTaskQuota, RefundToken,
         settleTaskBillingOnComplete, SettleToken, UpdateQuotaAndPrivateData
  <2>2. \E x : Goto(p, t, x)
    BY <1>5 DEF PollStep, StatementFails, updatePreparingVideoTask, FetchVideo, FetchSuno,
         ChannelGone, UpdateWithStatus, Update, RefundTaskQuota, RefundToken,
         settleTaskBillingOnComplete, SettleToken, UpdateQuotaAndPrivateData
  <2> QED
    BY <1>2, <2>1, <2>2
<1>6. ASSUME NEW t \in Task, RelayTask(t) \/ BecomesLate(t) PROVE UNCHANGED <<stage, pc>>
  BY <1>6 DEF RelayTask, BecomesLate
<1>7. ASSUME NEW u \in Reader, NEW t \in Task, videoFetchByID(u, t) \/ tryRealtimeFetch(u, t)
      PROVE  IdleIsNowhere'
  BY <1>3, <1>7 DEF videoFetchByID, tryRealtimeFetch
<1> QED
  BY <1>1, <1>4, <1>5, <1>6, <1>7 DEF Next

\* With every channel in place, a step that loses no statement keeps every task billed or
\* about to be.
LEMMA NothingLostStep ==
    ASSUME SwapsOnly, Orphan = {}, IInv, IdleIsNowhere, NothingLost, Next
    PROVE  NothingLost'
<1> SUFFICES ASSUME faults' = 0, NEW u \in Task PROVE BillingOf(u)'
  BY DEF NothingLost
<1>a. TypeOK /\ PassPlaces /\ WorksOnOpen /\ OneBills /\ BooksMatch /\ OpenIsCharged
  BY DEF IInv, Books
<1>b. \A a \in Pass, t \in Task : copy[a][t] \in Row /\ snap[a][t] \in Row
  BY <1>a DEF TypeOK, Actor
<1>c. \A t \in Task : row[t] \in Row /\ booked[t] \in Int /\ tokenBooked[t] \in Int
  BY <1>a, BookedType DEF TypeOK
<1>d. \A r \in Row : r.quota \in Nat
  BY RowQuota
<1>e. ASSUME Fault PROVE FALSE
  BY <1>e, <1>a DEF Fault, TypeOK
<1>f. faults = 0 \/ Fault
  <2>1. ASSUME NEW p \in Pass, PassStep(p) \/ Crash(p) PROVE faults' = faults \/ Fault
    BY <2>1 DEF PassStep, sweepTimedOutTasks, ListUnfinished, PassEnds, Crash, counts
  <2>2. ASSUME NEW p \in Pass, NEW t \in Task, PollStep(p, t) \/ StatementFails(p, t)
        PROVE  faults' = faults \/ Fault
    BY <2>2 DEF PollStep, StatementFails, updatePreparingVideoTask, FetchVideo, FetchSuno,
         ChannelGone, UpdateWithStatus, Update, RefundTaskQuota, RefundToken,
         settleTaskBillingOnComplete, SettleToken, UpdateQuotaAndPrivateData, counts
  <2>3. ASSUME NEW t \in Task, RelayTask(t) \/ BecomesLate(t) PROVE faults' = faults
    BY <2>3 DEF RelayTask, BecomesLate, counts
  <2>4. ASSUME NEW r \in Reader, NEW t \in Task, videoFetchByID(r, t) \/ tryRealtimeFetch(r, t)
        PROVE  faults' = faults
    BY <2>4 DEF videoFetchByID, tryRealtimeFetch, counts
  <2> QED
    BY <2>1, <2>2, <2>3, <2>4 DEF Next
<1>g. BillingOf(u)
  BY <1>e, <1>f DEF NothingLost
<1> USE <1>a
<1>1. ASSUME NEW t \in Task, RelayTask(t) PROVE BillingOf(u)'
  <2>1. /\ row[t].status = "absent" /\ pc' = pc /\ snap' = snap /\ copy' = copy
        /\ row'[t].status \in Open \/ row'[t] = row[t]
        /\ \A v \in Task : v # t => row'[v] = row[v] /\ booked'[v] = booked[v] /\ tokenBooked'[v] = tokenBooked[v]
    BY <1>1, RelayBooks
  <2>2. CASE u # t
    BY <1>g, <2>1, <2>2, BillingKept
  <2>3. CASE u = t
    <3>1. row'[u].status \notin Final
      BY <2>1, <2>3 DEF Open, Final
    <3>2. \A p \in Pass : pc[p][u] \notin PassBilling
      BY <2>1, <2>3 DEF OneBills, Final
    <3> QED
      BY <2>1, <3>1, <3>2 DEF BillingOf, BillerKnows, PassBilling
  <2> QED
    BY <2>2, <2>3
<1>2. ASSUME NEW t \in Task, BecomesLate(t) PROVE BillingOf(u)'
  BY <1>2, <1>g, BillingKept DEF BecomesLate, books, past, booked, tokenBooked
<1>3. ASSUME NEW p \in Pass, PassStep(p) PROVE BillingOf(u)'
  <2>1. stage[p] = "idle" => \A t \in Task : pc[p][t] \notin PassBilling
    BY DEF IdleIsNowhere, PassBilling
  <2> QED
    BY <1>3, <1>g, <2>1, TakeAt, BillingKept DEF PassStep
<1>4. ASSUME NEW p \in Pass, NEW t \in Task, updatePreparingVideoTask(p, t) \/ FetchVideo(p, t)
      PROVE  BillingOf(u)'
  <2>1. row' = row /\ booked' = booked /\ tokenBooked' = tokenBooked /\ snap' = snap
    BY <1>4 DEF updatePreparingVideoTask, FetchVideo, books, past, booked, tokenBooked
  <2>2. PICK x \in {"done", "save"} : Goto(p, t, x)
    BY <1>4 DEF updatePreparingVideoTask, FetchVideo
  <2>3. copy' = copy \/ \E r : copy' = [copy EXCEPT ![p][t] = r]
    BY <1>4 DEF updatePreparingVideoTask, FetchVideo
  <2>4. \A q \in Pass : q # p \/ u # t => copy'[q][u] = copy[q][u]
    BY <2>3, CopyAt
  <2>5. pc[p][t] \notin PassBilling
    BY <1>4 DEF updatePreparingVideoTask, FetchVideo, PassBilling
  <2>6. \A q \in Pass : pc'[q][u] = IF q = p /\ u = t THEN x ELSE pc[q][u]
    BY <2>2, GotoAt
  <2> QED
    BY <1>g, <2>1, <2>4, <2>5, <2>6, BillingKept DEF PassBilling
<1>5. ASSUME NEW p \in Pass, NEW t \in Task, UpdateWithStatus(p, t) PROVE BillingOf(u)'
  <2>1. /\ booked' = booked /\ tokenBooked' = tokenBooked /\ snap' = snap /\ copy' = copy
        /\ pc[p][t] = "save"
    BY <1>5 DEF UpdateWithStatus, books, past, booked, tokenBooked
  <2>2. PICK x : Goto(p, t, x) /\ (Swaps(p, t) => x = AfterSwap(copy[p][t])) /\ (~Swaps(p, t) => x = "done")
    BY <1>5 DEF UpdateWithStatus
  <2>3. \A q \in Pass, v \in Task : pc'[q][v] = IF q = p /\ v = t THEN x ELSE pc[q][v]
    BY <2>2, GotoAt
  <2>4. CASE ~Swaps(p, t)
    <3>1. row' = row
      BY <1>5, <2>4 DEF UpdateWithStatus
    <3> QED
      BY <1>g, <2>1, <2>2, <2>3, <2>4, <3>1, BillingKept DEF PassBilling
  <2>5. CASE Swaps(p, t) /\ u # t
    <3>1. row'[u] = row[u]
      BY <1>5, <2>5 DEF UpdateWithStatus, TypeOK
    <3> QED
      BY <1>g, <2>1, <2>3, <2>5, <3>1, BillingKept
  <2>6. CASE Swaps(p, t) /\ u = t
    <3>1. row'[u] = copy[p][u]
      BY <1>5, <2>6 DEF UpdateWithStatus, TypeOK
    <3>2. /\ row[u].status \in Open
          /\ snap[p][u].quota = row[u].quota /\ copy[p][u].quota = row[u].quota
      BY <2>1, <2>6 DEF WorksOnOpen, Swaps, Working
    <3>3. \A q \in Pass : pc[q][u] \notin PassBilling
      BY <3>2 DEF OneBills, Open, Final
    <3>4. x = AfterSwap(row'[u]) /\ row'[u].quota = snap'[p][u].quota
      BY <2>1, <2>2, <2>6, <3>1, <3>2
    <3>5. \A q \in Pass : q # p => pc'[q][u] \notin PassBilling
      BY <2>3, <3>3
    <3>6. pc'[p][u] = AfterSwap(row'[u])
      BY <2>3, <2>6, <3>4
    <3>7. row'[u].status \in Final => pc'[p][u] \in PassBilling
      BY <3>6 DEF AfterSwap, Final, PassBilling
    <3>8. \A q \in Pass : BillerKnows(q, u)'
      <4>1. BillerKnows(p, u)'
        BY <3>4, <3>6 DEF BillerKnows, AfterSwap
      <4>2. \A q \in Pass : q # p => BillerKnows(q, u)'
        BY <3>5 DEF BillerKnows, PassBilling
      <4> QED
        BY <4>1, <4>2
    <3> QED
      BY <3>7, <3>8 DEF BillingOf
  <2> QED
    BY <2>4, <2>5, <2>6
<1>6. ASSUME NEW p \in Pass, NEW t \in Task, NEW x \in {"done", "refundToken", "settleToken", "saveQuota"},
             Goto(p, t, x), pc[p][t] \in PassBilling,
             \A v \in Task : v # t => row'[v] = row[v] /\ booked'[v] = booked[v] /\ tokenBooked'[v] = tokenBooked[v],
             snap' = snap,
             \A q \in Pass, v \in Task : q # p \/ v # t => copy'[q][v] = copy[q][v],
             u = t => BillerKnows(p, t)' /\ (x = "done" => Billed(t)')
      PROVE  BillingOf(u)'
  <2>1. \A q \in Pass : pc'[q][u] = IF q = p /\ u = t THEN x ELSE pc[q][u]
    BY <1>6, GotoAt
  <2>2. CASE u # t
    <3>1. \A q \in Pass : pc'[q][u] = pc[q][u] /\ snap'[q][u] = snap[q][u] /\ copy'[q][u] = copy[q][u]
      BY <1>6, <2>1, <2>2
    <3> QED
      BY <1>6, <1>g, <2>2, <3>1, BillingKept
  <2>3. CASE u = t
    <3>1. \A q \in Pass : q # p => pc'[q][u] \notin PassBilling
      BY <1>6, <2>1, <2>3 DEF OneBills
    <3>2. \A q \in Pass : BillerKnows(q, u)'
      <4>1. \A q \in Pass : q # p => BillerKnows(q, u)'
        BY <3>1 DEF BillerKnows, PassBilling
      <4> QED
        BY <1>6, <2>3, <4>1
    <3>3. Billed(u)' \/ pc'[p][u] \in PassBilling
      BY <1>6, <2>1, <2>3 DEF PassBilling
    <3> QED
      BY <3>2, <3>3 DEF BillingOf
  <2> QED
    BY <2>2, <2>3
<1>7. ASSUME NEW p \in Pass, NEW t \in Task PROVE u = t => BillerKnows(p, t)
  BY <1>7, <1>g DEF BillingOf
<1>8. ASSUME NEW p \in Pass, NEW t \in Task, RefundTaskQuota(p, t) PROVE BillingOf(u)'
  <2>1. pc[p][t] = "refund" /\ Goto(p, t, "refundToken") /\ pc[p][t] \in PassBilling
    BY <1>8 DEF RefundTaskQuota, PassPlaces, Working, PassBilling
  <2>2. /\ row' = row /\ snap' = snap /\ copy' = copy /\ tokenBooked' = tokenBooked
        /\ paid' = [paid EXCEPT ![t] = paid[t] - copy[p][t].quota] /\ owed' = owed
    BY <1>8 DEF RefundTaskQuota, past, tokenBooked
  <2>3. booked'[t] = 0 /\ \A v \in Task : v # t => booked'[v] = booked[v]
    <3>1. copy[p][t].quota \in Int
      BY <1>b, <1>d
    <3>2. /\ booked'[t] = booked[t] - copy[p][t].quota
          /\ \A v \in Task : v # t => booked'[v] = booked[v]
      BY <2>2, <3>1, BookedLess
    <3> QED
      BY <2>1, <3>1, <3>2 DEF BooksMatch
  <2>4. pc'[p][t] = "refundToken"
    BY <2>1, GotoAt
  <2>5. u = t => BillerKnows(p, t)'
    BY <1>7, <2>1, <2>2, <2>3, <2>4 DEF BillerKnows
  <2> QED
    BY <1>6, <2>1, <2>2, <2>3, <2>5
<1>9. ASSUME NEW p \in Pass, NEW t \in Task, RefundToken(p, t) PROVE BillingOf(u)'
  <2>1. pc[p][t] = "refundToken" /\ Goto(p, t, "done") /\ pc[p][t] \in PassBilling
    BY <1>9 DEF RefundToken, PassPlaces, Working, PassBilling
  <2>2. /\ row' = row /\ snap' = snap /\ copy' = copy /\ booked' = booked
        /\ tokenPaid' = [tokenPaid EXCEPT ![t] = tokenPaid[t] - copy[p][t].quota] /\ tokenOwed' = tokenOwed
    BY <1>9 DEF RefundToken, past, booked
  <2>3. tokenBooked'[t] = 0 /\ \A v \in Task : v # t => tokenBooked'[v] = tokenBooked[v]
    <3>1. copy[p][t].quota \in Int
      BY <1>b, <1>d
    <3>2. /\ tokenBooked'[t] = tokenBooked[t] - copy[p][t].quota
          /\ \A v \in Task : v # t => tokenBooked'[v] = tokenBooked[v]
      BY <2>2, <3>1, TokenBookedLess
    <3> QED
      BY <2>1, <3>1, <3>2 DEF BooksMatch
  <2>4. pc'[p][t] = "done"
    BY <2>1, GotoAt
  <2>5. u = t => BillerKnows(p, t)' /\ Billed(t)'
    BY <1>7, <2>1, <2>2, <2>3, <2>4 DEF BillerKnows, Billed
  <2> QED
    BY <1>6, <2>1, <2>2, <2>3, <2>5
<1>10. ASSUME NEW p \in Pass, NEW t \in Task, settleTaskBillingOnComplete(p, t) PROVE BillingOf(u)'
  <2>1. pc[p][t] = "settle" /\ pc[p][t] \in PassBilling /\ row' = row /\ snap' = snap /\ tokenBooked' = tokenBooked
    BY <1>10 DEF settleTaskBillingOnComplete, PassBilling, past, tokenBooked
  <2>2. booked[t] = snap[p][t].quota /\ tokenBooked[t] = snap[p][t].quota
    BY <2>1 DEF BooksMatch
  <2>3. CASE Goto(p, t, "done") /\ UNCHANGED <<paid, copy>>
    <3>1. pc'[p][t] = "done"
      BY <2>3, GotoAt
    <3>2. booked' = booked
      BY <1>10, <2>3 DEF settleTaskBillingOnComplete, past, booked
    <3>3. u = t => BillerKnows(p, t)' /\ Billed(t)'
      BY <1>7, <2>1, <2>2, <2>3, <3>1, <3>2 DEF BillerKnows, Billed
    <3> QED
      BY <1>6, <2>1, <2>3, <3>2, <3>3
  <2>4. ASSUME NEW q \in ActualQuota, copy' = [copy EXCEPT ![p][t] = Requoted(q, @)],
               paid' = [paid EXCEPT ![t] = @ + (q - snap[p][t].quota)], Goto(p, t, "settleToken")
        PROVE  BillingOf(u)'
    <3>1. copy' = [copy EXCEPT ![p][t] = Requoted(q, copy[p][t])] /\ q \in Nat /\ q \in Quota
      BY <2>4, QuotaAssumption DEF Quota
    <3>2. booked'[t] = q /\ \A v \in Task : v # t => booked'[v] = booked[v]
      <4>1. snap[p][t].quota \in Int /\ q - snap[p][t].quota \in Int
        BY <3>1, <1>b, <1>d
      <4>2. owed' = owed /\ paid' = [paid EXCEPT ![t] = paid[t] + (q - snap[p][t].quota)]
        BY <1>10, <2>4 DEF settleTaskBillingOnComplete, past
      <4>3. /\ booked'[t] = booked[t] + (q - snap[p][t].quota)
            /\ \A v \in Task : v # t => booked'[v] = booked[v]
        BY <4>1, <4>2, BookedMore
      <4> QED
        BY <2>2, <3>1, <4>1, <4>3
    <3>3. /\ copy'[p][t] = Requoted(q, copy[p][t])
          /\ \A a \in Pass, v \in Task : a # p \/ v # t => copy'[a][v] = copy[a][v]
      <4> DEFINE y == Requoted(q, copy[p][t])
      <4>1. copy' = [copy EXCEPT ![p][t] = y]
        BY <3>1
      <4> HIDE DEF y
      <4>2. \A a \in Pass, v \in Task : copy'[a][v] = IF a = p /\ v = t THEN y ELSE copy[a][v]
        BY <4>1 DEF TypeOK, Actor
      <4> QED
        BY <4>2 DEF y
    <3>4. copy'[p][t].quota = q
      BY <3>1, <3>3, <1>b, RequotedType
    <3>5. pc'[p][t] = "settleToken"
      BY <2>4, GotoAt
    <3>6. u = t => BillerKnows(p, t)'
      BY <1>7, <2>1, <3>2, <3>4, <3>5 DEF BillerKnows
    <3> QED
      BY <1>6, <2>1, <2>4, <3>2, <3>3, <3>6
  <2> QED
    BY <1>10, <2>3, <2>4 DEF settleTaskBillingOnComplete
<1>11. ASSUME NEW p \in Pass, NEW t \in Task, SettleToken(p, t) PROVE BillingOf(u)'
  <2>1. pc[p][t] = "settleToken" /\ Goto(p, t, "saveQuota") /\ pc[p][t] \in PassBilling
    BY <1>11 DEF SettleToken, PassBilling
  <2>2. /\ row' = row /\ snap' = snap /\ copy' = copy /\ booked' = booked
        /\ tokenPaid' = [tokenPaid EXCEPT ![t] = tokenPaid[t] + (copy[p][t].quota - snap[p][t].quota)]
        /\ tokenOwed' = tokenOwed
    BY <1>11 DEF SettleToken, past, booked
  <2>3. tokenBooked'[t] = copy[p][t].quota /\ \A v \in Task : v # t => tokenBooked'[v] = tokenBooked[v]
    <3>1. /\ copy[p][t].quota \in Int /\ snap[p][t].quota \in Int
          /\ copy[p][t].quota - snap[p][t].quota \in Int
      BY <1>b, <1>d
    <3>2. /\ tokenBooked'[t] = tokenBooked[t] + (copy[p][t].quota - snap[p][t].quota)
          /\ \A v \in Task : v # t => tokenBooked'[v] = tokenBooked[v]
      BY <2>2, <3>1, TokenBookedMore
    <3> QED
      BY <2>1, <3>1, <3>2 DEF BooksMatch
  <2>4. pc'[p][t] = "saveQuota"
    BY <2>1, GotoAt
  <2>5. u = t => BillerKnows(p, t)'
    BY <1>7, <2>1, <2>2, <2>3, <2>4 DEF BillerKnows
  <2> QED
    BY <1>6, <2>1, <2>2, <2>3, <2>5
<1>12. ASSUME NEW p \in Pass, NEW t \in Task, UpdateQuotaAndPrivateData(p, t) PROVE BillingOf(u)'
  <2>1. pc[p][t] = "saveQuota" /\ Goto(p, t, "done") /\ pc[p][t] \in PassBilling
    BY <1>12 DEF UpdateQuotaAndPrivateData, PassBilling
  <2>2. /\ snap' = snap /\ copy' = copy /\ booked' = booked /\ tokenBooked' = tokenBooked
        /\ row' = [row EXCEPT ![t] = Requoted(copy[p][t].quota, row[t])]
    BY <1>12 DEF UpdateQuotaAndPrivateData, books, past, booked, tokenBooked
  <2>3. row'[t] = Requoted(copy[p][t].quota, row[t]) /\ \A v \in Task : v # t => row'[v] = row[v]
    <3> DEFINE y == Requoted(copy[p][t].quota, row[t])
    <3>1. row' = [row EXCEPT ![t] = y]
      BY <2>2
    <3> HIDE DEF y
    <3>2. \A v \in Task : row'[v] = IF v = t THEN y ELSE row[v]
      BY <3>1, WriteAt
    <3> QED
      BY <3>2 DEF y
  <2>4. row'[t].status = row[t].status /\ row'[t].quota = copy[p][t].quota
    BY <2>3, <1>b, <1>c, RequotedType, RowQuota
  <2>5. pc'[p][t] = "done"
    BY <2>1, GotoAt
  <2>6. u = t => BillerKnows(p, t)' /\ Billed(t)'
    BY <1>7, <2>1, <2>2, <2>4, <2>5 DEF BillerKnows, Billed
  <2> QED
    BY <1>6, <2>1, <2>2, <2>3, <2>6
<1>13. ASSUME NEW p \in Pass, NEW t \in Task, FetchSuno(p, t) \/ ChannelGone(p, t) \/ Update(p, t)
       PROVE  FALSE
  BY <1>13 DEF FetchSuno, ChannelGone, Update, SwapsOnly, PassPlaces, Working, PassBilling
<1>14. ASSUME NEW r \in Reader, NEW t \in Task, videoFetchByID(r, t) \/ tryRealtimeFetch(r, t)
       PROVE  FALSE
  BY <1>14 DEF videoFetchByID, tryRealtimeFetch, SwapsOnly, PassPlaces
<1>15. ASSUME NEW p \in Pass, Crash(p) \/ \E t \in Task : StatementFails(p, t) PROVE FALSE
  BY <1>15, <1>e DEF Crash, StatementFails
<1> QED
  BY <1>1, <1>2, <1>3, <1>4, <1>5, <1>8, <1>9, <1>10, <1>11, <1>12, <1>13, <1>14, <1>15
  DEF Next, PollStep

\* When nobody is billing a finished task and no statement of a pass was lost, a success is
\* charged what its row says, from both accounts, and a failure has got that back, however
\* many passes overlap: the pass that closed the row made every statement of the bill.
THEOREM FinishedBilled == ASSUME SwapsOnly, Orphan = {} PROVE Spec => []FinishedIsBilled
<1>1. Init => IdleIsNowhere /\ NothingLost
  <2> SUFFICES ASSUME Init PROVE IdleIsNowhere /\ NothingLost
    OBVIOUS
  <2>1. /\ \A p \in Pass, t \in Task : pc[p][t] = "none"
        /\ \A t \in Task : row[t].status = "absent"
    BY AbsentType DEF Init, Actor
  <2> QED
    BY <2>1 DEF IdleIsNowhere, NothingLost, BillingOf, BillerKnows, Final
<1>2. IInv /\ IdleIsNowhere /\ NothingLost /\ [Next]_vars => (IdleIsNowhere /\ NothingLost)'
  <2>1. ASSUME IInv, IdleIsNowhere, NothingLost, Next PROVE (IdleIsNowhere /\ NothingLost)'
    BY <2>1, IdleStep, NothingLostStep DEF IInv
  <2>2. ASSUME IdleIsNowhere, NothingLost, UNCHANGED vars PROVE (IdleIsNowhere /\ NothingLost)'
    BY <2>2 DEF vars, books, past, booked, tokenBooked, counts, IdleIsNowhere, NothingLost, BillingOf, BillerKnows, Billed
  <2> QED
    BY <2>1, <2>2
<1>3. NothingLost => FinishedIsBilled
  BY DEF NothingLost, BillingOf, Billed, FinishedIsBilled, PassBilling, Billing
<1> QED
  BY <1>1, <1>2, <1>3, SpecIInv, PTL DEF Spec

=============================================================================
