---------------------------- MODULE ReportsProofs ----------------------------
(***************************************************************************)
(* The safety of the report pipeline for every number of reports, of       *)
(* workers that die and start, and of links a search finds.                *)
(*                                                                         *)
(* Reports meet only through the workers, so the inductive invariant is a  *)
(* conjunction over the reports.  It says where the task may stand for     *)
(* each status of the row (StatusInv), which ads are at work then          *)
(* (AdsInv), what progress_lock protects (LockInv), that `completed`       *)
(* counts the ads that took the lock (CountInv), what is true once every   *)
(* ad has returned (ResultInv), and when the user is told (ToldInv).       *)
(***************************************************************************)
EXTENDS Reports, FiniteSetTheorems, TLAPS

\* Where a task may stand for each status of its row.
StatusInv(r) ==
  /\ row[r].status = "absent" => pc[r] = "none"
  /\ row[r].status = "pending" => pc[r] \in {"queued", "starting", "lost", "gone"}
  /\ row[r].status \in {"running", "failed"} =>
        pc[r] \notin {"none", "queued", "starting", "record done", "notify done"}
  /\ row[r].status = "running" =>
        pc[r] \notin {"record failed", "notify failed", "ended"}
  /\ row[r].status = "done" =>
        pc[r] \in {"record done", "notify done", "ended", "gone"}

\* States before the links are there.
Before == {"none", "queued", "starting", "collecting", "empty"}
Complete == {"summary", "built", "record done", "notify done"}

\* The ads at work are among those that are analysed, none before the links
\* are known and none once the worker is dead.
AdsInv(r) ==
  /\ \A a \in AdId : ad[r][a] # "none" => a <= Total(r)
  /\ pc[r] \in Before \cup {"gone"} => \A a \in AdId : ad[r][a] = "none"
  /\ pc[r] \in Before => completed[r] = 0 /\ row[r].analyzed = 0
  /\ pc[r] = "gathering" => row[r].found > 0

Failed(r) == \E a \in AdId : ad[r][a] = "failed"

\* progress_lock: its holder is the ad about to store the count, the last
\* one; without a holder the row holds the last count, unless a commit failed.
LockInv(r) ==
  /\ \A a \in AdId : ad[r][a] = "writing" <=> lock[r] = a
  /\ lock[r] # 0 => count[r][lock[r]] = completed[r]
  /\ row[r].analyzed <= completed[r]
  /\ (lock[r] = 0 /\ pc[r] # "gone" /\ ~ Failed(r)) => row[r].analyzed = completed[r]

Counted(r) == {a \in AdId : ad[r][a] \in {"writing", "done", "failed"}}

\* `completed` counts the ads that took the lock; an ad that failed may have
\* failed before that.
CountInv(r) ==
  pc[r] # "gone" => /\ completed[r] <= Cardinality(Counted(r))
                    /\ ~ Failed(r) => completed[r] = Cardinality(Counted(r))

\* Once gather() has returned, every ad is analysed and in the row, and no ad
\* is left that could change it.
ResultInv(r) ==
  /\ (pc[r] \in Complete \/ row[r].status = "done") =>
        /\ row[r].found > 0
        /\ row[r].analyzed = Total(r)
        /\ \A a \in AdId : ad[r][a] \in {"none", "done"}
  /\ (pc[r] = "built" \/ row[r].status = "done") => file[r]

\* The user is told after the row says so, and by a task that changes the row
\* no more.
ToldInv(r) ==
  /\ told[r] \cap {"outcome done", "mail done"} # {} => row[r].status = "done"
  /\ told[r] \cap {"outcome failed", "mail failed"} # {} =>
        row[r].status = "failed" /\ pc[r] \in {"notify failed", "ended", "gone"}
  /\ told[r] \cap {"outcome done", "outcome failed"} # {} => "started" \in told[r]

\* A task runs on a live worker, or is over.
HomeInv(r) == pc[r] \notin {"none", "gone"} => home[r] \in alive

ReportInv(r) == /\ StatusInv(r) /\ AdsInv(r) /\ LockInv(r) /\ CountInv(r)
                /\ ResultInv(r) /\ ToldInv(r) /\ HomeInv(r)

\* The inductive invariant.
IInv == TypeOK /\ \A r \in Reports : ReportInv(r)

-----------------------------------------------------------------------------
(* What the steps have in common.                                          *)

\* What a step leaves alone when it is about another report.
Untouched(q) == /\ row'[q] = row[q] /\ pc'[q] = pc[q] /\ ad'[q] = ad[q]
                /\ completed'[q] = completed[q] /\ lock'[q] = lock[q]
                /\ count'[q] = count[q] /\ file'[q] = file[q] /\ told'[q] = told[q]

\* A report that a step does not touch keeps its invariant.
LEMMA UntouchedInv ==
  ASSUME NEW q, ReportInv(q), Untouched(q), home' = home, alive \subseteq alive'
  PROVE  ReportInv(q)'
<1>1. Total(q)' = Total(q) /\ Counted(q)' = Counted(q) /\ Failed(q)' = Failed(q)
  BY DEF Untouched, Total, Counted, Failed
<1>2. StatusInv(q)' /\ AdsInv(q)' /\ ToldInv(q)' /\ HomeInv(q)'
  BY <1>1 DEF ReportInv, Untouched, StatusInv, AdsInv, ToldInv, HomeInv
<1>3. LockInv(q)' /\ CountInv(q)' /\ ResultInv(q)'
  BY <1>1 DEF ReportInv, Untouched, LockInv, CountInv, ResultInv
<1> QED BY <1>2, <1>3 DEF ReportInv

\* A number of ads is a number.
LEMMA TotalType ==
  ASSUME TypeOK, NEW r \in Reports
  PROVE  /\ Total(r) \in 0 .. MaxFound
         /\ Total(r) <= row[r].found
         /\ row[r].found > 0 => Total(r) > 0
<1>1. row[r].found \in 0 .. MaxFound
  BY DEF TypeOK, Row
<1> QED BY <1>1, ReportsAssumption DEF Total

\* Whoever has the lock is a task of an ad.
LEMMA LockType ==
  ASSUME TypeOK, NEW r \in Reports
  PROVE  lock[r] \in AdId \cup {0}
<1>1. lock[r] \in 0 .. MaxFound
  BY DEF TypeOK
<1> QED BY <1>1, ReportsAssumption DEF AdId

\* The counters are numbers.
LEMMA CountTypes ==
  ASSUME TypeOK, NEW r \in Reports, NEW a \in AdId
  PROVE  /\ completed[r] \in 0 .. MaxFound /\ completed[r] \in Nat
         /\ row[r].analyzed \in 0 .. MaxFound /\ row[r].analyzed \in Nat
         /\ count[r][a] \in 0 .. MaxFound
         /\ a \in 0 .. MaxFound /\ a # 0
<1>1. completed[r] \in 0 .. MaxFound
  BY DEF TypeOK
<1>2. row[r].analyzed \in 0 .. MaxFound
  BY DEF TypeOK, Row
<1>3. count[r][a] \in 0 .. MaxFound
  BY DEF TypeOK
<1>4. a \in 0 .. MaxFound /\ a # 0
  BY ReportsAssumption DEF AdId
<1> QED BY <1>1, <1>2, <1>3, <1>4, ReportsAssumption

\* The counted ads are finitely many.
LEMMA CountedFinite ==
  ASSUME NEW r
  PROVE  IsFiniteSet(Counted(r)) /\ Cardinality(Counted(r)) \in Nat
<1>1. IsFiniteSet(AdId)
  BY ReportsAssumption, FS_Interval DEF AdId
<1>2. Counted(r) \subseteq AdId
  BY DEF Counted
<1> QED BY <1>1, <1>2, FS_Subset, FS_CardinalityType

\* A step that keeps the ads and what the row says of them, whatever becomes
\* of the status and of the task, as long as its worker lives.
LEMMA AdsKept ==
  ASSUME NEW r, ReportInv(r), UNCHANGED adVars, pc[r] # "gone",
         row'[r].found = row[r].found, row'[r].limited = row[r].limited,
         row'[r].analyzed = row[r].analyzed
  PROVE  /\ Total(r)' = Total(r)
         /\ LockInv(r)' /\ CountInv(r)'
         /\ \A a \in AdId : ad'[r][a] # "none" => a <= Total(r)'
<1>1. Total(r)' = Total(r) /\ Counted(r)' = Counted(r) /\ Failed(r)' = Failed(r)
  BY DEF adVars, Total, Counted, Failed
<1>2. LockInv(r)'
  BY <1>1 DEF ReportInv, adVars, LockInv
<1>3. CountInv(r)'
  BY <1>1 DEF ReportInv, adVars, CountInv
<1>4. \A a \in AdId : ad'[r][a] # "none" => a <= Total(r)'
  BY <1>1 DEF ReportInv, adVars, AdsInv
<1> QED BY <1>1, <1>2, <1>3, <1>4

-----------------------------------------------------------------------------
(* The steps of the pipeline before its result.                            *)

\* The invariant holds at first.
LEMMA InitInv == Init => IInv
<1> SUFFICES ASSUME Init PROVE IInv
  OBVIOUS
<1>1. TypeOK
  BY ReportsAssumption DEF Init, TypeOK, Row, AbsentRow, Status, TaskState, AdState
<1>2. ASSUME NEW r \in Reports PROVE ReportInv(r)
  <2>1. /\ row[r] = AbsentRow /\ pc[r] = "none" /\ completed[r] = 0 /\ lock[r] = 0
        /\ \A a \in AdId : ad[r][a] = "none"
        /\ told[r] = {}
    BY DEF Init
  <2>2. Counted(r) = {} /\ ~ Failed(r)
    BY <2>1 DEF Counted, Failed
  <2>3. StatusInv(r) /\ AdsInv(r) /\ ResultInv(r) /\ ToldInv(r) /\ HomeInv(r)
    BY <2>1 DEF StatusInv, AdsInv, ResultInv, ToldInv, HomeInv, AbsentRow, Complete
  <2>4. LockInv(r)
    BY <2>1 DEF LockInv, AbsentRow, AdId
  <2>5. CountInv(r)
    BY <2>1, <2>2, FS_EmptySet DEF CountInv
  <2> QED BY <2>3, <2>4, <2>5 DEF ReportInv
<1> QED BY <1>1, <1>2 DEF IInv

\* The action keeps the invariant.
LEMMA AnalyzeInv ==
  ASSUME IInv, NEW r \in Reports, Analyze(r)
  PROVE  IInv'
<1>1. TypeOK /\ ReportInv(r)
  BY DEF IInv
<1>2. PICK limited \in BOOLEAN :
         row' = [row EXCEPT ![r] = [AbsentRow EXCEPT !.status = "pending",
                                                     !.limited = limited]]
  BY DEF Analyze
<1>3. TypeOK'
  <2>1. row' \in [Reports -> Row]
    <3>1. [AbsentRow EXCEPT !.status = "pending", !.limited = limited] \in Row
      <4>1. AbsentRow \in Row
        BY ReportsAssumption DEF Row, AbsentRow, Status
      <4> QED BY <4>1 DEF Row, Status
    <3> QED BY <1>1, <1>2, <3>1 DEF TypeOK
  <2> QED BY <1>1, <2>1 DEF Analyze, Goto, TypeOK, taskVars, adVars, TaskState
<1>4. /\ row'[r].status = "pending" /\ row'[r].analyzed = 0 /\ row'[r].found = 0
      /\ pc[r] = "none" /\ pc'[r] = "queued" /\ UNCHANGED <<alive, home, adVars, told>>
  BY <1>1, <1>2 DEF Analyze, Goto, TypeOK, taskVars, AbsentRow
<1>5. /\ \A a \in AdId : ad[r][a] = "none"
      /\ completed[r] = 0
  BY <1>1, <1>4 DEF ReportInv, AdsInv, Before
<1>6. ReportInv(r)'
  <2>1. StatusInv(r)' /\ AdsInv(r)' /\ ResultInv(r)' /\ ToldInv(r)'
    BY <1>1, <1>4, <1>5
    DEF ReportInv, StatusInv, AdsInv, ResultInv, ToldInv, Before, Complete, adVars
  <2>2. LockInv(r)' /\ CountInv(r)'
    <3>1. Counted(r)' = Counted(r) /\ Failed(r)' = Failed(r) /\ row[r].analyzed = 0
      BY <1>1, <1>4 DEF ReportInv, AdsInv, Before, Counted, Failed, adVars
    <3>2. LockInv(r)'
      BY <1>1, <1>4, <1>5, <3>1 DEF ReportInv, LockInv, adVars
    <3>3. CountInv(r)'
      BY <1>1, <1>4, <3>1 DEF ReportInv, CountInv, adVars
    <3> QED BY <3>2, <3>3
  <2>3. HomeInv(r)'
    BY <1>4 DEF HomeInv, Analyze
  <2> QED BY <2>1, <2>2, <2>3 DEF ReportInv
<1>7. ASSUME NEW q \in Reports, q # r PROVE ReportInv(q)'
  <2>1. Untouched(q)
    BY <1>1, <1>2, <1>7 DEF Analyze, Goto, TypeOK, Untouched, taskVars, adVars
  <2> QED BY <2>1, UntouchedInv DEF IInv, Analyze
<1> QED BY <1>3, <1>6, <1>7 DEF IInv

-----------------------------------------------------------------------------
(* The steps of run_analysis that leave the ads alone.                     *)

\* A step of the task of report r, but for its ads and their counters.
Moves(r) == /\ UNCHANGED <<alive, home, adVars>>
            /\ pc[r] \notin {"none", "gone"} /\ pc'[r] # "gone"
            /\ pc'[r] \in Before \cup {"gathering"} => pc[r] \in Before /\ pc'[r] # "gathering"
            /\ row'[r].found = row[r].found /\ row'[r].limited = row[r].limited
            /\ row'[r].analyzed = row[r].analyzed
            /\ \A q \in Reports \ {r} : Untouched(q)

\* It keeps the invariant if it keeps the parts about status, result and news.
LEMMA MovesInv ==
  ASSUME IInv, NEW r \in Reports, Moves(r), TypeOK',
         StatusInv(r)', ResultInv(r)', ToldInv(r)'
  PROVE  IInv'
<1>1. ReportInv(r) /\ UNCHANGED <<alive, home, adVars>>
  BY DEF IInv, Moves
<1>2. LockInv(r)' /\ CountInv(r)' /\ \A a \in AdId : ad'[r][a] # "none" => a <= Total(r)'
  BY <1>1, AdsKept DEF Moves
<1>3. AdsInv(r)'
  BY <1>1, <1>2 DEF Moves, ReportInv, AdsInv, adVars
<1>4. HomeInv(r)'
  BY <1>1 DEF Moves, ReportInv, HomeInv
<1>5. ASSUME NEW q \in Reports, q # r PROVE ReportInv(q)'
  BY <1>1, <1>5, UntouchedInv DEF IInv, Moves
<1> QED BY <1>2, <1>3, <1>4, <1>5 DEF IInv, ReportInv

\* A commit that sets a row's status.
LEMMA SetStatus ==
  ASSUME TypeOK, NEW r \in Reports, NEW status \in Status,
         row' = [row EXCEPT ![r].status = status]
  PROVE  /\ row' \in [Reports -> Row]
         /\ row'[r].status = status
         /\ row'[r].found = row[r].found /\ row'[r].limited = row[r].limited
         /\ row'[r].analyzed = row[r].analyzed
         /\ \A q \in Reports \ {r} : row'[q] = row[q]
<1>1. row[r] \in Row
  BY DEF TypeOK
<1>2. row'[r] = [row[r] EXCEPT !.status = status]
  BY DEF TypeOK
<1>3. [row[r] EXCEPT !.status = status] \in Row
  BY <1>1 DEF Row
<1>4. row' \in [Reports -> Row]
  BY <1>2, <1>3 DEF TypeOK
<1>5. \A q \in Reports \ {r} : row'[q] = row[q]
  BY DEF TypeOK
<1> QED BY <1>1, <1>2, <1>4, <1>5 DEF Row

\* The action keeps the invariant.
LEMMA RecordStartedInv ==
  ASSUME IInv, NEW r \in Reports, RecordStarted(r)
  PROVE  IInv'
<1>1. TypeOK /\ ReportInv(r)
  BY DEF IInv
<1>2. TypeOK'
  BY <1>1 DEF RecordStarted, Goto, TypeOK, taskVars, adVars, TaskState
<1>3. /\ pc[r] = "queued" /\ pc'[r] = "starting" /\ row' = row /\ file' = file
      /\ told[r] \subseteq told'[r] /\ told'[r] \subseteq told[r] \cup {"started"}
  BY <1>1 DEF RecordStarted, Goto, TypeOK, taskVars
<1>4. Moves(r)
  BY <1>1, <1>3
  DEF RecordStarted, Goto, TypeOK, Moves, Untouched, Before, taskVars, adVars
<1>5. StatusInv(r)' /\ ResultInv(r)'
  BY <1>1, <1>3 DEF ReportInv, StatusInv, ResultInv, Complete
<1>6. ToldInv(r)'
  BY <1>1, <1>3 DEF ReportInv, ToldInv
<1> QED BY <1>2, <1>4, <1>5, <1>6, MovesInv

\* The action keeps the invariant.
LEMMA MarkRunningInv ==
  ASSUME IInv, NEW r \in Reports, MarkRunning(r)
  PROVE  IInv'
<1>1. TypeOK /\ ReportInv(r)
  BY DEF IInv
<1>2. row' \in [Reports -> Row] /\ Moves(r) /\ told'[r] = told[r]
      /\ \/ pc'[r] = "collecting" /\ row'[r].status = "running"
         \/ pc'[r] = "lost" /\ row'[r].status = row[r].status
  <2>1. CASE Goto(r, "starting", "collecting") /\ row' = [row EXCEPT ![r].status = "running"]
    BY <1>1, <2>1, SetStatus
    DEF MarkRunning, Goto, TypeOK, Status, Moves, Untouched, Before, taskVars, adVars
  <2>2. CASE Goto(r, "starting", "lost") /\ UNCHANGED row
    BY <1>1, <2>2
    DEF MarkRunning, Goto, TypeOK, Moves, Untouched, Before, taskVars, adVars
  <2> QED BY <2>1, <2>2 DEF MarkRunning
<1>3. TypeOK'
  BY <1>1, <1>2 DEF MarkRunning, Goto, TypeOK, taskVars, adVars, TaskState
<1>4. pc[r] = "starting"
  BY DEF MarkRunning, Goto
<1>5. row[r].status = "pending"
  BY <1>1, <1>4 DEF ReportInv, StatusInv, TypeOK, Row, Status
<1>6. StatusInv(r)' /\ ResultInv(r)' /\ ToldInv(r)'
  BY <1>1, <1>2, <1>4, <1>5 DEF ReportInv, StatusInv, ResultInv, ToldInv, Complete
<1> QED BY <1>2, <1>3, <1>6, MovesInv

\* The action keeps the invariant.
LEMMA GatherDoneInv ==
  ASSUME IInv, NEW r \in Reports, GatherDone(r)
  PROVE  IInv'
<1>1. TypeOK /\ ReportInv(r)
  BY DEF IInv
<1>2. TypeOK'
  BY <1>1 DEF GatherDone, Goto, TypeOK, taskVars, adVars, TaskState
<1>3. /\ pc[r] = "gathering" /\ pc'[r] = "summary"
      /\ UNCHANGED <<alive, home, row, taskVars, told>>
  BY <1>1 DEF GatherDone, Goto, TypeOK
<1>4. Moves(r)
  BY <1>1, <1>3 DEF GatherDone, Goto, TypeOK, Moves, Untouched, Before, taskVars, adVars
<1>5. /\ \A a \in AdId : ad[r][a] \in {"none", "done"}
      /\ \A a \in AdId : ad[r][a] = "done" <=> a <= Total(r)
  BY <1>1, TotalType DEF GatherDone, ReportInv, AdsInv, AdId
<1>6. row[r].found > 0 /\ row[r].analyzed = Total(r)
  <2>1. ~ Failed(r)
    BY <1>5 DEF Failed
  <2>2. Cardinality(Counted(r)) = Total(r)
    <3>1. Counted(r) = {a \in AdId : a <= Total(r)}
      BY <1>5 DEF Counted
    <3>2. Counted(r) = 1 .. Total(r)
      BY <1>1, <3>1, TotalType, ReportsAssumption DEF AdId
    <3> QED BY <1>1, <3>2, TotalType, FS_Interval
  <2>3. lock[r] = 0
    <3> SUFFICES ASSUME lock[r] # 0 PROVE FALSE
      OBVIOUS
    <3>1. lock[r] \in AdId
      BY <1>1, LockType
    <3>2. ad[r][lock[r]] = "writing"
      BY <1>1, <3>1 DEF ReportInv, LockInv
    <3> QED BY <1>5, <3>1, <3>2
  <2> QED BY <1>1, <1>3, <2>1, <2>2, <2>3 DEF ReportInv, LockInv, CountInv, AdsInv
<1>7. ResultInv(r)'
  BY <1>3, <1>5, <1>6, <1>1 DEF ResultInv, ReportInv, Total, taskVars, adVars
<1>8. StatusInv(r)' /\ ToldInv(r)'
  BY <1>1, <1>3 DEF ReportInv, StatusInv, ToldInv
<1> QED BY <1>2, <1>4, <1>7, <1>8, MovesInv

\* The action keeps the invariant.
LEMMA BuildReportInv ==
  ASSUME IInv, NEW r \in Reports, BuildReport(r)
  PROVE  IInv'
<1>1. TypeOK /\ ReportInv(r)
  BY DEF IInv
<1>2. TypeOK'
  BY <1>1 DEF BuildReport, Goto, TypeOK, adVars, TaskState
<1>3. /\ pc[r] = "summary" /\ pc'[r] = "built" /\ file'[r] = TRUE
      /\ UNCHANGED <<alive, home, row, adVars, told>>
  BY <1>1 DEF BuildReport, Goto, TypeOK
<1>4. Moves(r)
  BY <1>1, <1>3 DEF BuildReport, Goto, TypeOK, Moves, Untouched, Before, adVars
<1>5. StatusInv(r)' /\ ResultInv(r)' /\ ToldInv(r)'
  BY <1>1, <1>3 DEF ReportInv, StatusInv, ResultInv, ToldInv, Complete, Total, adVars
<1> QED BY <1>2, <1>4, <1>5, MovesInv

\* The action keeps the invariant.
LEMMA StoreDoneInv ==
  ASSUME IInv, NEW r \in Reports, StoreDone(r)
  PROVE  IInv'
<1>1. TypeOK /\ ReportInv(r)
  BY DEF IInv
<1>2. /\ row' = [row EXCEPT ![r].status = "done"] /\ pc' = [pc EXCEPT ![r] = "record done"]
      /\ pc[r] = "built" /\ UNCHANGED <<alive, home, taskVars, told, restarted>>
  BY DEF StoreDone, Goto
<1>3. /\ row' \in [Reports -> Row] /\ row'[r].status = "done"
      /\ row'[r].found = row[r].found /\ row'[r].limited = row[r].limited
      /\ row'[r].analyzed = row[r].analyzed
      /\ \A q \in Reports \ {r} : row'[q] = row[q]
  BY <1>1, <1>2, SetStatus DEF Status
<1>4. TypeOK'
  BY <1>1, <1>2, <1>3 DEF TypeOK, taskVars, adVars, TaskState
<1>5. Moves(r)
  BY <1>1, <1>2, <1>3 DEF TypeOK, Moves, Untouched, Before, taskVars, adVars
<1>6. StatusInv(r)' /\ ResultInv(r)'
  BY <1>1, <1>2, <1>3
  DEF TypeOK, ReportInv, StatusInv, ResultInv, Complete, Total, taskVars, adVars
<1>7. ToldInv(r)'
  BY <1>1, <1>2, <1>3 DEF ReportInv, ToldInv
<1> QED BY <1>4, <1>5, <1>6, <1>7, MovesInv

\* The action keeps the invariant.
LEMMA RaiseInv ==
  ASSUME IInv, NEW r \in Reports, Raise(r)
  PROVE  IInv'
<1>1. TypeOK /\ ReportInv(r)
  BY DEF IInv
<1>2. TypeOK'
  BY <1>1 DEF Raise, TypeOK, taskVars, adVars, TaskState
<1>3. /\ pc[r] \in {"collecting", "empty", "gathering", "summary", "built"}
      /\ pc'[r] = "raised" /\ UNCHANGED <<alive, home, row, taskVars, told>>
  BY <1>1 DEF Raise, TypeOK
<1>4. Moves(r)
  BY <1>1, <1>3 DEF Raise, TypeOK, Moves, Untouched, Before, taskVars, adVars
<1>5. StatusInv(r)' /\ ResultInv(r)' /\ ToldInv(r)'
  BY <1>1, <1>3
  DEF TypeOK, Row, Status, ReportInv, StatusInv, ResultInv, ToldInv, Complete, Total, taskVars, adVars
<1> QED BY <1>2, <1>4, <1>5, MovesInv

\* The action keeps the invariant.
LEMMA StoreFailedInv ==
  ASSUME IInv, NEW r \in Reports, StoreFailed(r)
  PROVE  IInv'
<1>1. TypeOK /\ ReportInv(r)
  BY DEF IInv
<1>2. /\ row' = [row EXCEPT ![r].status = "failed"]
      /\ pc' = [pc EXCEPT ![r] = "record failed"] /\ pc[r] \in {"empty", "raised"}
      /\ UNCHANGED <<alive, home, taskVars, told, restarted>>
  BY DEF StoreFailed
<1>3. /\ row' \in [Reports -> Row] /\ row'[r].status = "failed"
      /\ row'[r].found = row[r].found /\ row'[r].limited = row[r].limited
      /\ row'[r].analyzed = row[r].analyzed
      /\ \A q \in Reports \ {r} : row'[q] = row[q]
  BY <1>1, <1>2, SetStatus DEF Status
<1>4. TypeOK'
  BY <1>1, <1>2, <1>3 DEF TypeOK, taskVars, adVars, TaskState
<1>5. Moves(r)
  BY <1>1, <1>2, <1>3 DEF TypeOK, Moves, Untouched, Before, taskVars, adVars
<1>6. pc'[r] = "record failed"
  BY <1>1, <1>2 DEF TypeOK
<1>7. StatusInv(r)' /\ ResultInv(r)' /\ ToldInv(r)'
  BY <1>1, <1>2, <1>3, <1>6 DEF ReportInv, StatusInv, ResultInv, ToldInv, Complete
<1> QED BY <1>4, <1>5, <1>7, MovesInv

\* The action keeps the invariant.
LEMMA LoseTaskInv ==
  ASSUME IInv, NEW r \in Reports, LoseTask(r)
  PROVE  IInv'
<1>1. TypeOK /\ ReportInv(r)
  BY DEF IInv
<1>2. TypeOK'
  BY <1>1 DEF LoseTask, Goto, TypeOK, taskVars, adVars, TaskState
<1>3. /\ pc[r] = "raised" /\ pc'[r] = "lost"
      /\ UNCHANGED <<alive, home, row, taskVars, told>>
  BY <1>1 DEF LoseTask, Goto, TypeOK
<1>4. Moves(r)
  BY <1>1, <1>3 DEF LoseTask, Goto, TypeOK, Moves, Untouched, Before, taskVars, adVars
<1>5. StatusInv(r)' /\ ResultInv(r)' /\ ToldInv(r)'
  BY <1>1, <1>3 DEF ReportInv, StatusInv, ResultInv, ToldInv, Complete
<1> QED BY <1>2, <1>4, <1>5, MovesInv

News == {"started", "outcome done", "outcome failed", "mail done", "mail failed"}

\* The action keeps the invariant.
LEMMA RecordOutcomeInv ==
  ASSUME IInv, NEW r \in Reports, RecordOutcome(r)
  PROVE  IInv'
<1>1. TypeOK /\ ReportInv(r)
  BY DEF IInv
<1>2. PICK news \in SUBSET News : Tell(r, news)
  <2>1. CASE UNCHANGED told
    <3>1. told[r] \cup {} = told[r] /\ told = [told EXCEPT ![r] = told[r]]
      BY <1>1 DEF TypeOK
    <3>2. Tell(r, {})
      BY <2>1, <3>1 DEF Tell
    <3> QED BY <3>2
  <2>2. CASE Tell(r, {"outcome done"})
    BY <2>2 DEF News
  <2>3. CASE Tell(r, {"outcome failed"})
    BY <2>3 DEF News
  <2>4. UNCHANGED told \/ Tell(r, {"outcome done"}) \/ Tell(r, {"outcome failed"})
    BY DEF RecordOutcome
  <2> QED BY <2>1, <2>2, <2>3, <2>4
<1>3. TypeOK'
  <2>1. told' \in [Reports -> SUBSET News]
    BY <1>1, <1>2 DEF TypeOK, Tell, News
  <2> QED BY <1>1, <2>1
          DEF RecordOutcome, Goto, TypeOK, News, taskVars, adVars, TaskState
<1>4. /\ UNCHANGED <<alive, home, row, taskVars>>
      /\ \/ /\ pc[r] = "record done" /\ pc'[r] = "notify done"
            /\ told'[r] = told[r] \cup {"outcome done"} /\ "started" \in told[r]
         \/ /\ pc[r] = "record failed" /\ pc'[r] = "notify failed"
            /\ told'[r] = told[r] \cup {"outcome failed"} /\ "started" \in told[r]
         \/ /\ \/ pc[r] = "record done" /\ pc'[r] = "notify done"
               \/ pc[r] = "record failed" /\ pc'[r] = "notify failed"
            /\ told'[r] = told[r]
  BY <1>1 DEF RecordOutcome, Goto, Tell, TypeOK
<1>5. Moves(r)
  BY <1>1, <1>2, <1>4
  DEF RecordOutcome, Goto, Tell, TypeOK, Moves, Untouched, Before, taskVars, adVars
<1>6. /\ pc[r] = "record done" => row[r].status = "done"
      /\ pc[r] = "record failed" => row[r].status = "failed"
  BY <1>1 DEF ReportInv, StatusInv, TypeOK, Row, Status
<1>7. StatusInv(r)' /\ ResultInv(r)'
  BY <1>1, <1>4, <1>6
  DEF ReportInv, StatusInv, ResultInv, Complete, Total, taskVars, adVars
<1>8. ToldInv(r)'
  BY <1>1, <1>4, <1>6 DEF ReportInv, ToldInv
<1> QED BY <1>3, <1>5, <1>7, <1>8, MovesInv

\* The action keeps the invariant.
LEMMA NotifyInv ==
  ASSUME IInv, NEW r \in Reports, Notify(r)
  PROVE  IInv'
<1>1. TypeOK /\ ReportInv(r)
  BY DEF IInv
<1>2. PICK news \in SUBSET News : Tell(r, news)
  <2>1. CASE UNCHANGED told
    <3>1. told[r] \cup {} = told[r] /\ told = [told EXCEPT ![r] = told[r]]
      BY <1>1 DEF TypeOK
    <3>2. Tell(r, {})
      BY <2>1, <3>1 DEF Tell
    <3> QED BY <3>2
  <2>2. CASE Tell(r, {"mail done"})
    BY <2>2 DEF News
  <2>3. CASE Tell(r, {"mail failed"})
    BY <2>3 DEF News
  <2>4. UNCHANGED told \/ Tell(r, {"mail done"}) \/ Tell(r, {"mail failed"})
    BY DEF Notify
  <2> QED BY <2>1, <2>2, <2>3, <2>4
<1>3. TypeOK'
  <2>1. told' \in [Reports -> SUBSET News]
    BY <1>1, <1>2 DEF TypeOK, Tell, News
  <2> QED BY <1>1, <2>1 DEF Notify, Goto, TypeOK, News, taskVars, adVars, TaskState
<1>4. /\ UNCHANGED <<alive, home, row, taskVars>> /\ pc'[r] = "ended"
      /\ \/ pc[r] = "notify done" /\ told'[r] = told[r] \cup {"mail done"}
         \/ pc[r] = "notify failed" /\ told'[r] = told[r] \cup {"mail failed"}
         \/ pc[r] \in {"notify done", "notify failed"} /\ told'[r] = told[r]
  BY <1>1 DEF Notify, Goto, Tell, TypeOK
<1>5. Moves(r)
  BY <1>1, <1>2, <1>4
  DEF Notify, Goto, Tell, TypeOK, Moves, Untouched, Before, taskVars, adVars
<1>6. /\ pc[r] = "notify done" => row[r].status = "done"
      /\ pc[r] = "notify failed" => row[r].status = "failed"
  BY <1>1 DEF ReportInv, StatusInv, TypeOK, Row, Status
<1>7. StatusInv(r)' /\ ResultInv(r)'
  BY <1>1, <1>4, <1>6
  DEF ReportInv, StatusInv, ResultInv, Complete, Total, taskVars, adVars
<1>8. ToldInv(r)'
  BY <1>1, <1>4, <1>6 DEF ReportInv, ToldInv
<1> QED BY <1>3, <1>5, <1>7, <1>8, MovesInv

-----------------------------------------------------------------------------
(* The user's switch, and the workers.                                     *)

\* A step after which a report's task and ads stand where they stood, and its
\* row differs in nothing but the switch.
LEMMA NotifyOnlyInv ==
  ASSUME NEW r, ReportInv(r), UNCHANGED <<alive, home, pc, taskVars, told>>,
         row'[r].status = row[r].status,
         row'[r].found = row[r].found, row'[r].limited = row[r].limited,
         row'[r].analyzed = row[r].analyzed
  PROVE  ReportInv(r)'
<1>1. Total(r)' = Total(r) /\ Counted(r)' = Counted(r) /\ Failed(r)' = Failed(r)
  BY DEF taskVars, adVars, Total, Counted, Failed
<1>2. StatusInv(r)' /\ AdsInv(r)' /\ ToldInv(r)' /\ HomeInv(r)'
  BY <1>1 DEF ReportInv, taskVars, adVars, StatusInv, AdsInv, ToldInv, HomeInv
<1>3. LockInv(r)' /\ ResultInv(r)'
  BY <1>1 DEF ReportInv, taskVars, adVars, LockInv, ResultInv
<1>4. CountInv(r)'
  BY <1>1 DEF ReportInv, taskVars, adVars, CountInv
<1> QED BY <1>2, <1>3, <1>4 DEF ReportInv

\* The action keeps the invariant.
LEMMA ToggleNotifyInv ==
  ASSUME IInv, NEW r \in Reports, ToggleNotify(r)
  PROVE  IInv'
<1>1. TypeOK /\ UNCHANGED <<alive, home, pc, taskVars, told, restarted>>
  BY DEF IInv, ToggleNotify
<1>2. row[r] \in Row /\ row'[r] = [row[r] EXCEPT !.notify = ~ @]
  BY <1>1 DEF ToggleNotify, TypeOK
<1>3. row'[r] \in Row
  BY <1>2 DEF Row
<1>4. \A q \in Reports \ {r} : row'[q] = row[q]
  BY <1>1 DEF ToggleNotify, TypeOK
<1>5. TypeOK'
  <2>1. row' \in [Reports -> Row]
    BY <1>1, <1>3, <1>4 DEF ToggleNotify, TypeOK
  <2> QED BY <1>1, <2>1 DEF TypeOK, taskVars, adVars
<1>6. ReportInv(r)'
  BY <1>1, <1>2, NotifyOnlyInv DEF IInv, Row
<1>7. ASSUME NEW q \in Reports, q # r PROVE ReportInv(q)'
  BY <1>1, <1>4, <1>7, NotifyOnlyInv DEF IInv
<1> QED BY <1>5, <1>6, <1>7 DEF IInv

-----------------------------------------------------------------------------
(* The ads.                                                                *)

\* The action keeps the invariant.
LEMMA CollectLinksInv ==
  ASSUME IInv, NEW r \in Reports, CollectLinks(r)
  PROVE  IInv'
<1>1. TypeOK /\ ReportInv(r)
  BY DEF IInv
<1>2. PICK n \in 0 .. MaxFound :
         /\ row' = [row EXCEPT ![r].found = n]
         /\ pc' = [pc EXCEPT ![r] = IF n = 0 THEN "empty" ELSE "gathering"]
         /\ ad' = [ad EXCEPT ![r] =
                     [a \in AdId |-> IF a <= Total(r)' THEN "scraping" ELSE "none"]]
  BY DEF CollectLinks
<1>3. /\ pc[r] = "collecting"
      /\ UNCHANGED <<alive, home, completed, lock, count, file, told, restarted>>
  BY DEF CollectLinks
<1>4. row' \in [Reports -> Row]
  <2>1. [row[r] EXCEPT !.found = n] \in Row
    BY <1>1 DEF TypeOK, Row
  <2> QED BY <1>1, <1>2, <2>1 DEF TypeOK
<1>5. /\ row'[r].found = n /\ row'[r].status = row[r].status
      /\ row'[r].analyzed = row[r].analyzed
      /\ pc'[r] = (IF n = 0 THEN "empty" ELSE "gathering")
      /\ \A a \in AdId : ad'[r][a] = (IF a <= Total(r)' THEN "scraping" ELSE "none")
  <2>1. row[r] \in Row /\ row'[r] = [row[r] EXCEPT !.found = n]
    BY <1>1, <1>2 DEF TypeOK
  <2>2. pc'[r] = (IF n = 0 THEN "empty" ELSE "gathering")
    BY <1>1, <1>2 DEF TypeOK
  <2>3. ad'[r] = [a \in AdId |-> IF a <= Total(r)' THEN "scraping" ELSE "none"]
    BY <1>1, <1>2 DEF TypeOK
  <2> QED BY <2>1, <2>2, <2>3 DEF Row
<1>6. TypeOK'
  <2>1. ad' \in [Reports -> [AdId -> AdState]]
    BY <1>1, <1>2 DEF TypeOK, AdState
  <2>2. pc' \in [Reports -> TaskState]
    BY <1>1, <1>2 DEF TypeOK, TaskState
  <2> QED BY <1>1, <1>3, <1>4, <2>1, <2>2 DEF TypeOK
<1>7. /\ completed[r] = 0 /\ row[r].analyzed = 0 /\ lock[r] = 0
      /\ row[r].status \in {"running", "failed"}
  <2>1. completed[r] = 0 /\ row[r].analyzed = 0 /\ \A a \in AdId : ad[r][a] = "none"
    BY <1>1, <1>3 DEF ReportInv, AdsInv, Before
  <2>2. lock[r] = 0
    BY <1>1, <2>1, LockType DEF ReportInv, LockInv
  <2>3. row[r].status \in {"running", "failed"}
    BY <1>1, <1>3 DEF ReportInv, StatusInv, TypeOK, Row, Status
  <2> QED BY <2>1, <2>2, <2>3
<1>8. ReportInv(r)'
  <2>1. n = 0 => \A a \in AdId : ad'[r][a] = "none"
    BY <1>5, ReportsAssumption DEF Total, AdId
  <2>2. AdsInv(r)'
    BY <1>3, <1>5, <1>7, <2>1 DEF AdsInv, Before
  <2>3. LockInv(r)'
    BY <1>3, <1>5, <1>7, LockType DEF LockInv, AdId
  <2>4. Counted(r)' = {}
    BY <1>5 DEF Counted
  <2>5. CountInv(r)'
    BY <1>3, <1>7, <2>4, FS_EmptySet DEF CountInv
  <2>6. StatusInv(r)' /\ ResultInv(r)' /\ ToldInv(r)' /\ HomeInv(r)'
    BY <1>1, <1>3, <1>5, <1>7
    DEF ReportInv, StatusInv, ResultInv, ToldInv, HomeInv, Complete
  <2> QED BY <2>2, <2>3, <2>5, <2>6 DEF ReportInv
<1>9. ASSUME NEW q \in Reports, q # r PROVE ReportInv(q)'
  <2>1. Untouched(q)
    BY <1>1, <1>2, <1>3, <1>9 DEF TypeOK, Untouched
  <2> QED BY <1>3, <2>1, UntouchedInv DEF IInv
<1> QED BY <1>6, <1>8, <1>9 DEF IInv

\* What every step of an ad at work does.
AdMoves(r, a) ==
  /\ ad[r][a] \notin {"none", "done"}
  /\ \A b \in AdId \ {a} : ad'[r][b] = ad[r][b]
  /\ UNCHANGED <<alive, home, pc, file, told>>
  /\ row'[r].status = row[r].status /\ row'[r].found = row[r].found
  /\ row'[r].limited = row[r].limited
  /\ \A q \in Reports \ {r} : Untouched(q)

\* A step of one ad keeps the invariant if it keeps the lock and the count.
LEMMA AdMovesInv ==
  ASSUME IInv, NEW r \in Reports, NEW a \in AdId, AdMoves(r, a),
         TypeOK', LockInv(r)', CountInv(r)'
  PROVE  IInv'
<1>1. ReportInv(r) /\ UNCHANGED <<alive, home, pc, file, told>>
  BY DEF IInv, AdMoves
<1>2. pc[r] \notin Before \cup Complete \cup {"gone"} /\ row[r].status # "done"
  BY <1>1 DEF ReportInv, AdsInv, ResultInv, AdMoves
<1>3. Total(r)' = Total(r)
  BY DEF AdMoves, Total
<1>4. AdsInv(r)'
  BY <1>1, <1>2, <1>3 DEF AdMoves, ReportInv, AdsInv
<1>5. StatusInv(r)' /\ ToldInv(r)' /\ HomeInv(r)'
  BY <1>1 DEF AdMoves, ReportInv, StatusInv, ToldInv, HomeInv
<1>6. ResultInv(r)'
  BY <1>1, <1>2 DEF AdMoves, ReportInv, ResultInv, Complete
<1>7. ASSUME NEW q \in Reports, q # r PROVE ReportInv(q)'
  BY <1>1, <1>7, UntouchedInv DEF IInv, AdMoves
<1> QED BY <1>4, <1>5, <1>6, <1>7 DEF IInv, ReportInv

\* A step that sets the state of an ad.
LEMMA SetAd ==
  ASSUME TypeOK, NEW r \in Reports, NEW a \in AdId, NEW state \in AdState,
         ad' = [ad EXCEPT ![r][a] = state]
  PROVE  /\ ad' \in [Reports -> [AdId -> AdState]]
         /\ ad'[r][a] = state
         /\ \A b \in AdId \ {a} : ad'[r][b] = ad[r][b]
         /\ \A q \in Reports \ {r} : ad'[q] = ad[q]
BY DEF TypeOK

\* Before it takes the lock, an ad changes nothing that is counted; if it
\* fails, `completed` may only stay behind.
LEMMA AdWaitsInv ==
  ASSUME IInv, NEW r \in Reports, NEW a \in AdId,
         NEW state \in {"analyzing", "counting", "failed"},
         ad[r][a] \in {"scraping", "analyzing"},
         ad' = [ad EXCEPT ![r][a] = state],
         UNCHANGED <<alive, home, row, pc, completed, lock, count, file, told, restarted>>
  PROVE  IInv'
<1>1. TypeOK /\ ReportInv(r)
  BY DEF IInv
<1>2. /\ ad' \in [Reports -> [AdId -> AdState]] /\ ad'[r][a] = state
      /\ \A b \in AdId \ {a} : ad'[r][b] = ad[r][b]
      /\ \A q \in Reports \ {r} : ad'[q] = ad[q]
  <2>1. state \in AdState
    BY DEF AdState
  <2> QED BY <1>1, <2>1, SetAd
<1>3. TypeOK'
  BY <1>1, <1>2 DEF TypeOK
<1>4. AdMoves(r, a)
  BY <1>2 DEF AdMoves, Untouched
<1>5. Failed(r)' <=> Failed(r) \/ state = "failed"
  BY <1>2 DEF Failed
<1>6. LockInv(r)'
  BY <1>1, <1>2, <1>5 DEF ReportInv, LockInv
<1>7. CountInv(r)'
  <2>1. Counted(r)' = (IF state = "failed" THEN Counted(r) \cup {a} ELSE Counted(r))
    BY <1>2 DEF Counted
  <2>2. /\ Cardinality(Counted(r)) <= Cardinality(Counted(r)')
        /\ state # "failed" => Cardinality(Counted(r)') = Cardinality(Counted(r))
    BY <2>1, CountedFinite, FS_AddElement
  <2>3. /\ completed[r] \in Nat /\ completed'[r] = completed[r] /\ pc' = pc
        /\ Cardinality(Counted(r)) \in Nat
    BY <1>1, CountTypes, CountedFinite
  <2>4. Cardinality(Counted(r)') \in Nat
    <3>1. IsFiniteSet(Counted(r)) /\ IsFiniteSet(Counted(r) \cup {a})
      BY CountedFinite, FS_AddElement
    <3> QED BY <2>1, <3>1, FS_CardinalityType
  <2> QED BY <1>1, <1>5, <2>2, <2>3, <2>4 DEF ReportInv, CountInv
<1> QED BY <1>3, <1>4, <1>6, <1>7, AdMovesInv

\* The action keeps the invariant.
LEMMA ScrapeAdInv ==
  ASSUME IInv, NEW r \in Reports, NEW a \in AdId, ScrapeAd(r, a)
  PROVE  IInv'
BY AdWaitsInv DEF ScrapeAd, AdGoto

\* The action keeps the invariant.
LEMMA AnalyzeAdInv ==
  ASSUME IInv, NEW r \in Reports, NEW a \in AdId, AnalyzeAd(r, a)
  PROVE  IInv'
BY AdWaitsInv DEF AnalyzeAd, AdGoto

\* The action keeps the invariant.
LEMMA CountAdInv ==
  ASSUME IInv, NEW r \in Reports, NEW a \in AdId, CountAd(r, a)
  PROVE  IInv'
<1>1. TypeOK /\ ReportInv(r)
  BY DEF IInv
<1>2. /\ ad[r][a] = "counting" /\ ad' = [ad EXCEPT ![r][a] = "writing"]
      /\ lock[r] = 0 /\ UNCHANGED <<alive, home, row, pc, file, told, restarted>>
  BY DEF CountAd, AdGoto
<1>3. /\ ad' \in [Reports -> [AdId -> AdState]] /\ ad'[r][a] = "writing"
      /\ \A b \in AdId \ {a} : ad'[r][b] = ad[r][b]
      /\ \A q \in Reports \ {r} : ad'[q] = ad[q]
  BY <1>1, <1>2, SetAd DEF AdState
<1>4. /\ lock'[r] = a /\ completed'[r] = completed[r] + 1
      /\ count'[r][a] = completed[r] + 1
      /\ \A q \in Reports \ {r} :
            lock'[q] = lock[q] /\ completed'[q] = completed[q] /\ count'[q] = count[q]
  BY <1>1 DEF CountAd, TypeOK
<1>5. pc[r] # "gone"
  BY <1>1, <1>2 DEF ReportInv, AdsInv
<1>6. /\ Counted(r)' = Counted(r) \cup {a} /\ a \notin Counted(r)
      /\ Failed(r)' <=> Failed(r)
  BY <1>2, <1>3 DEF Counted, Failed
<1>7. /\ Cardinality(Counted(r)') = Cardinality(Counted(r)) + 1
      /\ Cardinality(Counted(r)) \in Nat
  BY <1>6, CountedFinite, FS_AddElement
<1>8. completed[r] \in Nat /\ CountInv(r)'
  <2>1. completed[r] \in Nat
    BY <1>1, CountTypes
  <2> QED BY <1>1, <1>2, <1>4, <1>5, <1>6, <1>7, <2>1 DEF ReportInv, CountInv
<1>9. completed[r] + 1 <= MaxFound
  <2>1. Counted(r)' \subseteq AdId
    BY DEF Counted
  <2>2. IsFiniteSet(AdId) /\ Cardinality(AdId) = MaxFound
    BY ReportsAssumption, FS_Interval DEF AdId
  <2>3. Cardinality(Counted(r)') <= MaxFound
    BY <2>1, <2>2, FS_Subset
  <2> QED BY <1>1, <1>5, <1>7, <1>8, <2>3, ReportsAssumption DEF ReportInv, CountInv
<1>10. TypeOK'
  <2>0. completed[r] + 1 \in 0 .. MaxFound
    BY <1>8, <1>9, ReportsAssumption
  <2>1. completed' \in [Reports -> 0 .. MaxFound]
    BY <1>1, <2>0 DEF CountAd, TypeOK
  <2>2. lock' \in [Reports -> 0 .. MaxFound]
    BY <1>1, CountTypes DEF CountAd, TypeOK
  <2>3. count' \in [Reports -> [AdId -> 0 .. MaxFound]]
    BY <1>1, <1>4, <2>0 DEF CountAd, TypeOK
  <2> QED BY <1>1, <1>2, <1>3, <2>1, <2>2, <2>3 DEF TypeOK
<1>11. AdMoves(r, a)
  BY <1>2, <1>3, <1>4 DEF AdMoves, Untouched
<1>12. LockInv(r)'
  <2>1. row[r].analyzed \in Nat /\ a # 0
    BY <1>1, CountTypes
  <2>2. \A b \in AdId : ad'[r][b] = "writing" <=> lock'[r] = b
    BY <1>1, <1>2, <1>3, <1>4, <2>1, LockType, ReportsAssumption
    DEF ReportInv, LockInv, AdId
  <2> QED BY <1>1, <1>2, <1>4, <1>8, <2>1, <2>2 DEF ReportInv, LockInv
<1> QED BY <1>8, <1>10, <1>11, <1>12, AdMovesInv

\* The action keeps the invariant.
LEMMA WriteProgressInv ==
  ASSUME IInv, NEW r \in Reports, NEW a \in AdId, WriteProgress(r, a)
  PROVE  IInv'
<1>1. TypeOK /\ ReportInv(r)
  BY DEF IInv
<1>2. /\ lock' = [lock EXCEPT ![r] = 0]
      /\ count' = [count EXCEPT ![r][a] = 0]
      /\ UNCHANGED <<alive, home, pc, completed, file, told, restarted>>
      /\ \E state \in {"done", "failed"} :
            /\ AdGoto(r, a, "writing", state)
            /\ \/ state = "done" /\ row' = [row EXCEPT ![r].analyzed = count[r][a]]
               \/ state = "failed" /\ row' = row
  BY DEF WriteProgress
<1>2a. PICK state \in {"done", "failed"} :
            /\ AdGoto(r, a, "writing", state)
            /\ \/ state = "done" /\ row' = [row EXCEPT ![r].analyzed = count[r][a]]
               \/ state = "failed" /\ row' = row
  BY <1>2
<1>3. /\ ad[r][a] = "writing" /\ ad'[r][a] = state
      /\ ad' \in [Reports -> [AdId -> AdState]]
      /\ \A b \in AdId \ {a} : ad'[r][b] = ad[r][b]
      /\ \A q \in Reports \ {r} : ad'[q] = ad[q]
  <2>1. state \in AdState
    BY DEF AdState
  <2> QED BY <1>1, <1>2a, <2>1, SetAd DEF AdGoto
<1>4. /\ lock[r] = a /\ count[r][a] = completed[r]
      /\ completed[r] \in 0 .. MaxFound /\ row[r].analyzed \in 0 .. MaxFound
      /\ lock'[r] = 0 /\ UNCHANGED <<alive, home, pc, completed, file, told, restarted>>
      /\ \A q \in Reports \ {r} : lock'[q] = lock[q] /\ count'[q] = count[q]
  <2>1. lock[r] = a /\ a # 0
    BY <1>1, <1>3, CountTypes DEF ReportInv, LockInv
  <2>2. count[r][a] = completed[r]
    BY <1>1, <2>1 DEF ReportInv, LockInv
  <2> QED BY <1>1, <1>2, <2>1, <2>2, CountTypes DEF TypeOK
<1>5. /\ row' \in [Reports -> Row]
      /\ row'[r].status = row[r].status /\ row'[r].found = row[r].found
      /\ row'[r].limited = row[r].limited
      /\ row'[r].analyzed = (IF state = "done" THEN completed[r] ELSE row[r].analyzed)
      /\ \A q \in Reports \ {r} : row'[q] = row[q]
  <2>1. \/ state = "done" /\ row' = [row EXCEPT ![r].analyzed = completed[r]]
        \/ state = "failed" /\ row' = row
    BY <1>2a, <1>4
  <2>2. CASE state = "done" /\ row' = [row EXCEPT ![r].analyzed = completed[r]]
    <3>1. row[r] \in Row /\ row'[r] = [row[r] EXCEPT !.analyzed = completed[r]]
      BY <1>1, <2>2 DEF TypeOK
    <3>2. row'[r] \in Row
      BY <1>4, <3>1 DEF Row
    <3>3. \A q \in Reports \ {r} : row'[q] = row[q]
      BY <1>1, <2>2 DEF TypeOK
    <3>4. row' \in [Reports -> Row]
      BY <1>1, <2>2, <3>1, <3>2 DEF TypeOK
    <3> QED BY <2>2, <3>1, <3>3, <3>4 DEF Row
  <2>3. CASE state = "failed" /\ row' = row
    BY <1>1, <2>3 DEF TypeOK
  <2> QED BY <2>1, <2>2, <2>3
<1>6. TypeOK'
  <2>0. 0 \in 0 .. MaxFound
    BY ReportsAssumption
  <2>1. lock' \in [Reports -> 0 .. MaxFound]
    BY <1>1, <1>2, <2>0 DEF TypeOK
  <2>2. count' \in [Reports -> [AdId -> 0 .. MaxFound]]
    BY <1>1, <1>2, <2>0 DEF TypeOK
  <2> QED BY <1>1, <1>3, <1>4, <1>5, <2>1, <2>2 DEF TypeOK
<1>7. AdMoves(r, a)
  BY <1>3, <1>4, <1>5 DEF AdMoves, Untouched
<1>8. Counted(r)' = Counted(r) /\ (Failed(r)' <=> Failed(r) \/ state = "failed")
  BY <1>3 DEF Counted, Failed
<1>9. LockInv(r)'
  <2>1. \A b \in AdId : ad'[r][b] # "writing" /\ b # 0
    BY <1>1, <1>3, <1>4, ReportsAssumption DEF ReportInv, LockInv, AdId
  <2> QED BY <1>1, <1>4, <1>5, <1>8, <2>1 DEF ReportInv, LockInv
<1>10. CountInv(r)'
  BY <1>1, <1>4, <1>8 DEF ReportInv, CountInv
<1> QED BY <1>6, <1>7, <1>9, <1>10, AdMovesInv

-----------------------------------------------------------------------------
(* The workers die and start.                                              *)

\* The action keeps the invariant.
LEMMA WorkerDiesInv ==
  ASSUME IInv, NEW w \in Workers, WorkerDies(w)
  PROVE  IInv'
<1>1. TypeOK /\ alive' = alive \ {w} /\ UNCHANGED <<home, row, completed, file, told, restarted>>
  BY DEF IInv, WorkerDies
<1>2. ASSUME NEW r \in Tasks(w)
      PROVE  /\ r \in Reports /\ pc[r] # "none"
             /\ pc'[r] = "gone" /\ ad'[r] = [a \in AdId |-> "none"]
             /\ lock'[r] = 0 /\ count'[r] = [a \in AdId |-> 0]
  BY DEF WorkerDies, Tasks
<1>3. ASSUME NEW r \in Reports \ Tasks(w)
      PROVE  /\ pc'[r] = pc[r] /\ ad'[r] = ad[r]
             /\ lock'[r] = lock[r] /\ count'[r] = count[r]
             /\ home[r] # w \/ pc[r] = "none"
  BY DEF WorkerDies, Tasks
<1>4. TypeOK'
  <2>1. 0 \in 0 .. MaxFound
    BY ReportsAssumption
  <2>2. pc' \in [Reports -> TaskState]
    BY <1>1 DEF WorkerDies, TypeOK, TaskState
  <2>3. ad' \in [Reports -> [AdId -> AdState]]
    BY <1>1 DEF WorkerDies, TypeOK, AdState
  <2>4. lock' \in [Reports -> 0 .. MaxFound] /\ count' \in [Reports -> [AdId -> 0 .. MaxFound]]
    BY <1>1, <2>1 DEF WorkerDies, TypeOK
  <2> QED BY <1>1, <2>2, <2>3, <2>4 DEF TypeOK
<1>5. ASSUME NEW r \in Tasks(w) PROVE ReportInv(r)'
  <2>1. /\ ReportInv(r) /\ pc'[r] = "gone" /\ lock'[r] = 0 /\ pc[r] # "none"
        /\ \A a \in AdId : ad'[r][a] = "none" /\ a # 0
    BY <1>1, <1>2, CountTypes DEF IInv
  <2>2. row[r].status # "absent"
    BY <2>1 DEF ReportInv, StatusInv
  <2>3. StatusInv(r)'
    BY <1>1, <2>1, <2>2 DEF ReportInv, StatusInv
  <2>4. AdsInv(r)' /\ LockInv(r)' /\ CountInv(r)'
    BY <1>1, <2>1 DEF ReportInv, AdsInv, LockInv, CountInv, Before
  <2>5. Total(r)' = Total(r)
    BY <1>1 DEF Total
  <2>6. ResultInv(r)' /\ ToldInv(r)' /\ HomeInv(r)'
    BY <1>1, <2>1, <2>5 DEF ReportInv, ResultInv, ToldInv, HomeInv, Complete
  <2> QED BY <2>3, <2>4, <2>6 DEF ReportInv
<1>6. ASSUME NEW r \in Reports \ Tasks(w) PROVE ReportInv(r)'
  <2>1. ReportInv(r) /\ Untouched(r)
    BY <1>1, <1>3 DEF IInv, Untouched
  <2>2. Total(r)' = Total(r) /\ Counted(r)' = Counted(r) /\ Failed(r)' = Failed(r)
    BY <2>1 DEF Untouched, Total, Counted, Failed
  <2>3. StatusInv(r)' /\ AdsInv(r)' /\ ToldInv(r)' /\ ResultInv(r)'
    BY <2>1, <2>2 DEF ReportInv, Untouched, StatusInv, AdsInv, ToldInv, ResultInv
  <2>4. LockInv(r)' /\ CountInv(r)'
    BY <2>1, <2>2 DEF ReportInv, Untouched, LockInv, CountInv
  <2>5. HomeInv(r)'
    BY <1>1, <1>3, <2>1 DEF ReportInv, HomeInv
  <2> QED BY <2>3, <2>4, <2>5 DEF ReportInv
<1> QED BY <1>4, <1>5, <1>6 DEF IInv

\* The action keeps the invariant.
LEMMA WorkerStartsInv ==
  ASSUME IInv, NEW w \in Workers, WorkerStarts(w)
  PROVE  IInv'
<1>1. /\ TypeOK /\ alive \subseteq alive' /\ alive' \subseteq Workers
      /\ UNCHANGED <<home, pc, taskVars, told>>
  BY DEF IInv, TypeOK, WorkerStarts
<1>2. ASSUME NEW r \in Reports
      PROVE  /\ row'[r] \in Row
             /\ row'[r].found = row[r].found /\ row'[r].limited = row[r].limited
             /\ row'[r].analyzed = row[r].analyzed
             /\ row'[r].status = (IF row[r].status = "running" THEN "failed"
                                                               ELSE row[r].status)
  <2>1. row[r] \in Row
    BY <1>1 DEF TypeOK
  <2>2. CASE row[r].status = "running"
    <3>1. row'[r] = [row[r] EXCEPT !.status = "failed"]
      BY <2>2 DEF WorkerStarts
    <3> QED BY <2>1, <2>2, <3>1 DEF Row, Status
  <2>3. CASE row[r].status # "running"
    <3>1. row'[r] = row[r]
      BY <2>3 DEF WorkerStarts
    <3> QED BY <2>1, <2>3, <3>1
  <2> QED BY <2>2, <2>3
<1>3. TypeOK'
  <2>1. row' \in [Reports -> Row]
    <3>1. row' = [r \in Reports |-> row'[r]]
      BY DEF WorkerStarts
    <3> QED BY <1>2, <3>1
  <2>2. restarted' \subseteq Reports
    BY <1>1 DEF WorkerStarts, TypeOK
  <2> QED BY <1>1, <2>1, <2>2 DEF TypeOK, taskVars, adVars
<1>4. ASSUME NEW r \in Reports PROVE ReportInv(r)'
  <2>1. ReportInv(r) /\ row[r].status \in Status
    BY <1>1 DEF IInv, TypeOK, Row
  <2>2. Total(r)' = Total(r) /\ Counted(r)' = Counted(r) /\ Failed(r)' = Failed(r)
    BY <1>1, <1>2 DEF taskVars, adVars, Total, Counted, Failed
  <2>3. StatusInv(r)' /\ ToldInv(r)' /\ HomeInv(r)'
    BY <1>1, <1>2, <2>1 DEF ReportInv, StatusInv, ToldInv, HomeInv, Status
  <2>4. AdsInv(r)' /\ ResultInv(r)'
    BY <1>1, <1>2, <2>1, <2>2 DEF ReportInv, AdsInv, ResultInv, taskVars, adVars
  <2>5. LockInv(r)' /\ CountInv(r)'
    BY <1>1, <1>2, <2>1, <2>2 DEF ReportInv, LockInv, CountInv, taskVars, adVars
  <2> QED BY <2>3, <2>4, <2>5 DEF ReportInv
<1> QED BY <1>3, <1>4 DEF IInv

\* Every step keeps the invariant.
LEMMA NextInv == IInv /\ [Next]_vars => IInv'
<1> SUFFICES ASSUME IInv, [Next]_vars PROVE IInv'
  OBVIOUS
<1>1. ASSUME NEW r \in Reports, TaskStep(r) PROVE IInv'
  BY <1>1, RecordStartedInv, MarkRunningInv, CollectLinksInv, GatherDoneInv,
     BuildReportInv, StoreDoneInv, RaiseInv, StoreFailedInv, LoseTaskInv,
     RecordOutcomeInv, NotifyInv DEF TaskStep
<1>2. ASSUME NEW r \in Reports, NEW a \in AdId, AdStep(r, a) PROVE IInv'
  BY <1>2, ScrapeAdInv, AnalyzeAdInv, CountAdInv, WriteProgressInv DEF AdStep
<1>3. ASSUME NEW r \in Reports, Analyze(r) \/ ToggleNotify(r) PROVE IInv'
  BY <1>3, AnalyzeInv, ToggleNotifyInv
<1>4. ASSUME NEW w \in Workers, WorkerDies(w) \/ WorkerStarts(w) PROVE IInv'
  BY <1>4, WorkerDiesInv, WorkerStartsInv
<1>5. CASE UNCHANGED vars
  <2>1. TypeOK'
    BY <1>5 DEF IInv, TypeOK, vars
  <2>2. ASSUME NEW r \in Reports PROVE ReportInv(r)'
    BY <1>5, UntouchedInv DEF IInv, vars, Untouched
  <2> QED BY <2>1, <2>2 DEF IInv
<1> QED BY <1>1, <1>2, <1>3, <1>4, <1>5 DEF Next

\* The invariant always holds.
LEMMA Invariance == Spec => []IInv
BY InitInv, NextInv, PTL DEF Spec

-----------------------------------------------------------------------------
(* Theorems                                                                *)

\* A task stands at a place of run_analysis, and no count exceeds the links
\* found: `completed` counts each ad once at most.
THEOREM ReportTypes == Spec => []TypeOK
BY Invariance, PTL DEF IInv

\* A published report has every ad in it, whichever ads finish last.
THEOREM PublishedIsComplete == Spec => []DoneIsComplete
<1>1. IInv => DoneIsComplete
  BY DEF IInv, ReportInv, ResultInv, DoneIsComplete
<1> QED BY <1>1, Invariance, PTL

\* Nobody is told that a report is done, or failed, while its row says
\* something else.
THEOREM NewsIsTrue == Spec => []ToldTheTruth
<1>1. IInv => ToldTheTruth
  BY DEF IInv, ReportInv, ToldInv, ToldTheTruth
<1> QED BY <1>1, Invariance, PTL

\* What a task's step may do to the rows.
LEMMA TaskStepRow ==
  ASSUME IInv, NEW q \in Reports, TaskStep(q), NEW r \in Reports
  PROVE  /\ row'[r].analyzed = row[r].analyzed
         /\ row[r].status = "done" => row'[r].status = "done"
<1>1. TypeOK /\ ReportInv(r) /\ row[r] \in Row
  BY DEF IInv, TypeOK
<1>2. CASE MarkRunning(q)
  <2>1. pc[q] = "starting" /\ (row' = row \/ row' = [row EXCEPT ![q].status = "running"])
    BY <1>2 DEF MarkRunning, Goto
  <2>2. q = r => row[r].status # "done"
    BY <1>1, <2>1 DEF ReportInv, StatusInv
  <2> QED BY <1>1, <2>1, <2>2, SetStatus DEF Status
<1>3. CASE CollectLinks(q)
  <2>1. PICK n \in 0 .. MaxFound : row' = [row EXCEPT ![q].found = n]
    BY <1>3 DEF CollectLinks
  <2>2. row'[r] = row[r] \/ row'[r] = [row[r] EXCEPT !.found = n]
    BY <1>1, <2>1 DEF TypeOK
  <2> QED BY <1>1, <2>2 DEF Row
<1>4. CASE StoreDone(q)
  <2>1. row' = [row EXCEPT ![q].status = "done"]
    BY <1>4 DEF StoreDone
  <2> QED BY <1>1, <2>1, SetStatus DEF Status
<1>5. CASE StoreFailed(q)
  <2>1. pc[q] \in {"empty", "raised"} /\ row' = [row EXCEPT ![q].status = "failed"]
    BY <1>5 DEF StoreFailed
  <2>2. q = r => row[r].status # "done"
    BY <1>1, <2>1 DEF ReportInv, StatusInv
  <2> QED BY <1>1, <2>1, <2>2, SetStatus DEF Status
<1>6. CASE \/ RecordStarted(q) \/ GatherDone(q) \/ BuildReport(q) \/ Raise(q)
           \/ LoseTask(q) \/ RecordOutcome(q) \/ Notify(q)
  BY <1>6 DEF RecordStarted, GatherDone, BuildReport, Raise, LoseTask, RecordOutcome, Notify
<1> QED BY <1>2, <1>3, <1>4, <1>5, <1>6 DEF TaskStep

\* What any step may do to the rows.
LEMMA StepRow ==
  ASSUME IInv, [Next]_vars, NEW r \in Reports
  PROVE  /\ row'[r].analyzed >= row[r].analyzed
         /\ row[r].status = "done" => row'[r].status = "done"
<1>1. TypeOK /\ ReportInv(r) /\ row[r] \in Row /\ row[r].analyzed \in Nat
  <2>1. TypeOK /\ ReportInv(r) /\ row[r] \in Row
    BY DEF IInv, TypeOK
  <2>2. row[r].analyzed \in 0 .. MaxFound
    BY <2>1 DEF Row
  <2> QED BY <2>1, <2>2, ReportsAssumption
<1>2. ASSUME NEW q \in Reports, TaskStep(q)
      PROVE  /\ row'[r].analyzed >= row[r].analyzed
             /\ row[r].status = "done" => row'[r].status = "done"
  BY <1>1, <1>2, TaskStepRow
<1>3. ASSUME NEW q \in Reports, NEW a \in AdId, WriteProgress(q, a)
      PROVE  /\ row'[r].analyzed >= row[r].analyzed
             /\ row[r].status = "done" => row'[r].status = "done"
  <2>1. /\ ad[q][a] = "writing"
        /\ row' = row \/ row' = [row EXCEPT ![q].analyzed = count[q][a]]
    BY <1>3 DEF WriteProgress, AdGoto
  <2>2. ReportInv(q) /\ a # 0
    BY <1>1, CountTypes DEF IInv
  <2>3. lock[q] = a /\ count[q][a] = completed[q] /\ row[q].analyzed <= completed[q]
    BY <2>1, <2>2 DEF ReportInv, LockInv
  <2>4. \/ row'[r] = row[r]
        \/ r = q /\ row'[r] = [row[r] EXCEPT !.analyzed = completed[q]]
    BY <1>1, <2>1, <2>3 DEF TypeOK
  <2> QED BY <1>1, <2>3, <2>4, CountTypes DEF Row
<1>4. ASSUME NEW q \in Reports, Analyze(q)
      PROVE  /\ row'[r].analyzed >= row[r].analyzed
             /\ row[r].status = "done" => row'[r].status = "done"
  <2>1. pc[q] = "none"
    BY <1>4 DEF Analyze, Goto
  <2>2. q = r => row[r].analyzed = 0 /\ row[r].status # "done"
    BY <1>1, <2>1 DEF ReportInv, StatusInv, AdsInv, Before
  <2>3. q # r => row'[r] = row[r]
    BY <1>1, <1>4 DEF Analyze, TypeOK
  <2>4. row'[r].analyzed \in Nat
    <3>1. IInv'
      BY <1>4, AnalyzeInv
    <3>2. row'[r].analyzed \in 0 .. MaxFound
      BY <3>1 DEF IInv, TypeOK, Row
    <3> QED BY <3>2, ReportsAssumption
  <2> QED BY <1>1, <2>2, <2>3, <2>4
<1>5. ASSUME NEW q \in Reports, ToggleNotify(q)
      PROVE  /\ row'[r].analyzed >= row[r].analyzed
             /\ row[r].status = "done" => row'[r].status = "done"
  <2>1. row'[r] = row[r] \/ row'[r] = [row[r] EXCEPT !.notify = ~ @]
    BY <1>1, <1>5 DEF ToggleNotify, TypeOK
  <2> QED BY <1>1, <2>1 DEF Row
<1>6. ASSUME NEW w \in Workers, WorkerStarts(w)
      PROVE  /\ row'[r].analyzed >= row[r].analyzed
             /\ row[r].status = "done" => row'[r].status = "done"
  <2>1. CASE row[r].status # "running"
    <3>1. row'[r] = row[r]
      BY <1>6, <2>1 DEF WorkerStarts
    <3> QED BY <1>1, <3>1
  <2>2. CASE row[r].status = "running"
    <3>1. row'[r] = [row[r] EXCEPT !.status = "failed"]
      BY <1>6, <2>2 DEF WorkerStarts
    <3> QED BY <1>1, <2>2, <3>1 DEF Row
  <2> QED BY <2>1, <2>2
<1>7. ASSUME NEW q \in Reports, NEW a \in AdId, ScrapeAd(q, a) \/ AnalyzeAd(q, a) \/ CountAd(q, a)
      PROVE  row' = row
  BY <1>7 DEF ScrapeAd, AnalyzeAd, CountAd
<1>8. ASSUME NEW w \in Workers, WorkerDies(w) PROVE row' = row
  BY <1>8 DEF WorkerDies
<1>9. CASE UNCHANGED vars
  BY <1>1, <1>9 DEF vars
<1> QED BY <1>1, <1>2, <1>3, <1>4, <1>5, <1>6, <1>7, <1>8, <1>9 DEF Next, AdStep

\* The progress a reader polls never goes back, however many ads finish at
\* once and whichever commits fail.
THEOREM ProgressNeverFalls == Spec => ProgressGrows
<1>1. IInv /\ [Next]_vars =>
        [\A r \in Reports : row'[r].analyzed >= row[r].analyzed]_vars
  BY StepRow
<1> QED BY <1>1, Invariance, PTL DEF Spec, ProgressGrows

\* No worker that starts, and no task that fails late, undoes a published
\* report.
THEOREM PublishedIsFinal == Spec => DoneIsFinal
<1>1. IInv /\ [Next]_vars =>
        [\A r \in Reports : row[r].status = "done" => row'[r].status = "done"]_vars
  BY StepRow
<1> QED BY <1>1, Invariance, PTL DEF Spec, DoneIsFinal

-----------------------------------------------------------------------------
(* fail_stale_reports takes a live task for a dead one only if there are   *)
(* several workers, and then the task may still publish its report.        *)

\* A report whose task goes on though its row is failed was swept.
SweptInv == \A r \in Reports :
  (/\ row[r].status = "failed"
   /\ pc[r] \in {"collecting", "empty", "gathering", "summary", "built", "raised"})
     => r \in restarted

\* A commit of ads_found or of ads_analyzed.
LEMMA CountsKeepStatus ==
  ASSUME TypeOK, NEW q \in Reports, NEW n,
         \/ row' = [row EXCEPT ![q].found = n]
         \/ row' = [row EXCEPT ![q].analyzed = n]
  PROVE  \A r \in Reports : row'[r].status = row[r].status
<1> SUFFICES ASSUME NEW r \in Reports PROVE row'[r].status = row[r].status
  OBVIOUS
<1>1. \/ row'[r] = row[r]
      \/ row'[r] = [row[r] EXCEPT !.found = n]
      \/ row'[r] = [row[r] EXCEPT !.analyzed = n]
  BY DEF TypeOK
<1>2. row[r] \in Row
  BY DEF TypeOK
<1> QED BY <1>1, <1>2 DEF Row

\* What a task's step may do to its place and its row.
LEMMA TaskStepSwept ==
  ASSUME IInv, SweptInv, NEW q \in Reports, TaskStep(q)
  PROVE  SweptInv'
<1>1. TypeOK
  BY DEF IInv
<1>2. CASE MarkRunning(q)
  <2>1. /\ restarted' = restarted
        /\ \/ pc' = [pc EXCEPT ![q] = "lost"] /\ row' = row
           \/ /\ pc' = [pc EXCEPT ![q] = "collecting"]
              /\ row' = [row EXCEPT ![q].status = "running"]
    BY <1>2 DEF MarkRunning, Goto
  <2> QED BY <1>1, <2>1, SetStatus DEF TypeOK, SweptInv, Status
<1>3. CASE CollectLinks(q)
  <2>1. /\ restarted' = restarted /\ pc[q] = "collecting"
        /\ \E n \in 0 .. MaxFound : row' = [row EXCEPT ![q].found = n]
        /\ \A r \in Reports \ {q} : pc'[r] = pc[r]
    BY <1>1, <1>3 DEF CollectLinks, TypeOK
  <2>2. \A r \in Reports : row'[r].status = row[r].status
    BY <1>1, <2>1, CountsKeepStatus
  <2> QED BY <2>1, <2>2 DEF SweptInv
<1>4. CASE StoreDone(q) \/ StoreFailed(q)
  <2>1. /\ restarted' = restarted
        /\ pc'[q] \in {"record done", "record failed"}
        /\ \A r \in Reports \ {q} : pc'[r] = pc[r] /\ row'[r] = row[r]
    BY <1>1, <1>4 DEF StoreDone, StoreFailed, Goto, TypeOK
  <2> QED BY <2>1 DEF SweptInv
<1>5. CASE \/ RecordStarted(q) \/ GatherDone(q) \/ BuildReport(q) \/ Raise(q)
           \/ LoseTask(q) \/ RecordOutcome(q) \/ Notify(q)
  <2>1. /\ restarted' = restarted /\ row' = row
        /\ \A r \in Reports \ {q} : pc'[r] = pc[r]
    BY <1>1, <1>5 DEF RecordStarted, GatherDone, BuildReport, Raise, LoseTask,
                      RecordOutcome, Notify, Goto, TypeOK
  <2>2. pc'[q] \in {"collecting", "empty", "gathering", "summary", "built", "raised"} =>
          pc[q] \in {"collecting", "empty", "gathering", "summary", "built"}
    BY <1>1, <1>5 DEF RecordStarted, GatherDone, BuildReport, Raise, LoseTask,
                      RecordOutcome, Notify, Goto, TypeOK
  <2> QED BY <2>1, <2>2 DEF SweptInv
<1> QED BY <1>2, <1>3, <1>4, <1>5 DEF TaskStep

\* Every step keeps SweptInv.
LEMMA StepSwept == IInv /\ SweptInv /\ [Next]_vars => SweptInv'
<1> SUFFICES ASSUME IInv, SweptInv, [Next]_vars PROVE SweptInv'
  OBVIOUS
<1>1. TypeOK
  BY DEF IInv
<1>2. ASSUME NEW q \in Reports, TaskStep(q) PROVE SweptInv'
  BY <1>2, TaskStepSwept
<1>3. ASSUME NEW q \in Reports, Analyze(q) PROVE SweptInv'
  <2>1. /\ restarted' = restarted /\ pc'[q] = "queued"
        /\ \A r \in Reports \ {q} : pc'[r] = pc[r] /\ row'[r] = row[r]
    BY <1>1, <1>3 DEF Analyze, Goto, TypeOK
  <2> QED BY <2>1 DEF SweptInv
<1>4. ASSUME NEW q \in Reports, NEW a \in AdId, AdStep(q, a) PROVE SweptInv'
  <2>1. restarted' = restarted /\ pc' = pc
    BY <1>4 DEF AdStep, ScrapeAd, AnalyzeAd, CountAd, WriteProgress
  <2>2. row' = row \/ row' = [row EXCEPT ![q].analyzed = count[q][a]]
    BY <1>4 DEF AdStep, ScrapeAd, AnalyzeAd, CountAd, WriteProgress
  <2>3. \A r \in Reports : row'[r].status = row[r].status
    BY <1>1, <2>2, CountsKeepStatus
  <2> QED BY <2>1, <2>3 DEF SweptInv
<1>5. ASSUME NEW q \in Reports, ToggleNotify(q) PROVE SweptInv'
  <2>1. \A r \in Reports : row'[r].status = row[r].status
    BY <1>1, <1>5 DEF ToggleNotify, TypeOK, Row
  <2> QED BY <1>5, <2>1 DEF ToggleNotify, SweptInv
<1>6. ASSUME NEW w \in Workers, WorkerStarts(w) PROVE SweptInv'
  BY <1>6 DEF WorkerStarts, SweptInv
<1>7. ASSUME NEW w \in Workers, WorkerDies(w) PROVE SweptInv'
  BY <1>7 DEF WorkerDies, SweptInv
<1>8. CASE UNCHANGED vars
  BY <1>8 DEF vars, SweptInv
<1> QED BY <1>2, <1>3, <1>4, <1>5, <1>6, <1>7, <1>8 DEF Next

\* A failed report becomes a published one only if it was failed for "Server
\* restarted during analysis" while its task lived: update_report() asks
\* nothing of the status it replaces.
RevivedOnlyIfSwept ==
  [][\A r \in Reports :
        (row[r].status = "failed" /\ row'[r].status = "done") => r \in restarted]_vars

\* The sweep is the only way by which a report that its user saw failed is
\* published after all.
THEOREM RevivalNeedsSweep == Spec => RevivedOnlyIfSwept
<1>1. Init => SweptInv
  BY DEF Init, SweptInv, AbsentRow
<1>2. ASSUME IInv, SweptInv, [Next]_vars, NEW r \in Reports,
             row[r].status = "failed", row'[r].status = "done"
      PROVE  r \in restarted
  <2>1. TypeOK /\ row[r] \in Row
    BY <1>2 DEF IInv, TypeOK
  <2>2. ASSUME NEW q \in Reports, StoreDone(q) PROVE r \in restarted
    <3>1. q = r
      BY <1>2, <2>1, <2>2 DEF StoreDone, TypeOK
    <3> QED BY <1>2, <2>2, <3>1 DEF StoreDone, Goto, SweptInv
  <2>3. ASSUME NEW q \in Reports, TaskStep(q), ~ StoreDone(q)
        PROVE  FALSE
    <3>1. \/ row' = row \/ row' = [row EXCEPT ![q].status = "running"]
          \/ row' = [row EXCEPT ![q].status = "failed"]
          \/ \E n \in 0 .. MaxFound : row' = [row EXCEPT ![q].found = n]
      BY <2>3 DEF TaskStep, RecordStarted, MarkRunning, CollectLinks, GatherDone,
                  BuildReport, Raise, StoreFailed, LoseTask, RecordOutcome, Notify
    <3> QED BY <1>2, <2>1, <3>1, SetStatus, CountsKeepStatus DEF Status
  <2>4. ASSUME NEW q \in Reports, Analyze(q) PROVE FALSE
    <3>1. row'[q].status # "done"
      BY <2>1, <2>4 DEF Analyze, TypeOK, AbsentRow
    <3> QED BY <1>2, <2>1, <2>4, <3>1 DEF Analyze, TypeOK
  <2>5. ASSUME NEW q \in Reports, NEW a \in AdId, AdStep(q, a) PROVE FALSE
    <3>1. row' = row \/ row' = [row EXCEPT ![q].analyzed = count[q][a]]
      BY <2>5 DEF AdStep, ScrapeAd, AnalyzeAd, CountAd, WriteProgress
    <3> QED BY <1>2, <2>1, <3>1, CountsKeepStatus
  <2>6. ASSUME NEW q \in Reports, ToggleNotify(q) PROVE FALSE
    <3>1. row'[r].status = row[r].status
      BY <2>1, <2>6 DEF ToggleNotify, TypeOK, Row
    <3> QED BY <1>2, <3>1
  <2>7. ASSUME NEW w \in Workers, WorkerStarts(w) PROVE FALSE
    BY <1>2, <2>7 DEF WorkerStarts
  <2>8. ASSUME NEW w \in Workers, WorkerDies(w) PROVE FALSE
    BY <1>2, <2>8 DEF WorkerDies
  <2>9. CASE UNCHANGED vars
    BY <1>2, <2>9 DEF vars
  <2> QED BY <1>2, <2>2, <2>3, <2>4, <2>5, <2>6, <2>7, <2>8, <2>9 DEF Next
<1>3. IInv /\ SweptInv /\ [Next]_vars =>
        [\A r \in Reports :
           (row[r].status = "failed" /\ row'[r].status = "done") => r \in restarted]_vars
  BY <1>2
<1> QED BY <1>1, <1>3, StepSwept, Invariance, PTL DEF Spec, RevivedOnlyIfSwept

\* There is a single worker.
OneWorker == \A v, w \in Workers : v = w

\* A dead task stays dead.
LEMMA GoneStays ==
  ASSUME IInv, [Next]_vars, NEW r \in Reports, pc[r] = "gone"
  PROVE  pc'[r] = "gone"
<1>1. TypeOK
  BY DEF IInv
<1>2. ASSUME NEW q \in Reports, TaskStep(q) PROVE pc'[r] = "gone"
  <2>1. pc[q] # "gone" /\ \A p \in Reports \ {q} : pc'[p] = pc[p]
    BY <1>1, <1>2
    DEF TypeOK, TaskStep, RecordStarted, MarkRunning, CollectLinks, GatherDone,
        BuildReport, StoreDone, Raise, StoreFailed, LoseTask, RecordOutcome, Notify, Goto
  <2> QED BY <2>1
<1>3. ASSUME NEW q \in Reports, Analyze(q) PROVE pc'[r] = "gone"
  BY <1>1, <1>3 DEF TypeOK, Analyze, Goto
<1>4. ASSUME NEW q \in Reports, NEW a \in AdId, AdStep(q, a) PROVE pc' = pc
  BY <1>4 DEF AdStep, ScrapeAd, AnalyzeAd, CountAd, WriteProgress
<1>5. ASSUME NEW q \in Reports, ToggleNotify(q) PROVE pc' = pc
  BY <1>5 DEF ToggleNotify
<1>6. ASSUME NEW w \in Workers, WorkerDies(w) PROVE pc'[r] = "gone"
  BY <1>6 DEF WorkerDies
<1>7. ASSUME NEW w \in Workers, WorkerStarts(w) PROVE pc' = pc
  BY <1>7 DEF WorkerStarts
<1>8. CASE UNCHANGED vars
  BY <1>8 DEF vars
<1> QED BY <1>2, <1>3, <1>4, <1>5, <1>6, <1>7, <1>8 DEF Next

\* With one worker process the sweep fails only reports whose task is dead:
\* what "server was restarted" (crud.py:328) says is true of a single process,
\* and of no more than that.
THEOREM OneWorkerSweepsTheDead == OneWorker => (Spec => []StaleMeansDead)
<1> SUFFICES ASSUME OneWorker PROVE Spec => []StaleMeansDead
  OBVIOUS
<1>1. Init => StaleMeansDead
  BY DEF Init, StaleMeansDead
<1>2. ASSUME IInv, StaleMeansDead, [Next]_vars PROVE StaleMeansDead'
  <2>1. \A r \in Reports : pc[r] = "gone" => pc'[r] = "gone"
    BY <1>2, GoneStays
  <2>2. ASSUME NEW w \in Workers, WorkerStarts(w), NEW r \in Reports,
               row[r].status = "running"
        PROVE  pc[r] = "gone"
    <3>1. ReportInv(r) /\ alive \subseteq Workers /\ home[r] \in Workers
      BY <1>2 DEF IInv, TypeOK
    <3>2. home[r] \notin alive
      BY <2>2, <3>1 DEF OneWorker, WorkerStarts
    <3> QED BY <2>2, <3>1, <3>2 DEF ReportInv, StatusInv, HomeInv
  <2>3. ASSUME NEW w \in Workers, WorkerStarts(w) PROVE StaleMeansDead'
    <3>1. restarted' \subseteq restarted \cup {r \in Reports : row[r].status = "running"}
      BY <2>3 DEF WorkerStarts
    <3>2. restarted \subseteq Reports
      BY <1>2 DEF IInv, TypeOK
    <3> QED BY <1>2, <2>1, <2>2, <2>3, <3>1, <3>2 DEF StaleMeansDead
  <2>4. CASE restarted' = restarted
    <3>1. restarted \subseteq Reports
      BY <1>2 DEF IInv, TypeOK
    <3> QED BY <1>2, <2>1, <2>4, <3>1 DEF StaleMeansDead
  <2>5. restarted' = restarted \/ \E w \in Workers : WorkerStarts(w)
    BY <1>2
    DEF Next, TaskStep, AdStep, vars, Analyze, RecordStarted, MarkRunning, CollectLinks,
        GatherDone, BuildReport, StoreDone, Raise, StoreFailed, LoseTask, RecordOutcome,
        Notify, ToggleNotify, ScrapeAd, AnalyzeAd, CountAd, WriteProgress, WorkerDies
  <2> QED BY <2>3, <2>4, <2>5
<1>3. IInv /\ StaleMeansDead /\ [Next]_vars => StaleMeansDead'
  BY <1>2
<1> QED BY <1>1, <1>3, Invariance, PTL DEF Spec
=============================================================================
