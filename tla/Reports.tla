------------------------------ MODULE Reports ------------------------------
(***************************************************************************)
(* The life of a report: POST /analyze creates a row and a background      *)
(* task; run_analysis (service/tasks.py) collects the links, analyses the  *)
(* ads concurrently, stores the result and tells the user.  The web        *)
(* workers are separate processes over one database: one may die, taking   *)
(* its tasks with it, while another goes on, and each of them runs         *)
(* fail_stale_reports when it starts.                                      *)
(*                                                                         *)
(* A step is what runs between two awaits, with one database commit at     *)
(* most; any commit may fail and raise, leaving the row as it was.  The    *)
(* scraper and the AI client are seen as outcomes: their slots are         *)
(* Broker's subject, their retries are not modelled here.                  *)
(***************************************************************************)
EXTENDS Integers, FiniteSets

CONSTANTS Workers, Reports,
          MaxFound,    \* bound: links found by one search
          FreeLimit    \* settings.FREE_ADS_LIMIT

ASSUME ReportsAssumption == MaxFound \in Nat /\ FreeLimit \in Nat \ {0}

VARIABLES alive,      \* the workers that are up
          home,       \* the worker that runs the task of a report
          row,        \* the reports table
          pc,         \* where run_analysis stands; "gone" if it died
          ad,         \* the _process_one_ad tasks
          completed,  \* `completed` of run_analysis
          lock,       \* progress_lock: the ad that holds it, or 0
          count,      \* the value of `completed` an ad is about to store
          file,       \* the report is built (HTML on disk, or JSON to store)
          told,       \* e-mails and funnel rows about a report
          restarted   \* history: reports failed by fail_stale_reports

vars == <<alive, home, row, pc, ad, completed, lock, count, file, told, restarted>>
adVars == <<ad, completed, lock, count>>
taskVars == <<adVars, file>>

Status == {"absent", "pending", "running", "done", "failed"}

TaskState == {"none", "queued", "starting", "collecting", "empty", "gathering",
              "summary", "built", "raised",
              "record done", "record failed",    \* awaiting record_report_outcome
              "notify done", "notify failed",    \* awaiting _maybe_notify_finished
              "ended",
              "lost",                            \* it raised out of run_analysis
              "gone"}

AdState == {"none", "scraping", "analyzing", "counting", "writing", "done", "failed"}

AdId == 1 .. MaxFound

Row == [status : Status, found : 0 .. MaxFound, analyzed : 0 .. MaxFound,
        limited : BOOLEAN, notify : BOOLEAN]

TypeOK == /\ alive \subseteq Workers
          /\ home \in [Reports -> Workers]
          /\ row \in [Reports -> Row]
          /\ pc \in [Reports -> TaskState]
          /\ ad \in [Reports -> [AdId -> AdState]]
          /\ completed \in [Reports -> 0 .. MaxFound]
          /\ lock \in [Reports -> 0 .. MaxFound]
          /\ count \in [Reports -> [AdId -> 0 .. MaxFound]]
          /\ file \in [Reports -> BOOLEAN]
          /\ told \in [Reports -> SUBSET {"started", "outcome done", "outcome failed",
                                          "mail done", "mail failed"}]
          /\ restarted \subseteq Reports

AbsentRow == [status |-> "absent", found |-> 0, analyzed |-> 0,
              limited |-> FALSE, notify |-> FALSE]

Init == /\ alive = Workers
        /\ home \in [Reports -> Workers]
        /\ row = [r \in Reports |-> AbsentRow]
        /\ pc = [r \in Reports |-> "none"]
        /\ ad = [r \in Reports |-> [a \in AdId |-> "none"]]
        /\ completed = [r \in Reports |-> 0]
        /\ lock = [r \in Reports |-> 0]
        /\ count = [r \in Reports |-> [a \in AdId |-> 0]]
        /\ file = [r \in Reports |-> FALSE]
        /\ told = [r \in Reports |-> {}]
        /\ restarted = {}

\* The ads a report analyses: all, or the first FreeLimit of them.
Total(r) == IF row[r].limited /\ row[r].found > FreeLimit THEN FreeLimit
                                                          ELSE row[r].found

Goto(r, from, to) == pc[r] = from /\ pc' = [pc EXCEPT ![r] = to]

-----------------------------------------------------------------------------
(* POST /analyze and the background tasks it queues, in order.             *)

Analyze(r) ==
  /\ home[r] \in alive
  /\ Goto(r, "none", "queued")
  /\ \E limited \in BOOLEAN :
       row' = [row EXCEPT ![r] = [AbsentRow EXCEPT !.status = "pending",
                                                   !.limited = limited]]
  /\ UNCHANGED <<alive, home, taskVars, told, restarted>>

\* record_server_event("analyze_started"): swallows every error, and writes
\* nothing for a bot, an opted-out or an excluded visitor.
RecordStarted(r) ==
  /\ Goto(r, "queued", "starting")
  /\ \E written \in {{}, {"started"}} : told' = [told EXCEPT ![r] = @ \cup written]
  /\ UNCHANGED <<alive, home, row, taskVars, restarted>>

\* run_analysis begins, outside its try block.
MarkRunning(r) ==
  /\ \/ /\ Goto(r, "starting", "collecting")
        /\ row' = [row EXCEPT ![r].status = "running"]
     \/ /\ Goto(r, "starting", "lost")
        /\ UNCHANGED row
  /\ UNCHANGED <<alive, home, taskVars, told, restarted>>

\* collect_all_links returns n links, and ads_found is stored.
CollectLinks(r) ==
  /\ pc[r] = "collecting"
  /\ \E n \in 0 .. MaxFound :
       /\ row' = [row EXCEPT ![r].found = n]
       /\ pc' = [pc EXCEPT ![r] = IF n = 0 THEN "empty" ELSE "gathering"]
       /\ ad' = [ad EXCEPT ![r] =
                   [a \in AdId |-> IF a <= Total(r)' THEN "scraping" ELSE "none"]]
  /\ UNCHANGED <<alive, home, completed, lock, count, file, told, restarted>>

-----------------------------------------------------------------------------
(* _process_one_ad.  It does not read pc: gather() leaves the other ads    *)
(* running when one raises, whatever run_analysis does meanwhile.          *)

AdGoto(r, a, from, to) == ad[r][a] = from /\ ad' = [ad EXCEPT ![r][a] = to]

\* scrape_ad returns data, or an error as data; it raises when the broker is
\* down or closes the connection.
ScrapeAd(r, a) ==
  /\ AdGoto(r, a, "scraping", "analyzing") \/ AdGoto(r, a, "scraping", "failed")
  /\ UNCHANGED <<alive, home, row, pc, completed, lock, count, file, told, restarted>>

\* The AI call returns, or its exception becomes the analysis.
AnalyzeAd(r, a) ==
  /\ AdGoto(r, a, "analyzing", "counting")
  /\ UNCHANGED <<alive, home, row, pc, completed, lock, count, file, told, restarted>>

\* Mutant of CountAd: progress_lock is not taken.
CountAd_NoLock(r, a) ==
  /\ AdGoto(r, a, "counting", "writing")
  /\ completed' = [completed EXCEPT ![r] = @ + 1]
  /\ count' = [count EXCEPT ![r][a] = completed'[r]]
  /\ UNCHANGED <<alive, home, row, pc, lock, file, told, restarted>>

\* Take progress_lock, count, and call update_report with the new count; its
\* commit is awaited with the lock held.
CountAd(r, a) ==
  /\ AdGoto(r, a, "counting", "writing")
  /\ lock[r] = 0
  /\ lock' = [lock EXCEPT ![r] = a]
  /\ completed' = [completed EXCEPT ![r] = @ + 1]
  /\ count' = [count EXCEPT ![r][a] = completed'[r]]
  /\ UNCHANGED <<alive, home, row, pc, file, told, restarted>>

\* Mutant of WriteProgress: an ad whose commit failed is counted once more.
WriteProgress_Retries(r, a) ==
  /\ \/ /\ AdGoto(r, a, "writing", "done")
        /\ row' = [row EXCEPT ![r].analyzed = count[r][a]]
     \/ /\ AdGoto(r, a, "writing", "counting")
        /\ UNCHANGED row
  /\ lock' = [lock EXCEPT ![r] = 0]
  /\ count' = [count EXCEPT ![r][a] = 0]
  /\ UNCHANGED <<alive, home, pc, completed, file, told, restarted>>

WriteProgress(r, a) ==
  /\ \/ /\ AdGoto(r, a, "writing", "done")
        /\ row' = [row EXCEPT ![r].analyzed = count[r][a]]
     \/ /\ AdGoto(r, a, "writing", "failed")
        /\ UNCHANGED row
  /\ lock' = [lock EXCEPT ![r] = 0]
  /\ count' = [count EXCEPT ![r][a] = 0]
  /\ UNCHANGED <<alive, home, pc, completed, file, told, restarted>>

-----------------------------------------------------------------------------
(* The rest of run_analysis.                                               *)

\* Mutant of GatherDone: gather(return_exceptions=True), the failures kept.
GatherDone_KeepsFailures(r) ==
  /\ Goto(r, "gathering", "summary")
  /\ \A a \in 1 .. Total(r) : ad[r][a] \in {"done", "failed"}
  /\ UNCHANGED <<alive, home, row, taskVars, told, restarted>>

\* gather() returns when every ad has returned.
GatherDone(r) ==
  /\ Goto(r, "gathering", "summary")
  /\ \A a \in 1 .. Total(r) : ad[r][a] = "done"
  /\ UNCHANGED <<alive, home, row, taskVars, told, restarted>>

\* The summary never fails (its error becomes the summary); the report is
\* built and written before the row says so.
BuildReport(r) ==
  /\ Goto(r, "summary", "built")
  /\ file' = [file EXCEPT ![r] = TRUE]
  /\ UNCHANGED <<alive, home, row, adVars, told, restarted>>

StoreDone(r) ==
  /\ Goto(r, "built", "record done")
  /\ row' = [row EXCEPT ![r].status = "done"]
  /\ UNCHANGED <<alive, home, taskVars, told, restarted>>

\* Anything in the try block raises: the crawl, the first ad to fail, the
\* template, the disk, a commit.
Raise(r) ==
  /\ \/ pc[r] \in {"collecting", "empty", "summary", "built"}
     \/ pc[r] = "gathering" /\ \E a \in AdId : ad[r][a] = "failed"
  /\ pc' = [pc EXCEPT ![r] = "raised"]
  /\ UNCHANGED <<alive, home, row, taskVars, told, restarted>>

\* No ads at all, or the except clause.
StoreFailed(r) ==
  /\ pc[r] \in {"empty", "raised"}
  /\ pc' = [pc EXCEPT ![r] = "record failed"]
  /\ row' = [row EXCEPT ![r].status = "failed"]
  /\ UNCHANGED <<alive, home, taskVars, told, restarted>>

\* The commit of the except clause raises: nobody catches it.
LoseTask(r) ==
  /\ Goto(r, "raised", "lost")
  /\ UNCHANGED <<alive, home, row, taskVars, told, restarted>>

Tell(r, news) == told' = [told EXCEPT ![r] = @ \cup news]

\* Mutant of RecordOutcome: written without looking for analyze_started.
RecordOutcome_Unmatched(r) ==
  /\ \/ Goto(r, "record done", "notify done") /\ Tell(r, {"outcome done"})
     \/ Goto(r, "record failed", "notify failed") /\ Tell(r, {"outcome failed"})
  /\ UNCHANGED <<alive, home, row, taskVars, restarted>>

\* record_report_outcome: only if the report's analyze_started row exists; it
\* swallows every error.
RecordOutcome(r) ==
  /\ \/ /\ Goto(r, "record done", "notify done")
        /\ Tell(r, {"outcome done"}) /\ "started" \in told[r]
     \/ /\ Goto(r, "record failed", "notify failed")
        /\ Tell(r, {"outcome failed"}) /\ "started" \in told[r]
     \/ /\ Goto(r, "record done", "notify done") \/ Goto(r, "record failed", "notify failed")
        /\ UNCHANGED told
  /\ UNCHANGED <<alive, home, row, taskVars, restarted>>

\* _maybe_notify_finished: the flag is read again, now; it swallows every error.
Notify(r) ==
  /\ \/ Goto(r, "notify done", "ended") /\ Tell(r, {"mail done"}) /\ row[r].notify
     \/ Goto(r, "notify failed", "ended") /\ Tell(r, {"mail failed"}) /\ row[r].notify
     \/ /\ Goto(r, "notify done", "ended") \/ Goto(r, "notify failed", "ended")
        /\ UNCHANGED told
  /\ UNCHANGED <<alive, home, row, taskVars, restarted>>

\* POST /api/report/{id}/notify, by the report's owner, at any time.
ToggleNotify(r) ==
  /\ alive # {}
  /\ row[r].status # "absent"
  /\ row' = [row EXCEPT ![r].notify = ~@]
  /\ UNCHANGED <<alive, home, pc, taskVars, told, restarted>>

-----------------------------------------------------------------------------
(* The worker processes.                                                   *)

Tasks(w) == {r \in Reports : home[r] = w /\ pc[r] # "none"}

WorkerDies(w) ==
  /\ w \in alive
  /\ alive' = alive \ {w}
  /\ pc' = [r \in Reports |-> IF r \in Tasks(w) THEN "gone" ELSE pc[r]]
  /\ ad' = [r \in Reports |->
              IF r \in Tasks(w) THEN [a \in AdId |-> "none"] ELSE ad[r]]
  /\ lock' = [r \in Reports |-> IF r \in Tasks(w) THEN 0 ELSE lock[r]]
  /\ count' = [r \in Reports |->
                 IF r \in Tasks(w) THEN [a \in AdId |-> 0] ELSE count[r]]
  /\ UNCHANGED <<home, row, completed, file, told, restarted>>

\* Mutant of WorkerStarts: whatever is not failed yet is failed.
WorkerStarts_FailsAll(w) ==
  LET stale == {r \in Reports : row[r].status \notin {"absent", "failed"}} IN
  /\ w \notin alive
  /\ alive' = alive \cup {w}
  /\ row' = [r \in Reports |-> IF r \in stale
                                 THEN [row[r] EXCEPT !.status = "failed"]
                                 ELSE row[r]]
  /\ restarted' = restarted \cup stale
  /\ UNCHANGED <<home, pc, taskVars, told>>


\* lifespan: fail_stale_reports, before the first request.
WorkerStarts(w) ==
  LET stale == {r \in Reports : row[r].status = "running"} IN
  /\ w \notin alive
  /\ alive' = alive \cup {w}
  /\ row' = [r \in Reports |-> IF r \in stale
                                 THEN [row[r] EXCEPT !.status = "failed"]
                                 ELSE row[r]]
  /\ restarted' = restarted \cup stale
  /\ UNCHANGED <<home, pc, taskVars, told>>

AdStep(r, a) == \/ ScrapeAd(r, a) \/ AnalyzeAd(r, a) \/ CountAd(r, a)
                \/ WriteProgress(r, a)

TaskStep(r) == \/ RecordStarted(r) \/ MarkRunning(r) \/ CollectLinks(r)
               \/ GatherDone(r) \/ BuildReport(r) \/ StoreDone(r)
               \/ Raise(r) \/ StoreFailed(r) \/ LoseTask(r)
               \/ RecordOutcome(r) \/ Notify(r)

Next == \/ \E r \in Reports : \/ Analyze(r) \/ TaskStep(r) \/ ToggleNotify(r)
                              \/ \E a \in AdId : AdStep(r, a)
        \/ \E w \in Workers : WorkerDies(w) \/ WorkerStarts(w)

Spec == Init /\ [][Next]_vars

\* Every task of a live worker goes on (each scrape and AI call is bounded by
\* a timeout and a number of retries); uvicorn starts a dead worker again.
Fairness ==
  /\ \A r \in Reports : /\ WF_vars(TaskStep(r))
                        /\ \A a \in AdId : WF_vars(AdStep(r, a))
  /\ \A w \in Workers : WF_vars(WorkerStarts(w))

FairSpec == Spec /\ Fairness

-----------------------------------------------------------------------------
(* Properties                                                              *)

\* A report is done only if every one of its ads was analysed and counted in
\* the row, and its HTML is on disk.
DoneIsComplete ==
  \A r \in Reports : row[r].status = "done" =>
     /\ row[r].found > 0
     /\ row[r].analyzed = Total(r)
     /\ file[r]

\* The progress a reader polls never goes back, though the ads finish in any
\* order ("progress is always written in increasing order", tasks.py:179-180).
ProgressGrows ==
  [][\A r \in Reports : row'[r].analyzed >= row[r].analyzed]_vars

\* A finished report stays finished: nothing reopens or fails a report whose
\* result was published, not even another worker that starts.
DoneIsFinal ==
  [][\A r \in Reports : row[r].status = "done" => row'[r].status = "done"]_vars

\* What the user is mailed and the funnel counts agrees with the row, and an
\* outcome is counted only for a report whose start was.
ToldTheTruth ==
  \A r \in Reports :
     /\ told[r] \cap {"outcome done", "mail done"} # {} => row[r].status = "done"
     /\ told[r] \cap {"outcome failed", "mail failed"} # {} => row[r].status = "failed"
     /\ told[r] \cap {"outcome done", "outcome failed"} # {} => "started" \in told[r]


\* A report is failed for "Server restarted during analysis" only if its task
\* died ("mark any 'running' reports as failed (server was restarted)",
\* crud.py:328).
StaleMeansDead == \A r \in restarted : pc[r] = "gone"
=============================================================================
