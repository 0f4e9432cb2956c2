---------------------------- MODULE ContextPool ----------------------------
(***************************************************************************)
(* The pool of browser contexts of one worker (ContextPool of              *)
(* service/scraper.py) under the slots of scrape_gate.  A job is one       *)
(* scrape_gate.run(): one attempt of a crawl, or one ad.  It asks for a    *)
(* context once it has a slot, and gives both back when it ends.           *)
(*                                                                         *)
(* The gate is the broker's, as SlotPool promises it: at most as many      *)
(* slots as SCRAPER_MAX_CONCURRENT_TOTAL, which is also the size of the    *)
(* pool.  A restarted broker does not count the slots of earlier grants.   *)
(***************************************************************************)
EXTENDS Integers, FiniteSets

CONSTANTS Jobs,
          MaxSize    \* settings.SCRAPER_MAX_CONCURRENT_TOTAL

ASSUME PoolAssumption == IsFiniteSet(Jobs) /\ MaxSize \in Nat \ {0}

VARIABLES slots,      \* jobs whose slot the broker counts
          uncounted,  \* jobs at work under a grant of an earlier broker
          place,      \* where a job stands in acquire()
          created,    \* _created; the contexts are 1 .. created
          idle,       \* _queue
          context     \* the context of each job, 0 for none (_in_use)

poolVars == <<slots, uncounted, place, created, idle, context>>

Places == {"outside",    \* without a slot
           "granted",    \* with a slot, without a context
           "locking",    \* awaiting _create_lock
           "creating",   \* awaiting _create_ctx(), with the lock
           "waiting",    \* awaiting _queue.get() at the cap
           "holding"}    \* with a context

PoolTypeOK == /\ slots \subseteq Jobs
              /\ uncounted \subseteq Jobs
              /\ place \in [Jobs -> Places]
              /\ created \in 0 .. MaxSize
              /\ idle \subseteq 1 .. MaxSize
              /\ context \in [Jobs -> 0 .. MaxSize]

PoolInit == /\ slots = {}
            /\ uncounted = {}
            /\ place = [j \in Jobs |-> "outside"]
            /\ created = 0
            /\ idle = {}
            /\ context = [j \in Jobs |-> 0]

-----------------------------------------------------------------------------
(* The gate.                                                               *)

\* The broker grants a slot: coro_fn() of the job starts.
Grant(j) == /\ place[j] = "outside"
            /\ Cardinality(slots) < MaxSize
            /\ slots' = slots \cup {j}
            /\ place' = [place EXCEPT ![j] = "granted"]
            /\ UNCHANGED <<uncounted, created, idle, context>>

\* The broker restarts: its new gate counts nothing, the jobs go on.
Forget == /\ uncounted' = uncounted \cup slots
          /\ slots' = {}
          /\ UNCHANGED <<place, created, idle, context>>

\* coro_fn() returned or raised: the slot is given back.
LeaveGate(j) == /\ slots' = slots \ {j}
                /\ uncounted' = uncounted \ {j}
                /\ place' = [place EXCEPT ![j] = "outside"]

\* The job ends before it asked for a context.
GiveUp(j) == /\ place[j] = "granted"
             /\ LeaveGate(j)
             /\ UNCHANGED <<created, idle, context>>

-----------------------------------------------------------------------------
(* ContextPool.acquire() and release().                                    *)

LockFree == \A j \in Jobs : place[j] # "creating"

\* Job j has the context c.
Take(j, c) == /\ place' = [place EXCEPT ![j] = "holding"]
              /\ context' = [context EXCEPT ![j] = c]

\* The body of `async with self._create_lock` up to its await: create below
\* the cap, or wait for a context at it.
UnderLock(j) ==
  /\ place' = [place EXCEPT ![j] = IF created < MaxSize THEN "creating" ELSE "waiting"]
  /\ UNCHANGED <<slots, uncounted, created, idle, context>>

\* Mutant of AskContext: the lock is not there.
AskContext_NoLock(j) ==
  /\ place[j] = "granted"
  /\ \/ \E c \in idle : /\ Take(j, c)
                        /\ idle' = idle \ {c}
                        /\ UNCHANGED <<slots, uncounted, created>>
     \/ idle = {} /\ UnderLock(j)

\* The first step of acquire(): an idle context, or the lock.
AskContext(j) ==
  /\ place[j] = "granted"
  /\ \/ \E c \in idle : /\ Take(j, c)
                        /\ idle' = idle \ {c}
                        /\ UNCHANGED <<slots, uncounted, created>>
     \/ /\ idle = {}
        /\ LockFree /\ \A k \in Jobs : place[k] # "locking"
        /\ UnderLock(j)
     \/ /\ idle = {}
        /\ ~LockFree \/ \E k \in Jobs : place[k] = "locking"
        /\ place' = [place EXCEPT ![j] = "locking"]
        /\ UNCHANGED <<slots, uncounted, created, idle, context>>

\* The lock is free: the queue is not looked at again.
LockTaken(j) == /\ place[j] = "locking"
                /\ LockFree
                /\ UnderLock(j)

\* _create_ctx() returns a new context.
Create(j) == /\ place[j] = "creating"
             /\ created' = created + 1
             /\ Take(j, created + 1)
             /\ UNCHANGED <<slots, uncounted, idle>>

\* Mutant of CreateFails: _created is incremented before the await.
CreateFails_Counted(j) == /\ place[j] = "creating"
                          /\ LeaveGate(j)
                          /\ created' = created + 1
                          /\ UNCHANGED <<idle, context>>

\* _create_ctx() raises: the lock, and then the slot, are given back.
CreateFails(j) == /\ place[j] = "creating"
                  /\ LeaveGate(j)
                  /\ UNCHANGED <<created, idle, context>>

\* _queue.get() returns.
GetContext(j) == /\ place[j] = "waiting"
                 /\ \E c \in idle : Take(j, c) /\ idle' = idle \ {c}
                 /\ UNCHANGED <<slots, uncounted, created>>

\* Mutant of Release: the context goes back only when the job did not raise.
Release_SlotOnly(j) == /\ place[j] = "holding"
                       /\ LeaveGate(j)
                       /\ \/ idle' = idle \cup {context[j]}
                          \/ UNCHANGED idle
                       /\ context' = [context EXCEPT ![j] = 0]
                       /\ UNCHANGED created

\* `finally: await context_pool.release(ctx)`, then the end of gate.run().
Release(j) == /\ place[j] = "holding"
              /\ LeaveGate(j)
              /\ idle' = idle \cup {context[j]}
              /\ context' = [context EXCEPT ![j] = 0]
              /\ UNCHANGED created

PoolStep(j) == \/ AskContext(j) \/ LockTaken(j) \/ Create(j) \/ CreateFails(j)
               \/ GetContext(j)

PoolNext == \/ \E j \in Jobs : Grant(j) \/ GiveUp(j) \/ PoolStep(j) \/ Release(j)
            \/ Forget

PoolSpec == PoolInit /\ [][PoolNext]_poolVars

-----------------------------------------------------------------------------
(* Properties                                                              *)

Holding == {j \in Jobs : place[j] = "holding"}
Waiting == {j \in Jobs : place[j] = "waiting"}

\* No context is lost and none is shared, whichever creations fail and jobs
\* raise: every context ever created is idle, or of exactly one job.
PoolExact ==
  /\ idle \cup {context[j] : j \in Holding} = 1 .. created
  /\ \A j \in Holding : context[j] \notin idle
  /\ \A j, k \in Holding : context[j] = context[k] => j = k

\* A job at the cap finds an idle context at once (scraper.py:1296), except as
\* many as work under grants of an earlier broker: these may outnumber the
\* contexts, and the jobs wait for one another.
ContextAtOnce ==
  Cardinality(Waiting) <= Cardinality(idle) + Cardinality(uncounted)
=============================================================================
