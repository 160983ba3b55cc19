----------------------------- MODULE Schedules -----------------------------
(***************************************************************************)
(* The schedules of the assistant: rows of cron_jobs (recurring ones and   *)
(* one-shot reminders), their runs in cron_runs, the scheduler's tick that *)
(* claims all due rows and then works through its snapshots of them one by *)
(* one, and the routes that change, cancel, delete or run a row meanwhile. *)
(* Every store operation is synchronous; the tick waits between them.      *)
(***************************************************************************)
EXTENDS Naturals

CONSTANTS
    Schedule,     \* the rows that may be created (bound)
    None,         \* no row
    Modes,        \* the modes of the rows
    ByHand,       \* the rows somebody may run by hand (bound)
    MaxCrashes    \* how often the daemon dies (bound)

\* "message" and "task" are the execute mode, with a plain message or "run_task:".
AllModes == {"notify", "message", "task"}

ASSUME NoneAssumption == None \notin Schedule
ASSUME ModesAssumption == Modes \subseteq AllModes
ASSUME BoundsAssumption == ByHand \subseteq Schedule /\ MaxCrashes \in Nat

VARIABLES
    status,     \* status of each row, also "absent" and "deleted"
    cron,       \* the row has an expression: it recurs
    enabled,
    due,        \* nextRunAt has passed
    mode,
    running,    \* how many of the row's runs are "running" in cron_runs
    claimed,    \* snapshots of the rows the tick has claimed and not started
    current,    \* the snapshot it is working on
    ticking,    \* tickRunning
    manual,     \* rows that are being run by hand
    crashes,
    dropped     \* history: rows whose claim was cut short by an error or a crash

rowVars == <<status, cron, enabled, due, mode>>
tickVars == <<claimed, current, ticking>>
vars == <<rowVars, tickVars, running, manual, crashes, dropped>>

Snapshots == [id : Schedule, oneShot : BOOLEAN, mode : Modes]
Nobody == [id |-> None, oneShot |-> FALSE, mode |-> "none"]

TypeOK ==
    /\ status \in [Schedule -> {"absent", "active", "firing", "fired", "cancelled", "deleted"}]
    /\ cron \in [Schedule -> BOOLEAN]
    /\ enabled \in [Schedule -> BOOLEAN]
    /\ due \in [Schedule -> BOOLEAN]
    /\ mode \in [Schedule -> Modes \cup {"none"}]
    /\ running \in [Schedule -> Nat]
    /\ claimed \subseteq Snapshots
    /\ current \in Snapshots \cup {Nobody}
    /\ ticking \in BOOLEAN
    /\ manual \subseteq Schedule
    /\ crashes \in 0..MaxCrashes
    /\ dropped \subseteq Schedule

Init ==
    /\ status = [s \in Schedule |-> "absent"]
    /\ cron = [s \in Schedule |-> FALSE]
    /\ enabled = [s \in Schedule |-> FALSE]
    /\ due = [s \in Schedule |-> FALSE]
    /\ mode = [s \in Schedule |-> "none"]
    /\ running = [s \in Schedule |-> 0]
    /\ claimed = {} /\ current = Nobody /\ ticking = FALSE
    /\ manual = {}
    /\ crashes = 0 /\ dropped = {}

Exists(s) == status[s] \notin {"absent", "deleted"}
-----------------------------------------------------------------------------
(* What users and the agent do to a row *)

Create(s) ==
    /\ status[s] = "absent"
    /\ status' = [status EXCEPT ![s] = "active"]
    /\ \E c, e \in BOOLEAN, md \in Modes :
          /\ cron' = [cron EXCEPT ![s] = c]
          /\ enabled' = [enabled EXCEPT ![s] = e]
          /\ mode' = [mode EXCEPT ![s] = md]
    /\ UNCHANGED <<due, running, tickVars, manual, crashes, dropped>>

\* updateSchedule, to enable or disable a row, and to edit it, perhaps giving it an
\* expression.  A recurring row's next run is then computed anew; a one-shot's time
\* stays, and an expression cannot be taken away.
Toggle(s) ==
    /\ Exists(s)
    /\ \E e \in BOOLEAN : enabled' = [enabled EXCEPT ![s] = e]
    /\ due' = [due EXCEPT ![s] = @ /\ ~cron[s]]
    /\ UNCHANGED <<status, cron, mode, running, tickVars, manual, crashes, dropped>>

Edit(s) ==
    /\ Exists(s)
    /\ \E retimed \in BOOLEAN :
          /\ cron' = [cron EXCEPT ![s] = @ \/ retimed]
          /\ due' = [due EXCEPT ![s] = @ /\ ~retimed]
    /\ \E md \in Modes : mode' = [mode EXCEPT ![s] = md]
    /\ UNCHANGED <<status, enabled, running, tickVars, manual, crashes, dropped>>

\* cancelSchedule applies to a row that has not been claimed.
MayCancel_Firing(s) == status[s] \in {"active", "firing"}
MayCancel(s) == status[s] = "active"

Cancel(s) ==
    /\ MayCancel(s)
    /\ status' = [status EXCEPT ![s] = "cancelled"]
    /\ enabled' = [enabled EXCEPT ![s] = FALSE]
    /\ UNCHANGED <<cron, due, mode, running, tickVars, manual, crashes, dropped>>

\* deleteSchedule; the runs of the row go with it.
Delete(s) ==
    /\ Exists(s)
    /\ status' = [status EXCEPT ![s] = "deleted"]
    /\ cron' = [cron EXCEPT ![s] = FALSE]
    /\ enabled' = [enabled EXCEPT ![s] = FALSE]
    /\ due' = [due EXCEPT ![s] = FALSE]
    /\ mode' = [mode EXCEPT ![s] = "none"]
    /\ running' = [running EXCEPT ![s] = 0]
    /\ UNCHANGED <<tickVars, manual, crashes, dropped>>

\* nextRunAt passes; a recurring row that is disabled has none.
FallsDue(s) ==
    /\ Exists(s) /\ (enabled[s] \/ ~cron[s]) /\ ~due[s]
    /\ due' = [due EXCEPT ![s] = TRUE]
    /\ UNCHANGED <<status, cron, enabled, mode, running, tickVars, manual, crashes, dropped>>

-----------------------------------------------------------------------------
(* Runs of a row, which need the row to exist *)

Opened(s) == [running EXCEPT ![s] = @ + 1]
Closed_Recurring(s) == IF Exists(s) /\ cron[s] THEN [running EXCEPT ![s] = @ - 1] ELSE running
Closed_Unchecked(s) == [running EXCEPT ![s] = @ - 1]
Closed(s) == IF Exists(s) THEN [running EXCEPT ![s] = @ - 1] ELSE running

\* handleRunScheduleNow with a plain message, once at a time for a row (bound); with a
\* task it only adds a finished run.
RunNow(s) ==
    /\ s \in ByHand /\ Exists(s) /\ s \notin manual
    /\ manual' = manual \cup {s}
    /\ running' = Opened(s)
    /\ UNCHANGED <<rowVars, tickVars, crashes, dropped>>

RunNowEnds(s) ==
    /\ s \in manual
    /\ manual' = manual \ {s}
    /\ running' = Closed(s)
    /\ UNCHANGED <<rowVars, tickVars, crashes, dropped>>
-----------------------------------------------------------------------------
(* The tick *)

Claim(s) == [id |-> s, oneShot |-> ~cron[s], mode |-> mode[s]]

\* claimDueSchedules.  A recurring row whose next run cannot be computed is left
\* alone; one without a next run fires a last time and is disabled.
Tick ==
    /\ ~ticking
    /\ ticking' = TRUE
    /\ \E recurring \in SUBSET {s \in Schedule : Exists(s) /\ cron[s] /\ enabled[s] /\ due[s]} :
       \E exhausted \in SUBSET recurring :
          LET oneShots == {s \in Schedule : /\ status[s] = "active" /\ ~cron[s]
                                            /\ enabled[s] /\ due[s]}
          IN  /\ claimed' = {Claim(s) : s \in recurring \cup oneShots}
              /\ status' = [s \in Schedule |-> IF s \in oneShots THEN "firing" ELSE status[s]]
              /\ enabled' = [s \in Schedule |-> enabled[s] /\ s \notin exhausted]
              /\ due' = [s \in Schedule |-> due[s] /\ s \notin recurring]
    /\ UNCHANGED <<cron, mode, running, current, manual, crashes, dropped>>

\* An error nobody catches ends the tick: what it has claimed is not worked on.
Abort ==
    /\ claimed' = {} /\ current' = Nobody
    /\ ticking' = FALSE
    /\ dropped' = dropped \cup {j.id : j \in claimed}

\* The next snapshot, recurring ones first.  A plain message opens a run before
\* it is processed, which fails when the row is gone.
Begins(j) ==
    /\ ticking /\ current = Nobody
    /\ j \in claimed
    /\ j.oneShot => \A i \in claimed : i.oneShot
    /\ IF j.mode = "message" /\ ~Exists(j.id)
       THEN Abort /\ UNCHANGED running
       ELSE /\ claimed' = claimed \ {j}
            /\ current' = j
            /\ running' = IF j.mode = "message" THEN Opened(j.id) ELSE running
            /\ UNCHANGED <<ticking, dropped>>
    /\ UNCHANGED <<rowVars, manual, crashes>>

\* The outcome is recorded as a run of its own, which fails when the row is gone.
RunFails(j) ==
    ~Exists(j.id) /\ (j.mode = "task" \/ (j.mode = "notify" /\ ~j.oneShot))

\* completeOneShot and failOneShot, which apply to a row that is still firing.
Completed(s) == IF status[s] = "firing" THEN "fired" ELSE status[s]
Failed_Lost(s) == status[s]
Failed(s) == IF status[s] = "firing" THEN "active" ELSE status[s]

Leave ==
    /\ current' = Nobody
    /\ running' = IF current.mode = "message" THEN Closed(current.id) ELSE running
    /\ UNCHANGED <<cron, due, mode, claimed, ticking, manual, crashes, dropped>>

Succeeds(s) ==
    /\ current.id = s /\ s # None
    /\ ~RunFails(current)
    /\ IF current.oneShot
       THEN /\ status' = [status EXCEPT ![s] = Completed(s)]
            /\ enabled' = [enabled EXCEPT ![s] = @ /\ status[s] # "firing"]
       ELSE UNCHANGED <<status, enabled>>
    /\ Leave

Fails(s) ==
    /\ current.id = s /\ s # None
    /\ ~RunFails(current)
    /\ status' = [status EXCEPT ![s] = IF current.oneShot THEN Failed(s) ELSE @]
    /\ Leave
    /\ UNCHANGED enabled

\* The run cannot be recorded, neither as a success nor as an error.
Breaks ==
    /\ current # Nobody /\ RunFails(current)
    /\ Abort
    /\ UNCHANGED <<rowVars, running, manual, crashes>>

TickEnds ==
    /\ ticking /\ claimed = {} /\ current = Nobody
    /\ ticking' = FALSE
    /\ UNCHANGED <<rowVars, claimed, current, running, manual, crashes, dropped>>

\* The daemon dies and is started again; the rows stay as they are.
Crash ==
    /\ crashes < MaxCrashes
    /\ crashes' = crashes + 1
    /\ claimed' = {} /\ current' = Nobody /\ ticking' = FALSE
    /\ manual' = {}
    /\ dropped' = dropped \cup ({j.id : j \in claimed \cup {current}} \ {None})
    /\ UNCHANGED <<rowVars, running>>
-----------------------------------------------------------------------------
Next ==
    \/ \E s \in Schedule :
          \/ Create(s) \/ Toggle(s) \/ Edit(s) \/ Cancel(s) \/ Delete(s) \/ FallsDue(s)
          \/ RunNow(s) \/ RunNowEnds(s) \/ Succeeds(s) \/ Fails(s)
    \/ \E j \in claimed : Begins(j)
    \/ Tick \/ Breaks \/ TickEnds \/ Crash

Spec == Init /\ [][Next]_vars

\* The timer fires, the tick works through its snapshots, what it starts ends, and
\* what is tried again and again succeeds at last.
Fairness ==
    /\ WF_vars(Tick) /\ WF_vars(TickEnds) /\ WF_vars(Breaks)
    /\ WF_vars(\E j \in claimed : Begins(j))
    /\ \A s \in Schedule : SF_vars(Succeeds(s)) /\ WF_vars(Succeeds(s) \/ Fails(s))

FairSpec == Spec /\ Fairness
-----------------------------------------------------------------------------
Held(s) == \E j \in claimed \cup {current} : j.id = s /\ j.oneShot

\* A row that is "firing" is in the hands of the tick: nothing else ever looks at
\* it again, so any way to let go of it without settling it loses the reminder.
FiringIsHeld == \A s \in Schedule : status[s] = "firing" => Held(s) \/ s \in dropped

\* A one-shot starts only while its row says so: a user told that it is cancelled
\* never sees it run.
CancelledNeverRuns ==
    [][current' # current /\ current'.oneShot =>
            status[current'.id] \in {"firing", "deleted"}]_vars

\* The runs of a row that somebody is still going to close.
UnderWay(s) == (IF s \in manual THEN 1 ELSE 0)
               + (IF current.id = s /\ current.mode = "message" THEN 1 ELSE 0)

\* While the daemon lives, the runs in the database that say "running" are the ones
\* under way, through failures, manual runs beside the tick's, and deletions.
RunsAreClosed ==
    crashes = 0 => \A s \in Schedule : Exists(s) =>
        running[s] = UnderWay(s)

\* A reminder that is due fires in the end, unless it is changed, or the tick that
\* claimed it is cut short.
DueOneShotFires ==
    \A s \in Schedule :
        (status[s] = "active" /\ ~cron[s] /\ enabled[s] /\ due[s])
            ~> (status[s] \in {"fired", "cancelled", "deleted"} \/ ~enabled[s] \/ cron[s]
                \/ s \in dropped)

\* "one bad schedule shouldn't block everything": while the daemon lives, no claimed
\* row that is still there is left unworked because of another one.
NothingDropped == crashes = 0 => \A s \in dropped : ~Exists(s)
=============================================================================
