------------------------------ MODULE History ------------------------------
(***************************************************************************)
(* The history of a job from the log of its shims: what trigger.Run writes *)
(* (go/internal/trigger/shim.go) and how FoldShimLogs                      *)
(* (go/internal/backends/historyutil/historyutil.go) folds the lines of a  *)
(* journal into one entry per run.                                         *)
(***************************************************************************)
EXTENDS Naturals, Sequences, SequencesExt, FiniteSets

CONSTANTS
  Run,            \* the runs of the job
  MaxAttempts,    \* policy.retries.max_attempts
  MaxOther,       \* how many lines that say nothing of these runs there are
  None

VARIABLES
  log,   \* the lines of the journal, oldest first
  run    \* where each run is, and the attempts it has made

historyVars == <<log, run>>

Ended == {"success", "app rejected", "retries exhausted", "lock contended",
          "panic"}
Failed == {"attempt failed", "server error"}

\* ClassifyShimEvent.
Status(msg) ==
  IF msg = "success" THEN "ok"
  ELSE IF msg = "lock contended" THEN "lock-contended"
  ELSE IF msg \in Ended \cup Failed THEN "failed"
  ELSE None

-----------------------------------------------------------------------------
HistoryInit ==
  /\ log = <<>>
  /\ run = [r \in Run |-> [phase |-> "new", attempt |-> 0]]

Writes(r, job, msg, attempt) ==
  log' = Append(log, [run |-> r, job |-> job, msg |-> msg,
                      attempt |-> attempt, at |-> Len(log) + 1])

Logs(r, msg, attempt) == Writes(r, "job", msg, attempt)

\* A line without the attribute "attempt" is read with 0.
Ends(r, msg) ==
  /\ run[r].phase \in {"new", "retrying"}
  /\ \/ msg = "lock contended" /\ run[r].phase = "new" /\ Logs(r, msg, 0)
     \/ msg = "panic" /\ Logs(r, msg, 0)
     \/ /\ msg \in {"success", "app rejected"} /\ run[r].attempt < MaxAttempts
        /\ Logs(r, msg, run[r].attempt + 1)
     \/ /\ msg = "retries exhausted" /\ run[r].attempt = MaxAttempts
        /\ Logs(r, msg, 0)
  /\ run' = [run EXCEPT ![r].phase = msg]

\* A shim that is killed writes no more.
Fails(r, msg) ==
  /\ run[r].phase \in {"new", "retrying"} /\ run[r].attempt < MaxAttempts
  /\ Logs(r, msg, run[r].attempt + 1)
  /\ run' = [run EXCEPT ![r] = [phase |-> "retrying", attempt |-> @.attempt + 1]]

\* Lines of the lock and the release, and the runs of the host's other jobs.
Unrelated ==
  /\ Cardinality({i \in DOMAIN log :
                   log[i].msg = "other" \/ log[i].job # "job"}) < MaxOther
  /\ \/ \E r \in Run : Logs(r, "other", 0)
     \/ Writes(None, "other", "success", 1)
  /\ UNCHANGED run

HistoryNext ==
  \/ \E r \in Run : \/ \E msg \in Ended : Ends(r, msg)
                    \/ \E msg \in Failed : Fails(r, msg)
  \/ Unrelated

HistorySpec == HistoryInit /\ [][HistoryNext]_historyVars

-----------------------------------------------------------------------------
Index(entries, r) == SelectInSeq(entries, LAMBDA e : e.run = r)

EntryOf(line, started) ==
  [run |-> line.run, status |-> Status(line.msg), attempt |-> line.attempt,
   finished |-> line.at, started |-> started]

\* The first line of a run is the one that stays.
TakeFirst(entries, line) ==
  IF line.job # "job" \/ Status(line.msg) = None \/ Index(entries, line.run) > 0
    THEN entries
    ELSE Append(entries, EntryOf(line, line.at))

\* The body of the loop: a run's first line makes its entry, a later one
\* replaces it, but for the start, if it ends the run.
Take(entries, line) ==
  LET i == Index(entries, line.run)
  IN IF line.job # "job" \/ Status(line.msg) = None THEN entries
     ELSE IF i = 0 THEN Append(entries, EntryOf(line, line.at))
     ELSE IF line.msg \in Ended
       THEN [entries EXCEPT ![i] = EntryOf(line, @.started)]
     ELSE entries

FoldShimLogs(lines, filter) ==
  SelectSeq(FoldLeft(LAMBDA entries, line : Take(entries, line), <<>>, lines),
            LAMBDA e : filter \in {None, e.status})

-----------------------------------------------------------------------------
\* What the run ended with, as the user reads it.
Outcome(r) ==
  IF run[r].phase \in Ended THEN Status(run[r].phase) ELSE "failed"

InWindow(lines, r) ==
  {i \in DOMAIN lines : lines[i].run = r /\ Status(lines[i].msg) # None}

\* "Returns one HistoryEntry per run_id, keeping the *terminal* status"
\* (historyutil.go:43-44): however old a line the window still shows, and
\* however the lines of the runs mix, the entries are those of the runs of
\* the job with a line in it, each once, in the order of their first lines,
\* with what the run ended with and the times of its first and last line;
\* with a filter on the status, exactly those that ended so.
HistoryIsTrue ==
  \A old \in 0..Len(log), filter \in {None, "failed"} :
    LET lines == SubSeq(log, old + 1, Len(log))
        told == FoldShimLogs(lines, filter)
        First(r) == lines[Min(InWindow(lines, r))].at
    IN /\ {e.run : e \in Range(told)} =
            {r \in Run : InWindow(lines, r) # {} /\ filter \in {None, Outcome(r)}}
       /\ \A i \in DOMAIN told :
            /\ told[i].status = Outcome(told[i].run)
            /\ told[i].started = First(told[i].run)
            /\ run[told[i].run].phase \in Ended =>
                 told[i].finished =
                   lines[Max(InWindow(lines, told[i].run))].at
            /\ i > 1 => First(told[i - 1].run) < First(told[i].run)
=============================================================================
