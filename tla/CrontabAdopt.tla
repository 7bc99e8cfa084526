---------------------------- MODULE CrontabAdopt ----------------------------
(***************************************************************************)
(* `cronix adopt` (go/internal/backends/crontab/adopt.go) beside apply,    *)
(* prune and an editor: it finds the lines that somebody has written for a *)
(* job, in a crontab read without the lock, and marks them under the lock, *)
(* counting lines as it has read them.                                     *)
(***************************************************************************)
EXTENDS CrontabApply

CONSTANT HandWritten   \* the crontabs to begin with, without cronix's markers

VARIABLE adopter   \* where the adoption is, with the crontab it has read

adoptVars == <<vars, adopter>>

Rests == [at |-> "rest"]

\* The lines written for the job j and not marked as anybody's.
Candidates(ls, j) ==
  {n \in DOMAIN ls :
     /\ ls[n].kind = "schedule" /\ ls[n].job = j
     /\ ~(n < Len(ls) /\ IsOwner(ls[n + 1]))}

\* For each schedule the first candidate with its expression that no earlier
\* one has taken, 0 if there is none.
Match(ls, j, v) ==
  LET free(taken, cron) ==
        {n \in Candidates(ls, j) : ls[n].cron = cron /\ n \notin Range(taken)}
      take(taken, cron) ==
        Append(taken,
               IF free(taken, cron) = {} THEN 0 ELSE Min(free(taken, cron)))
  IN  FoldLeft(take, <<>>, Schedules[v])

\* Insertion from the top, which shifts what is still to come.
MarkFromTop(ls, at, j, v) ==
  LET order == SetToSortSeq(DOMAIN at, LAMBDA a, b : at[a] < at[b])
      mark(out, n) == InsertAt(out, at[n] + 1, OwnerLine(j, Hash(v, n - 1), n - 1))
  IN  FoldLeft(mark, ls, order)

\* The marker in place of the line.
MarkOver(ls, at, j, v) ==
  [n \in DOMAIN ls |->
     IF \E k \in DOMAIN at : at[k] = n
       THEN OwnerLine(j, Hash(v, 0), 0) ELSE ls[n]]

\* The marker of each schedule below its line, from the last line up.
Mark(ls, at, j, v) ==
  LET order == SetToSortSeq(DOMAIN at, LAMBDA a, b : at[a] > at[b])
      mark(out, n) == InsertAt(out, at[n] + 1, OwnerLine(j, Hash(v, n - 1), n - 1))
  IN  FoldLeft(mark, ls, order)

-----------------------------------------------------------------------------
AdoptInit ==
  /\ lines \in HandWritten
  /\ edits = 0
  /\ CommandInit
  /\ adopter = Rests

\* The first read.  A schedule that cron cannot express diverges.
AdoptRead(j, v) ==
  /\ adopter = Rests
  /\ Range(Schedules[v]) \subseteq Cron
  /\ adopter' = [at |-> "list", job |-> j, version |-> v, read |-> lines]
  /\ UNCHANGED vars

\* List reads the crontab again: all managed already, divergences either way,
\* or every schedule has its candidate and every candidate its schedule.
AdoptDecide ==
  /\ adopter.at = "list"
  /\ LET j == adopter.job
         v == adopter.version
         candidates == Candidates(adopter.read, j)
         match == Match(adopter.read, j, v)
         managed == SelectSeq(List(lines), LAMBDA e : e.job = j)
         already == Len(managed) = Len(Schedules[v]) /\ candidates = {}
     IN  adopter' = IF ~already /\ Range(match) = candidates
                      THEN [adopter EXCEPT !.at = "mark"] ELSE Rests
  /\ UNCHANGED vars

\* Under the lock the crontab is read a third time.  If it has become too short
\* for the numbers of the lines, the insertion panics.
AdoptMark ==
  /\ adopter.at = "mark"
  /\ LET at == Match(adopter.read, adopter.job, adopter.version)
     IN  lines' = IF Max(Range(at)) <= Len(lines)
                    THEN Mark(lines, at, adopter.job, adopter.version)
                    ELSE lines
  /\ adopter' = Rests
  /\ UNCHANGED <<edits, commandVars>>

AdoptKilled ==
  /\ adopter # Rests
  /\ adopter' = Rests
  /\ UNCHANGED vars

\* Somebody schedules a job without cronix's markers.
WriteByHand ==
  /\ edits < MaxEdits
  /\ edits' = edits + 1
  /\ \E j \in Job, cron \in Cron :
       lines' = Append(lines, ScheduleLine(j, cron))
  /\ UNCHANGED <<commandVars, adopter>>

AdoptNext ==
  \/ Next /\ UNCHANGED adopter
  \/ \E m \in Manifest : \E j \in DOMAIN m.jobs : AdoptRead(j, m.jobs[j])
  \/ AdoptDecide
  \/ AdoptMark
  \/ AdoptKilled
  \/ WriteByHand

AdoptSpec == AdoptInit /\ [][AdoptNext]_adoptVars

-----------------------------------------------------------------------------
\* An adoption past its checks has a line for each schedule.
AdoptTypeOK ==
  /\ adopter.at \in {"rest", "list", "mark"}
  /\ adopter.at = "mark" =>
       0 \notin Range(Match(adopter.read, adopter.job, adopter.version))
  /\ CommandTypeOK

Unmarked(ls) == SelectSeq(ls, LAMBDA line : ~IsOwner(line))

\* "The original line [...] is preserved byte-for-byte; only the ownership
\* annotation is added" (cli/commands/adopt.go:30-32): whatever has happened to
\* the crontab since adopt read it, adopt adds a marker for each schedule, or
\* none, and changes no other line.
OnlyMarksAdded ==
  AdoptMark =>
    LET n == Len(lines') - Len(lines)
    IN  /\ Unmarked(lines') = Unmarked(lines)
        /\ n \in {0, Len(Schedules[adopter.version])}
        /\ \A e \in Range(List(lines)) : e \in Range(List(lines'))

\* If the job had no marker and the crontab is still the one that adopt has
\* read, every marker is right below a line with the expression of its
\* schedule, and the next plan has nothing to do for the job.
AdoptedIsInstalled ==
  LET j == adopter.job
      v == adopter.version
  IN  AdoptMark /\ lines = adopter.read /\ (\A e \in Range(List(lines)) : e.job # j)
      => /\ \A n \in DOMAIN lines' :
              IsOwner(lines'[n]) /\ lines'[n].job = j =>
                lines'[n - 1] = ScheduleLine(j, Schedules[v][lines'[n].index + 1])
         /\ ListedHashes(List(lines'), j) = DesiredHashes(v)
=============================================================================
