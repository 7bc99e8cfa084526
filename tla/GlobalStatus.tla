---------------------------- MODULE GlobalStatus ----------------------------
(***************************************************************************)
(* `cronix global-status`: runGlobalStatus and queryOne                    *)
(* (go/internal/cli/commands/global_status.go), one goroutine per backend  *)
(* of the config behind a semaphore, each with a deadline, and one list of *)
(* results under a mutex.                                                  *)
(***************************************************************************)
EXTENDS Integers, Sequences, SequencesExt, FiniteSets

CONSTANTS
  Backends,    \* how many backends the config has
  Parallels    \* the values of --parallel

VARIABLES
  filter,     \* the backends that --backend names, all of them without it
  parallel,   \* --parallel
  loop,       \* the backend the loop of the main goroutine is at
  worker,     \* the goroutine of each backend
  slots,      \* the goroutines with a slot of sem
  results,
  main

StatusAssumption == Backends \in Nat /\ Parallels \subseteq Int
ASSUME StatusAssumption

statusVars == <<filter, parallel, loop, worker, slots, results, main>>

Entry == 1..Backends

\* What List and History made of the backend: rows, or the error of the
\* build, the call or the deadline.
Answer == {"rows", "error"}

AtLeastOne(n) == IF n < 1 THEN 1 ELSE n

Idle == [pc |-> "none", answer |-> "none"]

-----------------------------------------------------------------------------
StatusInit ==
  /\ filter \in SUBSET Entry /\ parallel \in Parallels
  /\ loop = 1 /\ slots = {} /\ results = <<>>
  /\ worker = [e \in Entry |-> Idle]
  /\ main = "loop"

Goes(e, pc) == worker' = [worker EXCEPT ![e].pc = pc]

Skip ==
  /\ main = "loop" /\ loop \in Entry \ filter
  /\ loop' = loop + 1
  /\ UNCHANGED <<filter, parallel, worker, slots, results, main>>

\* The goroutine starts before it has a slot.
StartAtOnce ==
  /\ main = "loop" /\ loop \in filter
  /\ slots' = slots \cup {loop}
  /\ Goes(loop, "query")
  /\ loop' = loop + 1
  /\ UNCHANGED <<filter, parallel, results, main>>

\* The send to sem blocks while the buffer is full.
Start ==
  /\ main = "loop" /\ loop \in filter
  /\ Cardinality(slots) < AtLeastOne(parallel)
  /\ slots' = slots \cup {loop}
  /\ Goes(loop, "query")
  /\ loop' = loop + 1
  /\ UNCHANGED <<filter, parallel, results, main>>

\* queryOne returns, at the deadline at the latest.
Query(e, answer) ==
  /\ worker[e].pc = "query"
  /\ worker' = [worker EXCEPT ![e] = [pc |-> "append", answer |-> answer]]
  /\ UNCHANGED <<filter, parallel, loop, slots, results, main>>

Row(e) == [entry |-> e, answer |-> worker[e].answer]

\* Two appends without the mutex may write the same place.
CollectUnlocked(e) ==
  /\ worker[e].pc = "append"
  /\ \/ results' = Append(results, Row(e))
     \/ results # <<>> /\ results' = [results EXCEPT ![Len(results)] = Row(e)]
  /\ Goes(e, "collected")
  /\ UNCHANGED <<filter, parallel, loop, slots, main>>

Collect(e) ==
  /\ worker[e].pc = "append"
  /\ results' = Append(results, Row(e))
  /\ Goes(e, "collected")
  /\ UNCHANGED <<filter, parallel, loop, slots, main>>

\* A backend that failed keeps its slot.
FreeAfterRows(e) ==
  /\ worker[e].pc = "collected"
  /\ slots' = IF worker[e].answer = "rows" THEN slots \ {e} ELSE slots
  /\ Goes(e, "freed")
  /\ UNCHANGED <<filter, parallel, loop, results, main>>

\* The deferred receive from sem.
Free(e) ==
  /\ worker[e].pc = "collected"
  /\ slots' = slots \ {e}
  /\ Goes(e, "freed")
  /\ UNCHANGED <<filter, parallel, loop, results, main>>

\* The deferred wg.Done.
Finish(e) ==
  /\ worker[e].pc = "freed"
  /\ Goes(e, "done")
  /\ UNCHANGED <<filter, parallel, loop, slots, results, main>>

\* The rows that a stable sort by the place in the config puts up to row i.
UpTo(rows, i) ==
  {k \in DOMAIN rows : \/ rows[k].entry < rows[i].entry
                       \/ rows[k].entry = rows[i].entry /\ k <= i}

Sorted(rows) ==
  [n \in DOMAIN rows |->
     rows[CHOOSE i \in DOMAIN rows : Cardinality(UpTo(rows, i)) = n]]

\* wg.Wait, then the sort.
Report ==
  /\ main = "loop" /\ loop > Backends
  /\ \A e \in Entry : worker[e].pc \in {"none", "done"}
  /\ results' = Sorted(results)
  /\ main' = "done"
  /\ UNCHANGED <<filter, parallel, loop, worker, slots>>

Work(e) ==
  \/ \E answer \in Answer : Query(e, answer)
  \/ Collect(e) \/ Free(e) \/ Finish(e)

StatusNext == Skip \/ Start \/ Report \/ \E e \in Entry : Work(e)

StatusSpec == StatusInit /\ [][StatusNext]_statusVars

\* The Go scheduler runs every goroutine that can run.
StatusFairness ==
  /\ WF_statusVars(Skip \/ Start \/ Report)
  /\ \A e \in Entry : WF_statusVars(Work(e))

-----------------------------------------------------------------------------
Working == {e \in Entry : worker[e].pc \in {"query", "append", "collected"}}

\* "concurrent backend queries" (the help of --parallel): no more goroutines
\* than slots are between their start and the release of the slot.
StatusTypeOK ==
  /\ main \in {"loop", "done"} /\ loop \in 1..(Backends + 1)
  /\ Working \subseteq slots /\ Cardinality(Working) <= AtLeastOne(parallel)

\* The report has every chosen backend once, in the order of the config, with
\* the answer its own query got, however the goroutines interleave.
ReportComplete ==
  main = "done" =>
    /\ Len(results) = Cardinality(filter)
    /\ {results[i].entry : i \in DOMAIN results} = filter
    /\ \A i \in DOMAIN results :
         /\ results[i] = Row(results[i].entry)
         /\ i > 1 => results[i - 1].entry < results[i].entry

\* The command comes to its end: the loop, which waits for slots, and the
\* goroutines, which give them back, do not wait for each other.
StatusEnds == main = "loop" ~> main = "done"
=============================================================================
