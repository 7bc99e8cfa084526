---------------------------- MODULE VercelApply ----------------------------
(***************************************************************************)
(* The Vercel backend (go/internal/backends/vercel) under apply and prune. *)
(* The crons are a list in vercel.json, beside what the user has there.    *)
(* A cron is cronix's by its path, which tells the job but not the app.    *)
(***************************************************************************)
EXTENDS BackendCalls

CONSTANTS
  Path,       \* the paths with the trigger prefix, a number each
  UserCron,   \* a cron of the user's own
  PathOf,     \* the path of each job
  Unnamed,    \* for each path, its job under the empty app
  Valid,      \* the schedules that Vercel can express, a number each
  UserKeys,   \* what else the user has in vercel.json
  MaxCrons    \* bound of the model: crons in vercel.json

VercelAssumption ==
  /\ Path \subseteq Nat /\ PathOf \in [Job -> Path]
  /\ \A p \in Path : PathOf[Unnamed[p]] = p /\ AppOf[Unnamed[p]] = ""
  /\ \A mf \in Manifest : mf.app # ""
  /\ UserCron.path \in Nat \ Path

VARIABLES file   \* vercel.json

vars == <<file, callVars>>

Owned(crons) == SelectSeq(crons, LAMBDA cron : cron.path \in Path)

\* read: a file that is missing or empty has nothing.
Read ==
  IF file \in {None, Torn} THEN [crons |-> <<>>, others |-> {}] ELSE file

\* MarshalJSON: the crons sorted, whatever else the document has.
Encode(doc) ==
  [doc EXCEPT !.crons =
     SortSeq(@, LAMBDA a, b : \/ a.path < b.path
                              \/ a.path = b.path /\ a.schedule < b.schedule)]

\* List: the app is empty, and the hash is made of path and schedule.
List ==
  LET crons == Owned(Read.crons)
      before(k) == {n \in 1..k - 1 : crons[n].path = crons[k].path}
  IN  [k \in DOMAIN crons |->
         [job |-> Unnamed[crons[k].path], hash |-> crons[k],
          index |-> Cardinality(before(k))]]

\* The crons of a job in place of those that are there.
AddOnly(doc, p, schedules) ==
  [doc EXCEPT !.crons =
     [n \in DOMAIN schedules |-> [path |-> p, schedule |-> schedules[n]]]]

\* The crons of a job after those that are there.
AddCrons(doc, p, schedules) ==
  [doc EXCEPT !.crons =
     @ \o [n \in DOMAIN schedules |-> [path |-> p, schedule |-> schedules[n]]]]

RemoveCrons(doc, p) ==
  [doc EXCEPT !.crons = SelectSeq(@, LAMBDA cron : cron.path # p)]

(* The calls of an operation: each reads the file and rewrites it.         *)

DeleteCalls(j) == <<[do |-> "remove", path |-> PathOf[j]]>>

\* An invalid schedule is found before anything is written.
CreateCalls(j, v) ==
  IF Range(Schedules[v]) \subseteq Valid
    THEN <<[do |-> "add", path |-> PathOf[j], schedules |-> Schedules[v]]>>
    ELSE Refuse

UpdateCalls(j, v) == DeleteCalls(j) \o CreateCalls(j, v)

-----------------------------------------------------------------------------
\* No vercel.json, or the user's.
Init ==
  /\ file \in {None, [crons |-> <<UserCron>>, others |-> UserKeys]}
  /\ CallsInit

OneJob(c) ==
  Operation(c, DeleteCalls, UpdateCalls, CreateCalls) /\ UNCHANGED file

\* os.WriteFile truncates the file ...
Truncate(c, doc) ==
  /\ file' = Torn
  /\ NextCall(c, <<[do |-> "fill", doc |-> Encode(doc)]>>)

RewriteWithout(c) ==
  LET call == Head(calls[c])
  IN  call.do = "remove" /\ Truncate(c, RemoveCrons(Read, call.path))

RewriteWith(c) ==
  LET call == Head(calls[c])
      doc == AddCrons(Read, call.path, call.schedules)
  IN  call.do = "add" /\ Len(doc.crons) <= MaxCrons /\ Truncate(c, doc)

\* ... and writes it.
Fill(c) ==
  /\ Head(calls[c]).do = "fill"
  /\ file' = Head(calls[c]).doc
  /\ NextCall(c, <<>>)

\* The next call succeeds.
RunCall(c) == calls[c] # <<>> /\ (RewriteWithout(c) \/ RewriteWith(c) \/ Fill(c))

Other(c) == Between(c, List) /\ UNCHANGED file

Stops(c) == Abort(c) /\ UNCHANGED file

\* The user removes a cron.
EditByHand ==
  /\ ByHand
  /\ \E n \in DOMAIN Read.crons :
       file' = [file EXCEPT !.crons = RemoveAt(@, n)]

Next ==
  \/ \E c \in Command : OneJob(c) \/ RunCall(c) \/ Other(c) \/ Stops(c)
  \/ EditByHand

Spec == Init /\ [][Next]_vars

-----------------------------------------------------------------------------
\* The crons that are there, sorted as they were written.
TypeOK ==
  /\ file \notin {None, Torn} => file = Encode(file) /\ Len(file.crons) <= MaxCrons
  /\ CallsTypeOK

UserPart(doc) ==
  [crons |-> SelectSeq(doc.crons, LAMBDA cron : cron.path \notin Path),
   others |-> doc.others]

\* What a command writes in place of the file that it has truncated has the
\* user's crons and other keys as they were in that file ("unknown fields are
\* preserved verbatim", vercel.go:211-213).  If it dies in between, they are
\* lost, and the next command takes the empty file for a new one.
UserKept ==
  file # Torn /\ file' = Torn =>
    \E c \in Command :
      /\ calls'[c] # <<>> /\ Head(calls'[c]).do = "fill"
      /\ UserPart(Head(calls'[c]).doc) = UserPart(Read)

\* An apply that succeeds leaves every schedule of its manifest in the file,
\* whatever was torn before.
AppliedIsScheduled ==
  \A c \in Command :
    Succeeds(c) =>
      \A j \in DOMAIN want[c].jobs :
        {[path |-> PathOf[j], schedule |-> s] :
           s \in Range(Schedules[want[c].jobs[j]])}
          \subseteq Range(Read.crons)
=============================================================================
