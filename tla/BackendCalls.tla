---------------------------- MODULE BackendCalls ----------------------------
(***************************************************************************)
(* Backends whose operations are sequences of calls to another program,    *)
(* with no lock around them: an operation may stop between any two calls.  *)
(* The module of a backend says which calls an operation makes and what    *)
(* they do.                                                                *)
(***************************************************************************)
EXTENDS ApplyCommand

CONSTANTS MaxEdits     \* bound of the model: changes made by hand

ASSUME CallsAssumption == MaxEdits \in Nat

VARIABLES
  calls,    \* what is left of the operation of each command
  edits     \* the changes made by hand so far

callVars == <<calls, edits, commandVars>>

\* A call that no backend has: it stands for an error found on the way.
Refusal == [do |-> "refuse"]
Refuse == <<Refusal>>

CallsInit ==
  /\ calls = [c \in Command |-> <<>>]
  /\ edits = 0
  /\ CommandInit

\* The command c begins the operation that makes these calls.
Begin(c, ops) ==
  /\ calls[c] = <<>>
  /\ calls' = [calls EXCEPT ![c] = ops]
  /\ UNCHANGED edits

\* An operation of the backend on the next job of the pass.
Operation(c, Deletes(_), Updates(_, _), Creates(_, _)) ==
  \E j \in Job :
    \/ CallDelete(c, j) /\ Begin(c, Deletes(j))
    \/ CallUpdate(c, j) /\ Begin(c, Updates(j, want[c].jobs[j]))
    \/ CallCreate(c, j) /\ Begin(c, Creates(j, want[c].jobs[j]))

\* The next call of c, which leaves rest to do before the others.
NextCall(c, rest) ==
  /\ calls[c] # <<>>
  /\ calls' = [calls EXCEPT ![c] = rest \o Tail(@)]
  /\ UNCHANGED <<edits, commandVars>>

\* The steps of a command that make no such call, given what List returns.
Between(c, entries) ==
  /\ calls[c] = <<>>
  /\ \/ \E m \in Manifest : Apply(c, m)
     \/ Prune(c, entries) \/ ComputePlan(c, entries)
     \/ NextPass(c) \/ SpecStep(c)
  /\ UNCHANGED <<calls, edits>>

\* A call fails, or the command is killed.
Abort(c) ==
  /\ Fail(c)
  /\ calls' = [calls EXCEPT ![c] = <<>>]
  /\ UNCHANGED edits

\* Somebody changes something by hand, not during a command.
ByHand ==
  /\ edits < MaxEdits
  /\ edits' = edits + 1
  /\ \A c \in Command : pc[c] \in Stopped
  /\ UNCHANGED <<calls, commandVars>>

\* A command has calls left only within an operation.
CallsTypeOK ==
  /\ \A c \in Command :
       calls[c] # <<>> => pc[c] \in {"delete", "prune", "update", "create"}
  /\ edits \in 0..MaxEdits
  /\ CommandTypeOK
=============================================================================
