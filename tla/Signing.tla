------------------------------- MODULE Signing -------------------------------
(***************************************************************************)
(* The verifier of the Cronix-Signature header, twice: auth.Verify in Go   *)
(* (go/internal/auth/auth.go) and verify in TypeScript                     *)
(* (ts/packages/sdk/src/core/auth.ts).  A header is its comma-separated    *)
(* segments; a signature is the secret it was made with and the time it    *)
(* was made for; hex digits and HMACs are not computed.                    *)
(***************************************************************************)
EXTENDS Integers, Sequences, SequencesExt, FiniteSets

CONSTANTS
  Times,         \* the timestamps of headers and the times of clocks
  DefaultSkew,   \* ReplayWindowDefaultSeconds
  Calls,         \* the options a verifier is called with, and its clock
  Secret,        \* the secrets signatures are made with
  Accepted,      \* the lists of secrets a verifier may have
  Absent         \* no segment of a key, or an option left out

\* The time and the window may be left out; an option of Go that is left out
\* is 0.
Call == [now : Times \cup {Absent}, skew : Nat \cup {Absent}, clock : Times]

ASSUME SigningAssumption ==
  /\ Times \in SUBSET Nat /\ DefaultSkew \in Nat /\ Absent \notin Nat
  /\ Calls \in SUBSET Call

VARIABLE header

\* A segment without "=", one with another key, t= with a non-negative
\* integer (plain, with a sign, past 2^53), t= with anything else, v1= with
\* 64 hex digits (the signature of a time by a secret), with 64 characters
\* that are not all hex, and with another length.
Stamp == [key : {"t"}, form : {"plain", "signed", "unsafe"}, time : Times]
Mac == [key : {"v1"}, form : {"hex"}, by : Secret, time : Times]
Odd == {[key |-> "none"], [key |-> "other"], [key |-> "t", form |-> "bad"],
        [key |-> "v1", form |-> "nonhex"], [key |-> "v1", form |-> "short"]}
Segment == Stamp \cup Mac \cup Odd

Malformed == [verdict |-> "MalformedHeader"]
Stale == [verdict |-> "StaleTimestamp"]
Mismatch == [verdict |-> "SignatureMismatch"]

\* Where h has a segment of key k.
Named(h, k) == {i \in DOMAIN h : h[i].key = k}

\* The segment of key k that survives: the last one overwrites the others.
LastOf(h, k) == IF Named(h, k) = {} THEN Absent ELSE h[Max(Named(h, k))]

\* The first one does.
FirstOf(h, k) == IF Named(h, k) = {} THEN Absent ELSE h[Min(Named(h, k))]

\* Index 0 is the first secret that is not empty and made the signature.
FirstMatch(secrets, ts, mac) ==
  LET matching == {i \in DOMAIN secrets :
                     secrets[i] # "" /\ secrets[i] = mac.by /\ ts = mac.time}
  IN IF matching = {} THEN Mismatch
     ELSE [verdict |-> "ok",
           index |-> CHOOSE i \in matching : \A k \in matching : i <= k]

Distance(a, b) == IF a < b THEN b - a ELSE a - b

-----------------------------------------------------------------------------
(* Go.                                                                     *)

\* parseHeader: the loop rejects what it cannot use; hex is decoded after it.
GoParses(h) ==
  /\ h # <<>>
  /\ \A s \in Range(h) :
       /\ s.key # "none"
       /\ s.key = "t" => s.form # "bad"
       /\ s.key = "v1" => s.form # "short"
  /\ LastOf(h, "t") # Absent
  /\ LastOf(h, "v1") # Absent
  /\ LastOf(h, "v1").form = "hex"

\* A time or a window of 0 is one that was left out.
GoVerify(secrets, h, call) ==
  LET orIfZero(x, d) == IF x \in {0, Absent} THEN d ELSE x
      t == LastOf(h, "t")
  IN IF secrets = <<>> \/ ~GoParses(h) THEN Malformed
     ELSE IF Distance(orIfZero(call.now, call.clock), t.time)
               > orIfZero(call.skew, DefaultSkew) THEN Stale
     ELSE FirstMatch(secrets, t.time, LastOf(h, "v1"))

(* TypeScript.                                                             *)

\* parseHeader: digits only, a safe integer, and hex checked in the loop.
TsParses(h) ==
  /\ h # <<>>
  /\ \A s \in Range(h) :
       /\ s.key # "none"
       /\ s.key = "t" => s.form = "plain"
       /\ s.key = "v1" => s.form = "hex"
  /\ LastOf(h, "t") # Absent
  /\ LastOf(h, "v1") # Absent

\* opts.now ?? the clock, opts.maxSkewSeconds ?? the default: 0 is 0.
IsStale(call, t) ==
  LET orElse(x, d) == IF x = Absent THEN d ELSE x
  IN  Distance(orElse(call.now, call.clock), t.time) > orElse(call.skew, DefaultSkew)

\* The first signature of the header is the one that counts.
TsVerifyFirst(secrets, h, call) ==
  IF secrets = <<>> \/ ~TsParses(h) THEN Malformed
  ELSE LET t == LastOf(h, "t")
       IN IF IsStale(call, t) THEN Stale
          ELSE FirstMatch(secrets, t.time, FirstOf(h, "v1"))

TsVerify(secrets, h, call) ==
  IF secrets = <<>> \/ ~TsParses(h) THEN Malformed
  ELSE LET t == LastOf(h, "t")
       IN IF IsStale(call, t) THEN Stale
          ELSE FirstMatch(secrets, t.time, LastOf(h, "v1"))

-----------------------------------------------------------------------------
\* What the two languages read differently: a sign before the digits and
\* timestamps past 2^53, which only Go takes (strconv.ParseInt), and a
\* signature that is not hex before one that is.
ReadsAlike(h) ==
  /\ \A s \in Range(h) : s.key = "t" => s.form \in {"plain", "bad"}
  /\ Cardinality(Named(h, "v1")) > 1 =>
       [key |-> "v1", form |-> "nonhex"] \notin Range(h)

\* "The 35 vectors [are] the authoritative correctness contract"
\* (concepts/auth.md:146).  For every call that does not give the time as 0:
\* the two verifiers give the same verdict and the same secret index on every
\* header that names its time and signature in the common form, whatever else
\* the header repeats, lacks or garbles, unless the window is given as 0; and
\* on every header, with every window, TypeScript accepts nothing that Go
\* refuses.  A time given as 0 is the clock's for Go and 1970 for TypeScript,
\* and a window given as 0 is the default for Go and none for TypeScript.
VerifiersAgree ==
  \A secrets \in Accepted, call \in Calls :
    call.now # 0 =>
      LET go == GoVerify(secrets, header, call)
          ts == TsVerify(secrets, header, call)
      IN /\ ReadsAlike(header) /\ call.skew # 0 => go = ts
         /\ ts.verdict = "ok" => go = ts
=============================================================================
