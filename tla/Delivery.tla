------------------------------ MODULE Delivery ------------------------------
(***************************************************************************)
(* One job between the shim and the application: the attempts of           *)
(* trigger.Run and fire (go/internal/trigger/shim.go) under the host lock, *)
(* and the cron.handle of the TypeScript SDK that answers them             *)
(* (ts/packages/sdk/src/core/registry.ts), with the time that passes and a *)
(* rotation of the secrets by docs/.../concepts/secrets.md.                *)
(***************************************************************************)
EXTENDS Naturals, Sequences, SequencesExt

CONSTANTS
  Fire,          \* the fires of the job
  MaxAttempts,   \* policy.retries.max_attempts
  Timeout,       \* policy.timeout_seconds
  Pause,         \* the backoff after each attempt
  Window,        \* the verifier's replay window
  Horizon,       \* how far the clock runs
  None

VARIABLES
  clock,
  spec,       \* the secrets the spec file on the host resolves to
  accepted,   \* the secrets the application resolves
  job,        \* the job in the registry
  shim,       \* the shim of each fire
  request     \* the requests in the application

deliveryVars == <<clock, spec, accepted, job, shim, request>>

DeliveryAssumption ==
  /\ MaxAttempts \in Nat \ {0} /\ Timeout \in Nat \ {0}
  /\ Pause \in [1..MaxAttempts -> Nat] /\ Window \in Nat /\ Horizon \in Nat
  /\ None \notin Nat

Secrets == {<<"old">>, <<"new", "old">>, <<"new">>}
Request == Fire \X (1..MaxAttempts)

\* A handler's answers: ok, not ok with and without a status, an exception.
HandlerStatus == {200, 409, 500}

Waiting == {"inflight", "backoff"}
Serving == {"arrived", "verified", "starting", "running", "reporting"}

NoShim == [phase |-> "idle", attempt |-> 0, timer |-> 0, signed |-> 0,
           secret |-> None]
NoRequest == [stage |-> "none", result |-> None, answer |-> None]
Unregistered == [known |-> FALSE, bound |-> FALSE, skip |-> FALSE]

\* The shim still waits for the answer to request r.
Awaited(r) == shim[r[1]].phase = "inflight" /\ shim[r[1]].attempt = r[2]

-----------------------------------------------------------------------------
DeliveryInit ==
  /\ clock = 0
  /\ spec = <<"old">> /\ accepted = <<"old">>
  /\ job = Unregistered
  /\ shim = [f \in Fire |-> NoShim]
  /\ request = [r \in Request |-> NoRequest]

(* The shim.                                                               *)

\* Send the n-th attempt.
Sends(f, n, s) ==
  /\ shim' = [shim EXCEPT ![f] = [s EXCEPT !.phase = "inflight",
                                           !.attempt = n, !.timer = Timeout]]
  /\ request' = [request EXCEPT ![<<f, n>>] = [NoRequest EXCEPT !.stage = "arrived"]]

\* The time of the fire and the first secret sign every attempt.
Begin(f) ==
  /\ shim[f].phase = "idle"
  /\ \A g \in Fire : shim[g].phase \notin Waiting
  /\ Sends(f, 1, [shim[f] EXCEPT !.signed = clock, !.secret = spec[1]])
  /\ UNCHANGED <<clock, spec, accepted, job>>

\* One retry more than the policy has attempts.
AfterAttemptOffByOne(s, status) ==
  IF status = 200 THEN [s EXCEPT !.phase = "success"]
  ELSE IF status \in 400..499 THEN [s EXCEPT !.phase = "rejected"]
  ELSE IF s.attempt <= MaxAttempts
    THEN [s EXCEPT !.phase = "backoff", !.timer = Pause[s.attempt]]
  ELSE [s EXCEPT !.phase = "exhausted"]

\* What the loop of Run makes of a status, None for an error or a timeout.
AfterAttempt(s, status) ==
  IF status = 200 THEN [s EXCEPT !.phase = "success"]
  ELSE IF status \in 400..499 THEN [s EXCEPT !.phase = "rejected"]
  ELSE IF s.attempt < MaxAttempts
    THEN [s EXCEPT !.phase = "backoff", !.timer = Pause[s.attempt]]
  ELSE [s EXCEPT !.phase = "exhausted"]

Retry(f) ==
  /\ shim[f].phase = "backoff" /\ shim[f].timer = 0
  /\ Sends(f, shim[f].attempt + 1, shim[f])
  /\ UNCHANGED <<clock, spec, accepted, job>>

\* The attempt times out; the application goes on with the request.
TimesOut(f) ==
  /\ shim[f].phase = "inflight" /\ shim[f].timer = 0
  /\ shim' = [shim EXCEPT ![f] = AfterAttempt(@, None)]
  /\ UNCHANGED <<clock, spec, accepted, job, request>>

(* The application.                                                        *)

Register(bound, skip) ==
  /\ ~job.known
  /\ job' = [known |-> TRUE, bound |-> bound, skip |-> skip]
  /\ UNCHANGED <<clock, spec, accepted, shim, request>>

\* cron.on: late binding.
On ==
  /\ job.known /\ ~job.bound
  /\ job' = [job EXCEPT !.bound = TRUE]
  /\ UNCHANGED <<clock, spec, accepted, shim, request>>

\* The registry is in memory; whoever waits for an answer gets an error.
Restart ==
  /\ job' = Unregistered
  /\ request' = [r \in Request |->
       IF request[r].stage \in Serving
         THEN [request[r] EXCEPT !.stage = "done", !.answer = None]
         ELSE request[r]]
  /\ shim' = [f \in Fire |-> IF shim[f].phase = "inflight"
                               THEN AfterAttempt(shim[f], None) ELSE shim[f]]
  /\ UNCHANGED <<clock, spec, accepted>>

Stage(r, s) ==
  /\ request' = [request EXCEPT ![r].stage = s]
  /\ UNCHANGED shim

\* A hook is awaited, with the answer settled.
Settles(r, status) ==
  /\ request' = [request EXCEPT
       ![r] = [@ EXCEPT !.stage = "reporting", !.answer = status]]
  /\ UNCHANGED shim

\* The answer goes out; it is lost when nobody waits for it.
Answers(r, status) ==
  /\ request' = [request EXCEPT
       ![r] = [@ EXCEPT !.stage = "done",
                        !.answer = IF Awaited(r) THEN status ELSE None]]
  /\ shim' = IF Awaited(r)
               THEN [shim EXCEPT ![r[1]] = AfterAttempt(@, status)] ELSE shim

\* One secret is all a list is read for.
AcceptsFirst(r) ==
  /\ clock - shim[r[1]].signed <= Window
  /\ shim[r[1]].secret = accepted[1]

\* verify: the timestamp against the clock, then any of the secrets.
Accepts(r) ==
  /\ clock - shim[r[1]].signed <= Window
  /\ Contains(accepted, shim[r[1]].secret)

\* verifyTrigger: registry, bypass, signature.
Verify(r) ==
  /\ request[r].stage = "arrived"
  /\ \/ ~job.known /\ Settles(r, 404)
     \/ job.known /\ (job.skip \/ Accepts(r)) /\ Stage(r, "verified")
     \/ job.known /\ ~(job.skip \/ Accepts(r)) /\ Settles(r, 401)
  /\ UNCHANGED <<clock, spec, accepted, job>>

\* dispatch, up to the hook before the handler.
Dispatch(r) ==
  /\ request[r].stage = "verified"
  /\ IF job.bound THEN Stage(r, "starting") ELSE Answers(r, 503)
  /\ UNCHANGED <<clock, spec, accepted, job>>

\* onTriggerStart has returned, or thrown.
CallHandler(r) ==
  /\ request[r].stage = "starting"
  /\ Stage(r, "running")
  /\ UNCHANGED <<clock, spec, accepted, job>>

HandlerEnds(r, status) ==
  /\ request[r].stage = "running"
  /\ request' = [request EXCEPT
       ![r] = [@ EXCEPT !.stage = "reporting", !.result = status, !.answer = status]]
  /\ UNCHANGED <<clock, spec, accepted, job, shim>>

\* A hook that throws makes the request fail.
ReplyOrThrow(r) ==
  /\ request[r].stage = "reporting"
  /\ \E hook \in {"returns", "throws"} :
       Answers(r, IF hook = "throws" THEN 500 ELSE request[r].answer)
  /\ UNCHANGED <<clock, spec, accepted, job>>

\* The hook after the verdict or the handler has returned, or thrown.
Reply(r) ==
  /\ request[r].stage = "reporting"
  /\ Answers(r, request[r].answer)
  /\ UNCHANGED <<clock, spec, accepted, job>>

(* The operators, and time.                                                *)

\* Add the new secret to the application, before anybody signs with it.
AddSecret ==
  /\ accepted = <<"old">>
  /\ accepted' = <<"new", "old">>
  /\ UNCHANGED <<clock, spec, job, shim, request>>

\* apply writes the references of the served manifest to the spec.
Apply ==
  /\ spec # accepted
  /\ spec' = accepted
  /\ UNCHANGED <<clock, accepted, job, shim, request>>

\* Remove the old one once the fires it signs are over.
DropSecret ==
  /\ accepted[1] = "new" /\ Len(accepted) = 2 /\ spec = accepted
  /\ \A f \in Fire : shim[f].secret = "old" => shim[f].phase \notin Waiting
  /\ accepted' = <<"new">>
  /\ UNCHANGED <<clock, spec, job, shim, request>>

\* Timeouts and the ends of the backoffs are not late.
Tick ==
  /\ clock < Horizon
  /\ \A f \in Fire : shim[f].phase \in Waiting => shim[f].timer > 0
  /\ clock' = clock + 1
  /\ shim' = [f \in Fire |-> IF shim[f].phase \in Waiting
                               THEN [shim[f] EXCEPT !.timer = @ - 1] ELSE shim[f]]
  /\ UNCHANGED <<spec, accepted, job, request>>

DeliveryNext ==
  \/ \E f \in Fire : Begin(f) \/ Retry(f) \/ TimesOut(f)
  \/ \E bound, skip \in BOOLEAN : Register(bound, skip)
  \/ \E r \in Request : \/ Verify(r) \/ Dispatch(r) \/ CallHandler(r) \/ Reply(r)
                        \/ \E status \in HandlerStatus : HandlerEnds(r, status)
  \/ On \/ Restart \/ AddSecret \/ Apply \/ DropSecret \/ Tick

DeliverySpec == DeliveryInit /\ [][DeliveryNext]_deliveryVars

-----------------------------------------------------------------------------
\* At most one shim waits, no shim makes more attempts than its policy has,
\* and every request belongs to an attempt sent.
DeliveryTypeOK ==
  /\ clock \in 0..Horizon /\ spec \in Secrets /\ accepted \in Secrets
  /\ job \in [known : BOOLEAN, bound : BOOLEAN, skip : BOOLEAN]
  /\ \A f, g \in Fire :
       shim[f].phase \in Waiting /\ shim[g].phase \in Waiting => f = g
  /\ \A f \in Fire : shim[f].attempt \in 0..MaxAttempts
  /\ \A r \in Request :
       /\ request[r].stage \in Serving \cup {"none", "done"}
       /\ request[r].stage = "none" <=> r[2] > shim[r[1]].attempt

\* "Retries continue if attempts remain" (concepts/retries.md:27), through the
\* rotation of a secret too (concepts/secrets.md:38, "zero-downtime"): an
\* attempt the shim waits for is never refused for its signature.
AuthenticNeverRefused ==
  \A r \in Request : Awaited(r) => request[r].answer # 401

\* Whatever the hooks do (registry.ts:77-79), the shim hears what the handler
\* returned: a handler that was ok runs again in the same fire only if its
\* answer was lost to a timeout or a restart, and a fire is a success only
\* when the handler of its last attempt was ok.
RepeatedOnlyIfLost ==
  /\ \A r \in Request : request[r].stage = "done" /\ request[r].result = 200 =>
       request[r].answer = None \/ shim[r[1]].phase = "success"
  /\ \A f \in Fire : shim[f].phase = "success" =>
       request[<<f, shim[f].attempt>>].result = 200
=============================================================================
