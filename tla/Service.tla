------------------------------- MODULE Service -------------------------------
(***************************************************************************)
(* The serving process around its crawls (runtime.rs: serve, rates) and    *)
(* what it says of itself (health.rs): the main loop from one run to the   *)
(* next, the thread that refreshes the exchange rates, the cooldown they   *)
(* share under a mutex, and the readiness endpoint that may be asked       *)
(* between any two observations.                                           *)
(*                                                                         *)
(* Time is a number of ticks since the snapshot was fetched and until the  *)
(* cooldown ends; it passes while the process is down too. What a crawl    *)
(* and a delivery do is in Crawl, Selection, Delivery and Channel; here    *)
(* they succeed or fail.                                                   *)
(***************************************************************************)
EXTENDS Naturals, FiniteSets

CONSTANTS
  None,
  Fresh,            \* ticks for which a snapshot is not fetched again: 24 hours
  Cooldown,         \* ticks after which a failed refresh is repeated: 1 hour
  MaxElapsed,       \* bound: ticks that four attempts can take
  ChallengeCrawls,  \* sourceChallengeAlertCrawls
  FailureLimit      \* failed runs that make the service unready

ASSUME TimesAssumption ==
  /\ Fresh \in Nat /\ Cooldown \in Nat /\ MaxElapsed \in Nat
  /\ MaxElapsed < Cooldown /\ Cooldown < Fresh
ASSUME LimitsAssumption ==
  /\ ChallengeCrawls \in Nat \ {0} /\ FailureLimit \in Nat \ {0}
  /\ None \notin Nat

VARIABLES
  pc,         \* the main thread
  worker,     \* the thread that refreshes the rates
  stop,
  passed,     \* preflight
  error,      \* [component, kind] of a failed run
  \* the exchange rates
  age,        \* of the stored snapshot, None when none is stored
  wait,       \* until next, the time before which nobody refreshes
  primed,     \* is next set
  elapsed,    \* since the attempts under way began
  health,
  \* history
  series,     \* how the last attempts of this process ended
  since,      \* the ticks since they began, up to the cooldown
  challenged, \* runs that ended challenged since a crawl validated the source
  startup,    \* was one of them before the preflight passed
  unsound,    \* has a run ended on integrity since the source was validated
  streak,     \* runs that failed since the last success, or since nothing was
              \* monitored
  served      \* has a run succeeded since monitoring began

threads == <<pc, worker, stop, passed, error>>
clock   == <<age, wait, primed, elapsed>>
ratesHistory == <<series, since>>
history == <<challenged, startup, unsound, streak, served>>
vars == <<threads, clock, health, ratesHistory, history>>

Least(m, n) == IF m < n THEN m ELSE n

Alerts == {"challenge", "integrity", "failures", "readiness"}
Errors == [component : {"cba", "list_am", "telegram"},
           kind : {"challenge", "integrity", "external"}]
Healths ==
  [preflight : {"pending", "ready", "failed", "source_challenge"},
   listAm : {"unknown", "ok", "challenge", "integrity", "failed"},
   required : BOOLEAN, succeeded : BOOLEAN,
   failures : 0..FailureLimit, during : BOOLEAN,
   challenges : 0..ChallengeCrawls, snapshot : BOOLEAN,
   alerts : SUBSET Alerts]

Labels == {"down", "top", "rates", "refresh", "preflight", "users", "crawl",
           "validated", "deliver", "note", "record", "unready", "pause", "join"}

TypeOK ==
  /\ pc \in Labels /\ stop \in BOOLEAN /\ passed \in BOOLEAN
  /\ worker \in {"none", "top", "lock", "refresh", "done"}
  /\ error \in Errors \cup {None}
  /\ age \in 0..Fresh \cup {None} /\ wait \in 0..Fresh
  /\ primed \in BOOLEAN /\ elapsed \in 0..MaxElapsed
  /\ health \in Healths
  /\ series \in {"none", "running", "ok", "failed"} /\ since \in 0..Cooldown
  /\ challenged \in 0..ChallengeCrawls /\ startup \in BOOLEAN
  /\ unsound \in BOOLEAN
  /\ streak \in 0..FailureLimit /\ served \in BOOLEAN
  \* one thread at a time is in the critical section of the cooldown
  /\ ~(pc = "refresh" /\ worker = "refresh")
  /\ pc = "down" <=> worker = "none"

NewHealth ==
  [preflight |-> "pending", listAm |-> "unknown", required |-> FALSE,
   succeeded |-> FALSE, failures |-> 0, during |-> FALSE, challenges |-> 0,
   snapshot |-> FALSE, alerts |-> {}]

Forgotten ==
  /\ worker' = "none" /\ stop' = FALSE /\ passed' = FALSE /\ error' = None
  /\ wait' = 0 /\ primed' = FALSE /\ elapsed' = 0
  /\ health' = NewHealth
  /\ series' = "none" /\ since' = 0
  /\ challenged' = 0 /\ startup' = FALSE /\ unsound' = FALSE
  /\ streak' = 0 /\ served' = FALSE

Init ==
  /\ pc = "down" /\ worker = "none" /\ stop = FALSE /\ passed = FALSE
  /\ error = None
  /\ age = None /\ wait = 0 /\ primed = FALSE /\ elapsed = 0
  /\ health = NewHealth
  /\ series = "none" /\ since = 0
  /\ challenged = 0 /\ startup = FALSE /\ unsound = FALSE
  /\ streak = 0 /\ served = FALSE

-----------------------------------------------------------------------------
(* Health: what an observation changes *)

Firing(h, name) == [h EXCEPT !.alerts = @ \cup {name}]
Resolved(h, names) == [h EXCEPT !.alerts = @ \ names]

PreflightReady(h) ==
  Resolved([h EXCEPT !.preflight = "ready", !.listAm = "ok"], {"integrity"})

PreflightFailed(h, e) ==
  LET g == [h EXCEPT
             !.preflight = IF e.kind = "challenge" THEN "source_challenge" ELSE "failed",
             !.listAm = CASE e.component # "list_am" -> @
                          [] e.kind = "external" -> "failed"
                          [] OTHER -> e.kind]
  IN CASE e.kind = "challenge" ->
            Firing([g EXCEPT !.during = FALSE, !.challenges = ChallengeCrawls],
                   "challenge")
       [] e.kind = "integrity" -> Firing(g, "integrity")
       [] OTHER -> g

SetMonitoringState(h, active) ==
  IF active THEN [h EXCEPT !.required = TRUE]
  ELSE [h EXCEPT !.required = FALSE, !.succeeded = FALSE, !.failures = 0]

\* mutant: the count of challenged crawls survives a sound source
SourceStillChallenged(h) ==
  Resolved([h EXCEPT !.listAm = "ok", !.during = FALSE],
           {"challenge", "integrity"})

\* source_success
SourceSuccess(h) ==
  Resolved([h EXCEPT !.listAm = "ok", !.during = FALSE, !.challenges = 0],
           {"challenge", "integrity"})

RecordCrawlSuccess(h) ==
  Resolved([h EXCEPT !.succeeded = TRUE, !.failures = 0, !.listAm = "ok",
                     !.during = FALSE, !.challenges = 0],
           {"challenge", "failures", "integrity"})

RecordSourceChallenge(h) == [h EXCEPT !.listAm = "challenge", !.during = TRUE]

\* a run counts once as challenged
Counted(h) ==
  IF ~h.during THEN h
  ELSE LET g == [h EXCEPT !.during = FALSE,
                          !.challenges = Least(@ + 1, ChallengeCrawls)]
       IN IF g.challenges = ChallengeCrawls THEN Firing(g, "challenge") ELSE g

\* mutant: only failures of the source count
RecordSourceFailure(h, e) ==
  LET f == IF e.component # "list_am" THEN h
           ELSE [h EXCEPT !.failures = Least(@ + 1, FailureLimit)]
      g == IF f.failures = FailureLimit THEN Firing(f, "failures") ELSE f
  IN Counted(
       CASE e.component # "list_am" -> g
         [] e.kind = "challenge" -> [g EXCEPT !.listAm = "challenge", !.during = TRUE]
         [] e.kind = "integrity" -> Firing([g EXCEPT !.listAm = "integrity"], "integrity")
         [] OTHER -> [g EXCEPT !.listAm = "failed"])

RecordCrawlFailure(h, e) ==
  LET f == [h EXCEPT !.failures = Least(@ + 1, FailureLimit)]
      g == IF f.failures = FailureLimit THEN Firing(f, "failures") ELSE f
  IN Counted(
       CASE e.component # "list_am" -> g
         [] e.kind = "challenge" -> [g EXCEPT !.listAm = "challenge", !.during = TRUE]
         [] e.kind = "integrity" -> Firing([g EXCEPT !.listAm = "integrity"], "integrity")
         [] OTHER -> [g EXCEPT !.listAm = "failed"])

RecordExchangeRates(h, stored) == [h EXCEPT !.snapshot = stored]

(* Health: readiness *)

Reasons(h) ==
  {r \in {"preflight", "challenge", "integrity", "success", "failures", "rates"} :
     CASE r = "preflight" -> h.preflight # "ready"
       [] r = "challenge" -> h.listAm = "challenge"
       [] r = "integrity" -> h.listAm = "integrity"
       [] r = "success"   -> h.required /\ ~h.succeeded
       [] r = "failures"  -> h.required /\ h.failures = FailureLimit
       [] r = "rates"     -> h.required /\ ~h.snapshot}

\* a challenge is no reason for an alert until enough crawls met one
AlertReasons(h) ==
  IF h.preflight = "ready" /\ h.challenges < ChallengeCrawls
  THEN Reasons(h) \ {"challenge"} ELSE Reasons(h)

Ready == Reasons(health) = {}

\* the health server answers, and the alert of readiness follows
Probe ==
  /\ pc # "down" /\ worker # "none" /\ health.preflight # "pending"
  /\ health' = IF AlertReasons(health) = {} THEN Resolved(health, {"readiness"})
                                            ELSE Firing(health, "readiness")
  /\ UNCHANGED <<threads, clock, ratesHistory, history>>

\* ten minutes pass without a crawl that succeeds
CrawlStale ==
  /\ health.succeeded
  /\ health' = [health EXCEPT !.succeeded = FALSE]
  /\ UNCHANGED <<threads, clock, ratesHistory, history>>

Tick ==
  /\ elapsed < MaxElapsed \/ ~(pc = "refresh" \/ worker = "refresh")
  /\ age' = IF age = None THEN None ELSE Least(age + 1, Fresh)
  /\ wait' = IF wait = 0 THEN 0 ELSE wait - 1
  /\ elapsed' = IF pc = "refresh" \/ worker = "refresh" THEN elapsed + 1 ELSE 0
  /\ since' = IF series = "none" THEN since ELSE Least(since + 1, Cooldown)
  /\ UNCHANGED <<threads, primed, health, series, history>>

-----------------------------------------------------------------------------
(* rates, called by either thread with the cooldown's mutex held *)

Unlocked == pc # "refresh" /\ worker # "refresh"

\* the cooldown that a stored snapshot implies
Remaining == IF primed \/ age = None THEN wait ELSE Fresh - age

\* mutant: after one failure no snapshot is tried for again
CoolingForGood == age = None /\ primed

Cooling == age = None /\ Remaining > 0
Usable  == age # None /\ (age < Fresh \/ Remaining > 0)

\* the snapshot that was found is reported once
Prime ==
  /\ wait' = Remaining
  /\ primed' = (primed \/ age # None)
  /\ health' = IF primed \/ age = None THEN health
               ELSE RecordExchangeRates(health, TRUE)

BeginAttempts ==
  /\ ~Cooling /\ ~Usable /\ Prime
  /\ elapsed' = 0 /\ series' = "running" /\ since' = 0 /\ UNCHANGED age

\* parsed and saved, in one of four attempts; now is the time before the first
AttemptSucceeds ==
  /\ age' = 0 /\ wait' = Fresh - elapsed /\ primed' = TRUE
  /\ health' = RecordExchangeRates(health, TRUE)
  /\ series' = "ok" /\ elapsed' = 0 /\ UNCHANGED since

\* mutant: a failure leaves the cooldown as it was
AttemptsFailEagerly ==
  /\ primed' = TRUE
  /\ health' = RecordExchangeRates(health, age # None)
  /\ series' = "failed" /\ elapsed' = 0 /\ UNCHANGED <<age, since, wait>>

AttemptsFail ==
  /\ wait' = Cooldown - elapsed /\ primed' = TRUE
  /\ health' = RecordExchangeRates(health, age # None)
  /\ series' = "failed" /\ elapsed' = 0 /\ UNCHANGED <<age, since>>

\* the wait between two attempts, or the request, is cancelled: no cooldown
AttemptsCancelled ==
  /\ stop
  /\ series' = "failed" /\ elapsed' = 0
  /\ UNCHANGED <<age, wait, primed, health, since>>

-----------------------------------------------------------------------------
(* The thread that refreshes the rates *)

WorkerGoto(label) == worker' = label /\ UNCHANGED <<pc, passed, error>>

\* mutant: the thread does not look at stop
WorkerTopDeaf ==
  /\ worker = "top"
  /\ WorkerGoto("lock")
  /\ UNCHANGED <<stop, clock, health, ratesHistory, history>>

WorkerTop ==
  /\ worker = "top"
  /\ WorkerGoto(IF stop THEN "done" ELSE "lock")
  /\ UNCHANGED <<stop, clock, health, ratesHistory, history>>

WorkerRates ==
  /\ worker = "lock" /\ Unlocked
  /\ Cooling \/ Usable
  /\ Prime /\ WorkerGoto("top")
  /\ UNCHANGED <<stop, age, elapsed, ratesHistory, history>>

WorkerBegins ==
  /\ worker = "lock" /\ Unlocked
  /\ BeginAttempts /\ WorkerGoto("refresh")
  /\ UNCHANGED <<stop, history>>

WorkerRefreshes ==
  /\ worker = "refresh"
  /\ AttemptSucceeds \/ AttemptsFail \/ AttemptsCancelled
  /\ WorkerGoto("top")
  /\ UNCHANGED <<stop, history>>

\* the read, or the save of a first snapshot: fail_runtime
WorkerStorageFails ==
  /\ \/ worker = "lock" /\ Unlocked /\ UNCHANGED <<clock, health, ratesHistory>>
     \/ worker = "refresh" /\ age = None /\ AttemptsFail
  /\ WorkerGoto("done") /\ stop' = TRUE
  /\ UNCHANGED history

-----------------------------------------------------------------------------
(* The main loop *)

Goto(label) == pc' = label /\ UNCHANGED <<worker, stop, passed, error>>
Elsewhere == UNCHANGED <<clock, ratesHistory>>

Start ==
  /\ pc = "down"
  /\ pc' = "top" /\ worker' = "top"
  /\ UNCHANGED <<stop, passed, error, clock, health, ratesHistory, history>>

Top ==
  /\ pc = "top"
  /\ Goto(IF stop THEN "join" ELSE "rates")
  /\ UNCHANGED <<health, history>> /\ Elsewhere

\* the run ends with an error; what has to be reported follows
RunFails(component, kind) ==
  /\ IF stop THEN pc' = "join" /\ UNCHANGED <<error, history>>
     ELSE /\ error' = [component |-> component, kind |-> kind]
          /\ pc' = IF kind = "challenge" THEN "note" ELSE "record"
          /\ challenged' = IF kind = "challenge"
                           THEN Least(challenged + 1, ChallengeCrawls) ELSE challenged
          /\ startup' = (startup \/ (kind = "challenge" /\ ~passed))
          /\ unsound' = (unsound \/ kind = "integrity")
          /\ streak' = Least(streak + 1, FailureLimit)
          /\ UNCHANGED served
  /\ UNCHANGED <<worker, stop, passed>>

AfterRates == IF passed THEN "users" ELSE "preflight"

Rates ==
  /\ pc = "rates" /\ Unlocked /\ Prime
  /\ \/ Usable /\ Goto(AfterRates) /\ UNCHANGED history
     \/ Cooling /\ RunFails("cba", "external")
  /\ UNCHANGED <<age, elapsed, ratesHistory>>

MainBegins ==
  /\ pc = "rates" /\ Unlocked
  /\ BeginAttempts /\ Goto("refresh")
  /\ UNCHANGED history

MainRefreshes ==
  /\ pc = "refresh"
  /\ \/ AttemptSucceeds /\ Goto(AfterRates) /\ UNCHANGED history
     \/ AttemptsFail /\ IF age = None THEN RunFails("cba", "external")
                        ELSE Goto(AfterRates) /\ UNCHANGED history
     \/ AttemptsCancelled /\ RunFails("cba", "external")

\* both first pages are fetched and pass their checks; then setPreflight
PreflightPasses ==
  /\ pc = "preflight"
  /\ pc' = "users" /\ passed' = TRUE
  /\ health' = PreflightReady(health)
  /\ unsound' = FALSE
  /\ UNCHANGED <<worker, stop, error, challenged, startup, streak, served>>
  /\ Elsewhere

\* who is active is read from the database; a channel is active always
Users(active) ==
  /\ pc = "users"
  /\ health' = SetMonitoringState(health, active)
  /\ Goto(IF active THEN "crawl" ELSE "pause")
  /\ IF active THEN UNCHANGED <<streak, served>> ELSE streak' = 0 /\ served' = FALSE
  /\ UNCHANGED <<challenged, startup, unsound>> /\ Elsewhere

CrawlSucceeds ==
  /\ pc = "crawl"
  /\ Goto("validated")
  /\ challenged' = 0 /\ startup' = FALSE /\ unsound' = FALSE
  /\ UNCHANGED <<health, streak, served>> /\ Elsewhere

SourceFails ==
  /\ pc \in {"preflight", "crawl"}
  /\ \E kind \in {"challenge", "integrity", "external"} : RunFails("list_am", kind)
  /\ UNCHANGED health /\ Elsewhere

\* recordSourceIntegritySuccess
Validated ==
  /\ pc = "validated" /\ Goto("deliver")
  /\ health' = SourceSuccess(health)
  /\ UNCHANGED history /\ Elsewhere

\* recordCrawlSuccess, unless the process is being stopped
Delivered ==
  /\ pc = "deliver"
  /\ IF stop THEN Goto("join") /\ UNCHANGED <<health, streak, served>>
     ELSE /\ Goto("pause")
          /\ health' = RecordCrawlSuccess(health)
          /\ streak' = 0 /\ served' = TRUE
  /\ UNCHANGED <<challenged, startup, unsound>> /\ Elsewhere

\* a channel call fails for good
DeliveryFails ==
  /\ pc = "deliver"
  /\ RunFails("telegram", "external")
  /\ UNCHANGED health /\ Elsewhere

\* recordSourceChallenge
Note ==
  /\ pc = "note" /\ Goto("record")
  /\ health' = RecordSourceChallenge(health)
  /\ UNCHANGED history /\ Elsewhere

Record ==
  /\ pc = "record"
  /\ Goto(IF passed THEN "pause" ELSE "unready")
  /\ health' = RecordCrawlFailure(health, error)
  /\ UNCHANGED history /\ Elsewhere

\* setPreflight, not ready
Unready ==
  /\ pc = "unready" /\ Goto("pause")
  /\ health' = PreflightFailed(health, error)
  /\ UNCHANGED history /\ Elsewhere

Pause ==
  /\ pc = "pause"
  /\ pc' = "top" /\ error' = None
  /\ UNCHANGED <<worker, stop, passed, health, history>> /\ Elsewhere

\* a statement fails: fail_runtime, and the loop is left
MainStorageFails ==
  /\ \/ pc \in {"preflight", "users", "crawl", "deliver"} /\ UNCHANGED <<clock, health, ratesHistory>>
     \/ pc = "rates" /\ Unlocked /\ UNCHANGED <<clock, health, ratesHistory>>
     \/ pc = "refresh" /\ age = None /\ AttemptsFail
  /\ pc' = "join" /\ stop' = TRUE
  /\ UNCHANGED <<worker, passed, error, history>>

\* the threads are joined, the databases checkpointed
Join ==
  /\ pc = "join" /\ worker = "done"
  /\ pc' = "down" /\ Forgotten /\ UNCHANGED age

\* a signal, or another thread that cannot go on
Signal ==
  /\ pc \notin {"down", "join"} /\ ~stop /\ stop' = TRUE
  /\ UNCHANGED <<pc, worker, passed, error, health, history>> /\ Elsewhere

Crash == pc # "down" /\ pc' = "down" /\ Forgotten /\ UNCHANGED age

Worker == WorkerTop \/ WorkerRates \/ WorkerBegins \/ WorkerRefreshes

Main ==
  \/ Top \/ Rates \/ MainBegins \/ MainRefreshes \/ PreflightPasses
  \/ (\E active \in BOOLEAN : Users(active))
  \/ CrawlSucceeds \/ SourceFails \/ Validated \/ Delivered \/ DeliveryFails
  \/ Note \/ Record \/ Unready \/ Pause \/ Join

Next ==
  \/ Start \/ Main \/ Worker \/ MainStorageFails \/ WorkerStorageFails
  \/ Probe \/ CrawlStale \/ Tick \/ Signal \/ Crash

Spec == Init /\ [][Next]_vars

FairSpec ==
  /\ Spec /\ WF_vars(Worker) /\ WF_vars(Tick)
  /\ SF_vars(Main)
  \* what fails does not fail for ever
  /\ SF_vars((MainRefreshes \/ WorkerRefreshes) /\ age' = 0)
  /\ SF_vars(PreflightPasses \/ CrawlSucceeds)

-----------------------------------------------------------------------------
\* Nothing of a run that has ended is left to be reported.
Settled == pc \notin {"down", "validated", "note", "record", "unready"}

Begins ==
  \/ pc # "refresh" /\ pc' = "refresh"
  \/ worker # "refresh" /\ worker' = "refresh"

\* Whichever of the two threads asks, the central bank is asked again only an
\* hour after attempts that failed, and never for a snapshot that is a day
\* old or less, be it fetched by the other thread or before a restart.
RatesSpaced ==
  [][/\ ~stop
     /\ Begins
     => /\ age = None \/ age = Fresh
        /\ series # "running"
        /\ series = "failed" => since >= Cooldown]_vars

\* The alerts of the source fire from their cause to its remedy, whatever other
\* failures come in between: that for challenges from the run that is the last of
\* so many challenged ones, or from a startup that met one, until a crawl
\* validates the source; that for integrity from a failed check until the source
\* passes all of them, in a crawl or in the preflight.
AlertsExact ==
  Settled =>
    /\ "challenge" \in health.alerts <=> startup \/ challenged = ChallengeCrawls
    /\ "integrity" \in health.alerts <=> unsound

\* A process that calls itself ready while somebody waits for listings has
\* passed the preflight, has the rates, has completed a crawl and its delivery
\* since monitoring began, and has not failed too often in a row since.
ReadyIsEarned ==
  Settled /\ Ready /\ health.required =>
    passed /\ age # None /\ served /\ streak < FailureLimit

\* A process that is told to stop ends: neither thread waits for the other.
StopEnds == stop ~> pc = "down"

\* As long as somebody monitors, a process goes on to complete crawls, however
\* the source and the central bank failed before.
CrawlsAgain ==
  pc = "top" ~>
    \/ pc = "validated" \/ stop \/ pc = "down"
    \/ pc = "pause" /\ error = None /\ ~health.required

\* After a failed integrity check a process that monitors is not ready until the
\* source has passed all of them.
FaultKeepsUnready == Settled /\ unsound /\ health.required => ~Ready
=============================================================================
