---------------------------- MODULE ServiceProofs ----------------------------
(***************************************************************************)
(* What Service promises, for any cooldown, lifetime of a snapshot and     *)
(* limits: the types, spaced refreshes, exact alerts and readiness that is *)
(* earned.                                                                 *)
(***************************************************************************)
EXTENDS Service, TLAPS

USE TimesAssumption, LimitsAssumption

-----------------------------------------------------------------------------
(* What the observations do to the health, field by field *)

\* The fields that no alert of the source looks at.
SameRest(g, h) ==
  /\ g.required = h.required /\ g.snapshot = h.snapshot
  /\ g.preflight = h.preflight /\ g.succeeded = h.succeeded
  /\ g.failures = h.failures

SameCounts(g, h) == g.during = h.during /\ g.challenges = h.challenges

SameAlerts(g, h) ==
  \A name \in {"challenge", "integrity"} : name \in g.alerts <=> name \in h.alerts

\* The counters stay within their limits.
LEMMA Ranges ==
  /\ 0 \in 0..ChallengeCrawls /\ ChallengeCrawls \in 0..ChallengeCrawls
  /\ 0 \in 0..FailureLimit
  /\ 0 \in 0..Fresh /\ 0 \in 0..MaxElapsed /\ 0 \in 0..Cooldown
  /\ \A n \in 0..ChallengeCrawls : Least(n + 1, ChallengeCrawls) \in 0..ChallengeCrawls
  /\ \A n \in 0..FailureLimit : Least(n + 1, FailureLimit) \in 0..FailureLimit
BY DEF Least

\* A process that begins to observe has seen nothing and fires nothing.
LEMMA NewHealthFields ==
  /\ NewHealth \in Healths
  /\ ~NewHealth.during /\ ~NewHealth.succeeded /\ ~NewHealth.snapshot
  /\ NewHealth.challenges = 0 /\ NewHealth.failures = 0
  /\ NewHealth.alerts = {} /\ NewHealth.preflight = "pending"
BY DEF NewHealth, Healths, Alerts

\* A passed preflight resolves the alert for integrity only.
LEMMA PreflightReadyFields ==
  ASSUME NEW h \in Healths
  PROVE  LET g == PreflightReady(h) IN
           /\ g \in Healths
           /\ SameCounts(g, h)
           /\ g.required = h.required /\ g.snapshot = h.snapshot
           /\ g.succeeded = h.succeeded /\ g.failures = h.failures
           /\ "integrity" \notin g.alerts
           /\ "challenge" \in g.alerts <=> "challenge" \in h.alerts
<1>1. PreflightReady(h) \in Healths
  BY Ranges DEF PreflightReady, Resolved, Healths, Alerts, Errors
<1>2. QED
  BY <1>1
  DEF PreflightReady, Resolved, Healths, Errors, SameCounts, SameAlerts,
      SameRest, Least

\* A failed one fires the alert of its cause, that for challenges as if enough
\* runs had been challenged.
LEMMA PreflightFailedFields ==
  ASSUME NEW h \in Healths, NEW e \in Errors,
         e.kind # "external" => e.component = "list_am", ~h.during
  PROVE  LET g == PreflightFailed(h, e) IN
           /\ g \in Healths
           /\ g.required = h.required /\ g.snapshot = h.snapshot
           /\ g.succeeded = h.succeeded /\ g.failures = h.failures
           /\ g.preflight # "ready" /\ ~g.during
           /\ g.challenges = IF e.kind = "challenge" THEN ChallengeCrawls
                             ELSE h.challenges
           /\ "challenge" \in g.alerts <=>
                "challenge" \in h.alerts \/ e.kind = "challenge"
           /\ "integrity" \in g.alerts <=>
                "integrity" \in h.alerts \/ e.kind = "integrity"
<1>1. PreflightFailed(h, e) \in Healths
  BY Ranges DEF PreflightFailed, Firing, Healths, Alerts, Errors
<1>2. QED
  BY <1>1
  DEF PreflightFailed, Firing, Healths, Errors, SameCounts, SameAlerts,
      SameRest, Least

\* A validated source resolves both alerts and starts the count anew.
LEMMA SourceSuccessFields ==
  ASSUME NEW h \in Healths
  PROVE  LET g == SourceSuccess(h) IN
           /\ g \in Healths
           /\ SameRest(g, h)
           /\ ~g.during /\ g.challenges = 0
           /\ "challenge" \notin g.alerts /\ "integrity" \notin g.alerts
<1>1. SourceSuccess(h) \in Healths
  BY Ranges DEF SourceSuccess, Resolved, Healths, Alerts, Errors
<1>2. QED
  BY <1>1
  DEF SourceSuccess, Resolved, Healths, Errors, SameCounts, SameAlerts,
      SameRest, Least

\* So does a run that succeeds, and it ends the failures.
LEMMA RecordCrawlSuccessFields ==
  ASSUME NEW h \in Healths
  PROVE  LET g == RecordCrawlSuccess(h) IN
           /\ g \in Healths
           /\ g.required = h.required /\ g.snapshot = h.snapshot
           /\ g.preflight = h.preflight
           /\ g.succeeded /\ g.failures = 0
           /\ ~g.during /\ g.challenges = 0
           /\ "challenge" \notin g.alerts /\ "integrity" \notin g.alerts
<1>1. RecordCrawlSuccess(h) \in Healths
  BY Ranges DEF RecordCrawlSuccess, Resolved, Healths, Alerts, Errors
<1>2. QED
  BY <1>1
  DEF RecordCrawlSuccess, Resolved, Healths, Errors, SameCounts, SameAlerts,
      SameRest, Least

\* A challenge is noted before it is counted.
LEMMA RecordSourceChallengeFields ==
  ASSUME NEW h \in Healths
  PROVE  LET g == RecordSourceChallenge(h) IN
           /\ g \in Healths
           /\ SameRest(g, h) /\ SameAlerts(g, h)
           /\ g.during /\ g.challenges = h.challenges
BY DEF RecordSourceChallenge, Healths, Alerts, SameRest, SameAlerts

\* A run is counted once as challenged, and the last of so many fires the alert.
LEMMA CountedFields ==
  ASSUME NEW h \in Healths
  PROVE  LET g == Counted(h) IN
           /\ g \in Healths
           /\ SameRest(g, h)
           /\ ~g.during
           /\ g.challenges = IF h.during THEN Least(h.challenges + 1, ChallengeCrawls)
                             ELSE h.challenges
           /\ "challenge" \in g.alerts <=>
                \/ "challenge" \in h.alerts
                \/ h.during /\ g.challenges = ChallengeCrawls
           /\ "integrity" \in g.alerts <=> "integrity" \in h.alerts
<1>1. Counted(h) \in Healths
  BY Ranges DEF Counted, Firing, Healths, Alerts, Errors
<1>2. QED
  BY <1>1
  DEF Counted, Firing, Healths, Errors, SameCounts, SameAlerts, SameRest, Least

\* What is recorded of the rates touches nothing else.
LEMMA RecordExchangeRatesFields ==
  ASSUME NEW h \in Healths, NEW stored \in BOOLEAN
  PROVE  LET g == RecordExchangeRates(h, stored) IN
           /\ g \in Healths
           /\ SameCounts(g, h) /\ SameAlerts(g, h)
           /\ g.required = h.required /\ g.preflight = h.preflight
           /\ g.succeeded = h.succeeded /\ g.failures = h.failures
           /\ g.snapshot = stored
BY DEF RecordExchangeRates, Healths, Alerts, SameCounts, SameAlerts

\* A failed run is one more failure, whatever failed; it is counted as
\* challenged if it was, and fires the alert for integrity if that failed.
LEMMA RecordCrawlFailureFields ==
  ASSUME NEW h \in Healths, NEW e \in Errors,
         e.kind # "external" => e.component = "list_am"
  PROVE  LET g == RecordCrawlFailure(h, e)
             counts == h.during \/ e.kind = "challenge" IN
           /\ g \in Healths
           /\ g.required = h.required /\ g.snapshot = h.snapshot
           /\ g.preflight = h.preflight /\ g.succeeded = h.succeeded
           /\ g.failures = Least(h.failures + 1, FailureLimit)
           /\ ~g.during
           /\ g.challenges = IF counts THEN Least(h.challenges + 1, ChallengeCrawls)
                             ELSE h.challenges
           /\ "challenge" \in g.alerts <=>
                \/ "challenge" \in h.alerts
                \/ counts /\ g.challenges = ChallengeCrawls
           /\ "integrity" \in g.alerts <=>
                "integrity" \in h.alerts \/ e.kind = "integrity"
<1> DEFINE f == [h EXCEPT !.failures = Least(@ + 1, FailureLimit)]
           fired == IF f.failures = FailureLimit THEN Firing(f, "failures") ELSE f
           seen == CASE e.component # "list_am" -> fired
                     [] e.kind = "challenge" ->
                          [fired EXCEPT !.listAm = "challenge", !.during = TRUE]
                     [] e.kind = "integrity" ->
                          Firing([fired EXCEPT !.listAm = "integrity"], "integrity")
                     [] OTHER -> [fired EXCEPT !.listAm = "failed"]
<1>1. /\ fired \in Healths
      /\ SameCounts(fired, h) /\ SameAlerts(fired, h)
      /\ fired.required = h.required /\ fired.snapshot = h.snapshot
      /\ fired.preflight = h.preflight /\ fired.succeeded = h.succeeded
      /\ fired.failures = Least(h.failures + 1, FailureLimit)
  <2>1. f \in Healths
    BY Ranges DEF Healths
  <2>2. fired \in Healths
    BY <2>1 DEF Firing, Healths, Alerts
  <2>3. QED
    BY <2>2 DEF Firing, Healths, SameCounts, SameAlerts
<1> HIDE DEF f, fired
<1>2. /\ seen \in Healths
      /\ SameRest(seen, fired)
      /\ seen.during <=> h.during \/ e.kind = "challenge"
      /\ seen.challenges = h.challenges
      /\ "challenge" \in seen.alerts <=> "challenge" \in h.alerts
      /\ "integrity" \in seen.alerts <=>
           "integrity" \in h.alerts \/ e.kind = "integrity"
  <2>1. seen \in Healths
    BY <1>1 DEF Firing, Healths, Alerts, Errors
  <2>2. SameRest(seen, fired)
    BY <1>1 DEF Firing, Healths, Errors, SameRest
  <2>3. QED
    BY <1>1, <2>1, <2>2 DEF Firing, Healths, Errors, SameCounts, SameAlerts
<1>3. RecordCrawlFailure(h, e) = Counted(seen)
  BY DEF RecordCrawlFailure, seen, fired, f
<1> HIDE DEF seen
<1>4. LET g == Counted(seen) IN
      /\ g \in Healths
      /\ SameRest(g, fired)
      /\ ~g.during
      /\ g.challenges = IF seen.during THEN Least(h.challenges + 1, ChallengeCrawls)
                        ELSE h.challenges
      /\ "challenge" \in g.alerts <=>
           \/ "challenge" \in h.alerts
           \/ seen.during /\ g.challenges = ChallengeCrawls
      /\ "integrity" \in g.alerts <=>
           "integrity" \in h.alerts \/ e.kind = "integrity"
  BY <1>2, CountedFields DEF SameRest
<1> QED
  BY <1>1, <1>2, <1>3, <1>4 DEF SameRest

-----------------------------------------------------------------------------
(* The inductive invariant *)

\* What has to be reported is known where it is reported, a challenge is one of
\* the source, and one is noted exactly while its run waits to be counted.
Reported ==
  /\ pc \in {"note", "record", "unready"} =>
       error \in Errors /\ (error.kind # "external" => error.component = "list_am")
  /\ pc = "note" => error.kind = "challenge"
  /\ pc = "unready" => ~passed
  /\ health.during <=> pc = "record" /\ error.kind = "challenge"

\* After a crawl has validated the source nothing of it is owed.
Cleared ==
  pc \in {"validated", "deliver"} => challenged = 0 /\ ~startup /\ ~unsound

\* The process counts challenged runs as they are, except that it has yet to
\* count the one under report and to forget them when the source is validated;
\* a challenged startup stands for all of them.
Tallied ==
  /\ "challenge" \in health.alerts <=> health.challenges = ChallengeCrawls
  /\ IF pc \in {"note", "record", "unready"} /\ error.kind = "challenge"
     THEN IF ~passed THEN startup
          ELSE IF startup THEN health.challenges = ChallengeCrawls
               ELSE challenged = Least(health.challenges + 1, ChallengeCrawls)
     ELSE pc # "validated" =>
            health.challenges = IF startup THEN ChallengeCrawls ELSE challenged

\* The same of the alert for integrity.
Sounded ==
  /\ pc \in {"record", "unready"} /\ error.kind = "integrity" => unsound
  /\ \/ pc = "validated"
     \/ pc = "record" /\ error.kind = "integrity"
     \/ "integrity" \in health.alerts <=> unsound

\* What readiness asks of the health is what happened.
Earned ==
  /\ health.preflight = "ready" => passed
  /\ health.succeeded => served
  /\ health.snapshot => age # None
  /\ streak = IF pc \in {"note", "record"} THEN Least(health.failures + 1, FailureLimit)
              ELSE health.failures

\* Attempts are under way in one thread, and after some that failed the cooldown
\* has as long to run as is missing since they began.
Spaced ==
  /\ series = "running" <=> pc = "refresh" \/ worker = "refresh"
  /\ series = "running" => since = elapsed
  /\ series = "failed" /\ ~stop => primed /\ since + wait >= Cooldown

SInv == TypeOK /\ Reported /\ Cleared /\ Tallied /\ Sounded /\ Earned /\ Spaced

-----------------------------------------------------------------------------
(* What the threads do to the health when they refresh the rates *)

\* Nothing but the field of the rates changes, and it tells the truth.
OnlyRates ==
  /\ health' \in Healths
  /\ SameCounts(health', health) /\ SameAlerts(health', health)
  /\ health'.required = health.required /\ health'.preflight = health.preflight
  /\ health'.succeeded = health.succeeded /\ health'.failures = health.failures
  /\ health'.snapshot => age' # None

\* So it is when a thread finds the cooldown running, or a usable snapshot.
LEMMA PrimeIsOnlyRates ==
  ASSUME TypeOK, Earned, Prime, age' = age
  PROVE  OnlyRates
<1>1. CASE primed \/ age = None
  BY <1>1 DEF TypeOK, Earned, Prime, OnlyRates, SameCounts, SameAlerts
<1>2. CASE ~(primed \/ age = None)
  <2>1. health' = RecordExchangeRates(health, TRUE) /\ age' # None
    BY <1>2 DEF Prime
  <2> QED
    BY <2>1, RecordExchangeRatesFields DEF TypeOK, OnlyRates
<1> QED
  BY <1>1, <1>2

\* So it is when attempts end.
LEMMA AttemptsAreOnlyRates ==
  ASSUME TypeOK, Earned, AttemptSucceeds \/ AttemptsFail \/ AttemptsCancelled
  PROVE  OnlyRates
<1>1. CASE AttemptSucceeds
  <2>1. health' = RecordExchangeRates(health, TRUE) /\ age' # None
    BY <1>1 DEF AttemptSucceeds
  <2> QED
    BY <2>1, RecordExchangeRatesFields DEF TypeOK, OnlyRates
<1>2. CASE AttemptsFail
  <2> DEFINE stored == age # None
  <2>1. health' = RecordExchangeRates(health, stored) /\ stored \in BOOLEAN
        /\ (stored => age' # None)
    BY <1>2 DEF AttemptsFail
  <2> HIDE DEF stored
  <2> QED
    BY <2>1, RecordExchangeRatesFields DEF TypeOK, OnlyRates
<1>3. CASE AttemptsCancelled
  BY <1>3 DEF TypeOK, Earned, AttemptsCancelled, OnlyRates, SameCounts, SameAlerts
<1> QED
  BY <1>1, <1>2, <1>3

\* Whatever a thread does about the rates, it does no more than that to the health.
LEMMA RatesSteps ==
  ASSUME TypeOK, Earned,
         \/ Rates \/ MainBegins \/ MainRefreshes \/ MainStorageFails
         \/ WorkerRates \/ WorkerBegins \/ WorkerRefreshes \/ WorkerStorageFails
  PROVE  OnlyRates
<1>1. CASE Rates \/ WorkerRates
  BY <1>1, PrimeIsOnlyRates DEF Rates, WorkerRates
<1>2. CASE MainBegins \/ WorkerBegins
  BY <1>2, PrimeIsOnlyRates DEF MainBegins, WorkerBegins, BeginAttempts
<1>3. CASE MainRefreshes \/ WorkerRefreshes
  BY <1>3, AttemptsAreOnlyRates DEF MainRefreshes, WorkerRefreshes
<1>4. CASE MainStorageFails \/ WorkerStorageFails
  <2>1. CASE UNCHANGED <<clock, health>>
    BY <2>1 DEF TypeOK, Earned, OnlyRates, SameCounts, SameAlerts, clock
  <2>2. CASE AttemptsFail
    BY <2>2, AttemptsAreOnlyRates
  <2> QED
    BY <1>4, <2>1, <2>2 DEF MainStorageFails, WorkerStorageFails
<1> QED
  BY <1>1, <1>2, <1>3, <1>4

\* Monitoring that ends forgets successes and failures, nothing else.
LEMMA UsersFields ==
  ASSUME TypeOK, NEW active \in BOOLEAN, Users(active)
  PROVE  /\ health' \in Healths
         /\ SameCounts(health', health) /\ SameAlerts(health', health)
         /\ health'.preflight = health.preflight /\ health'.snapshot = health.snapshot
         /\ health'.failures = IF active THEN health.failures ELSE 0
         /\ health'.succeeded <=> active /\ health.succeeded
<1>1. health' \in Healths
  BY Ranges DEF TypeOK, Users, SetMonitoringState, Healths
<1>2. CASE active
  BY <1>1, <1>2
  DEF TypeOK, Users, SetMonitoringState, Healths, SameCounts, SameAlerts
<1>3. CASE ~active
  BY <1>1, <1>3
  DEF TypeOK, Users, SetMonitoringState, Healths, SameCounts, SameAlerts
<1> QED
  BY <1>2, <1>3

\* What a run that fails leaves to be reported.
LEMMA RunFailsFields ==
  ASSUME TypeOK, NEW component \in {"cba", "list_am", "telegram"},
         NEW kind \in {"challenge", "integrity", "external"},
         RunFails(component, kind), ~stop
  PROVE  /\ error' \in Errors /\ error'.kind = kind /\ error'.component = component
         /\ pc' = IF kind = "challenge" THEN "note" ELSE "record"
         /\ challenged' = IF kind = "challenge"
                          THEN Least(challenged + 1, ChallengeCrawls) ELSE challenged
         /\ startup' <=> startup \/ (kind = "challenge" /\ ~passed)
         /\ unsound' <=> unsound \/ kind = "integrity"
         /\ streak' = Least(streak + 1, FailureLimit)
         /\ UNCHANGED <<served, worker, stop, passed>>
         /\ startup' \in BOOLEAN /\ unsound' \in BOOLEAN
<1>1. /\ error' = [component |-> component, kind |-> kind]
      /\ pc' = IF kind = "challenge" THEN "note" ELSE "record"
      /\ challenged' = IF kind = "challenge"
                       THEN Least(challenged + 1, ChallengeCrawls) ELSE challenged
      /\ startup' = (startup \/ (kind = "challenge" /\ ~passed))
      /\ unsound' = (unsound \/ kind = "integrity")
      /\ streak' = Least(streak + 1, FailureLimit)
      /\ UNCHANGED <<served, worker, stop, passed>>
  BY DEF RunFails
<1>2. error' \in Errors /\ error'.kind = kind /\ error'.component = component
  BY <1>1 DEF Errors
<1>3. /\ startup' <=> startup \/ (kind = "challenge" /\ ~passed)
      /\ startup' \in BOOLEAN
  <2>1. CASE startup
    BY <1>1, <2>1
  <2>2. CASE ~startup
    BY <1>1, <2>2
  <2> QED
    BY <2>1, <2>2
<1>4. /\ unsound' <=> unsound \/ kind = "integrity"
      /\ unsound' \in BOOLEAN
  <2>1. CASE unsound
    BY <1>1, <2>1
  <2>2. CASE ~unsound
    BY <1>1, <2>2
  <2> QED
    BY <2>1, <2>2
<1> QED
  BY <1>1, <1>2, <1>3, <1>4

\* What a run that fails leaves is typed, also when it was told to stop.
LEMMA RunFailsTyped ==
  ASSUME TypeOK, NEW component \in {"cba", "list_am", "telegram"},
         NEW kind \in {"challenge", "integrity", "external"},
         RunFails(component, kind)
  PROVE  /\ pc' \in {"join", "note", "record"} /\ worker' = worker
         /\ stop' = stop /\ passed' = passed
         /\ error' \in Errors \cup {None}
         /\ challenged' \in 0..ChallengeCrawls /\ startup' \in BOOLEAN
         /\ unsound' \in BOOLEAN
         /\ streak' \in 0..FailureLimit /\ served' \in BOOLEAN
<1>1. CASE stop
  BY <1>1 DEF TypeOK, RunFails, history
<1>2. CASE ~stop
  BY <1>2, RunFailsFields, Ranges DEF TypeOK
<1> QED
  BY <1>1, <1>2 DEF TypeOK

\* A request to the health server touches the alert of readiness only.
LEMMA ProbeFields ==
  ASSUME TypeOK, Probe
  PROVE  /\ health' \in Healths
         /\ SameCounts(health', health) /\ SameAlerts(health', health)
         /\ SameRest(health', health)
<1>1. health' \in Healths
  BY DEF TypeOK, Probe, Firing, Resolved, Healths, Alerts
<1>2. QED
  BY <1>1
  DEF TypeOK, Probe, Firing, Resolved, Healths, SameCounts, SameAlerts, SameRest

\* The cooldown and the clocks stay in range, whoever looks at them.
LEMMA PrimeTyped ==
  ASSUME TypeOK, Prime
  PROVE  wait' \in 0..Fresh /\ primed' \in BOOLEAN
BY DEF TypeOK, Prime, Remaining

\* So they do when attempts end.
LEMMA AttemptsTyped ==
  ASSUME TypeOK, AttemptSucceeds \/ AttemptsFail \/ AttemptsCancelled
  PROVE  /\ age' \in 0..Fresh \cup {None} /\ wait' \in 0..Fresh
         /\ primed' \in BOOLEAN /\ elapsed' = 0
         /\ elapsed' \in 0..MaxElapsed
         /\ series' \in {"ok", "failed"} /\ since' \in 0..Cooldown
<1>1. CASE AttemptSucceeds
  BY <1>1 DEF TypeOK, AttemptSucceeds
<1>2. CASE AttemptsFail
  BY <1>2 DEF TypeOK, AttemptsFail
<1>3. CASE AttemptsCancelled
  BY <1>3 DEF TypeOK, AttemptsCancelled
<1> QED
  BY <1>1, <1>2, <1>3

\* Attempts end, and start the cooldown if they failed and were not cancelled.
LEMMA AttemptsEnd ==
  ASSUME TypeOK, Spaced, series = "running",
         AttemptSucceeds \/ AttemptsFail \/ AttemptsCancelled
  PROVE  /\ series' # "running"
         /\ series' = "failed" /\ ~stop => primed' /\ since' + wait' >= Cooldown
<1>1. CASE AttemptSucceeds
  BY <1>1 DEF AttemptSucceeds
<1>2. CASE AttemptsFail
  BY <1>2 DEF TypeOK, Spaced, AttemptsFail
<1>3. CASE AttemptsCancelled
  BY <1>3 DEF AttemptsCancelled
<1> QED
  BY <1>1, <1>2, <1>3

\* So they do when attempts begin.
LEMMA BeginTyped ==
  ASSUME TypeOK, BeginAttempts
  PROVE  /\ age' = age /\ wait' \in 0..Fresh /\ primed' \in BOOLEAN
         /\ elapsed' = 0 /\ elapsed' \in 0..MaxElapsed
         /\ series' = "running" /\ since' = 0 /\ since' \in 0..Cooldown
BY PrimeTyped DEF BeginAttempts

\* Time that passes since a crawl takes back only that it succeeded.
LEMMA CrawlStaleFields ==
  ASSUME TypeOK, CrawlStale
  PROVE  /\ health' \in Healths
         /\ SameCounts(health', health) /\ SameAlerts(health', health)
         /\ health'.preflight = health.preflight /\ health'.snapshot = health.snapshot
         /\ ~health'.succeeded /\ health'.failures = health.failures
BY DEF TypeOK, CrawlStale, Healths, SameCounts, SameAlerts

-----------------------------------------------------------------------------
(* Every step keeps it *)

\* Nothing has happened in the initial state.
LEMMA InitSInv == Init => SInv
<1> SUFFICES ASSUME Init PROVE SInv
  OBVIOUS
<1>1. TypeOK
  <2>1. 0 \in 0..Fresh /\ 0 \in 0..Cooldown /\ 0 \in 0..MaxElapsed
    OBVIOUS
  <2> QED
    BY <2>1, NewHealthFields, Ranges DEF Init, TypeOK, Labels
<1>2. Reported /\ Cleared /\ Tallied /\ Sounded
  BY NewHealthFields DEF Init, Reported, Cleared, Tallied, Sounded
<1>3. Earned /\ Spaced
  BY NewHealthFields DEF Init, Earned, Spaced
<1> QED
  BY <1>1, <1>2, <1>3 DEF SInv

\* A step keeps what is to be reported known.
LEMMA ReportedStep == SInv /\ [Next]_vars => Reported'
<1> SUFFICES ASSUME SInv, [Next]_vars PROVE Reported'
  OBVIOUS
<1> USE DEF SInv, TypeOK, threads, clock, ratesHistory, history, Reported,
            SameCounts, Errors
<1>1. CASE Start \/ Top \/ CrawlSucceeds \/ Pause \/ WorkerTop \/ Tick
           \/ Signal
  BY <1>1
  DEF Start, Top, CrawlSucceeds, Pause, WorkerTop, Tick, Signal, Goto,
      Elsewhere, WorkerGoto
<1>2. CASE Rates \/ MainRefreshes
  BY <1>2, RatesSteps
  DEF Rates, MainRefreshes, Goto, RunFails, AfterRates, OnlyRates
<1>3. CASE MainBegins
  BY <1>3, RatesSteps
  DEF MainBegins, Goto, BeginAttempts, OnlyRates
<1>4. CASE PreflightPasses
  BY <1>4, PreflightReadyFields
  DEF PreflightPasses, Elsewhere
<1>5. ASSUME NEW active \in BOOLEAN, Users(active) PROVE Reported'
  BY <1>5, UsersFields
  DEF Users, Goto, Elsewhere
<1>6. CASE SourceFails
  BY <1>6
  DEF SourceFails, RunFails, Elsewhere
<1>7. CASE Validated
  BY <1>7, SourceSuccessFields
  DEF Validated, Goto, Elsewhere
<1>8. CASE Delivered
  BY <1>8, RecordCrawlSuccessFields
  DEF Delivered, Goto, Elsewhere
<1>9. CASE DeliveryFails
  BY <1>9
  DEF DeliveryFails, RunFails, Elsewhere
<1>10. CASE Note
  BY <1>10, RecordSourceChallengeFields
  DEF Note, Goto, Elsewhere
<1>11. CASE Record
  BY <1>11, RecordCrawlFailureFields
  DEF Record, Goto, Elsewhere
<1>12. CASE Unready
  BY <1>12, PreflightFailedFields
  DEF Unready, Goto, Elsewhere
<1>13. CASE Join \/ Crash
  BY <1>13, NewHealthFields
  DEF Join, Crash, Forgotten
<1>14. CASE WorkerRates \/ WorkerBegins
  BY <1>14, RatesSteps
  DEF WorkerRates, WorkerBegins, WorkerGoto, BeginAttempts, OnlyRates
<1>15. CASE WorkerRefreshes
  BY <1>15, RatesSteps
  DEF WorkerRefreshes, WorkerGoto, OnlyRates
<1>16. CASE MainStorageFails
  BY <1>16, RatesSteps
  DEF MainStorageFails, OnlyRates
<1>17. CASE WorkerStorageFails
  BY <1>17, RatesSteps
  DEF WorkerStorageFails, WorkerGoto, OnlyRates
<1>18. CASE Probe \/ CrawlStale
  BY <1>18, ProbeFields, CrawlStaleFields
  DEF Probe, CrawlStale
<1>19. CASE UNCHANGED vars
  BY <1>19 DEF vars
<1> QED
  BY <1>1, <1>2, <1>3, <1>4, <1>5, <1>6, <1>7, <1>8, <1>9, <1>10, <1>11, <1>12,
     <1>13, <1>14, <1>15, <1>16, <1>17, <1>18, <1>19
  DEF Next, Main, Worker

\* A step keeps the history of a validated source clear.
LEMMA ClearedStep == SInv /\ [Next]_vars => Cleared'
<1> SUFFICES ASSUME SInv, [Next]_vars PROVE Cleared'
  OBVIOUS
<1> USE DEF SInv, TypeOK, threads, clock, ratesHistory, history, Cleared
<1>1. CASE Start \/ Top \/ Pause \/ WorkerTop \/ Tick \/ Signal \/ Validated
           \/ Delivered \/ Note \/ Record \/ Unready \/ Probe \/ CrawlStale
           \/ WorkerRates \/ WorkerBegins \/ WorkerRefreshes
           \/ WorkerStorageFails \/ MainBegins \/ MainStorageFails
  BY <1>1, SourceSuccessFields, RecordCrawlSuccessFields,
     RecordSourceChallengeFields, RecordCrawlFailureFields,
     PreflightFailedFields, ProbeFields, CrawlStaleFields, RatesSteps
  DEF Start, Top, Pause, WorkerTop, Tick, Signal, Validated, Delivered, Note,
      Record, Unready, Probe, CrawlStale, WorkerRates, WorkerBegins,
      WorkerRefreshes, WorkerStorageFails, MainBegins, MainStorageFails, Goto,
      Elsewhere, WorkerGoto, BeginAttempts, OnlyRates
<1>2. CASE Rates \/ MainRefreshes \/ DeliveryFails
  BY <1>2, RatesSteps
  DEF Rates, MainRefreshes, DeliveryFails, Goto, RunFails, AfterRates,
      Elsewhere, OnlyRates
<1>3. CASE CrawlSucceeds \/ PreflightPasses
  BY <1>3, PreflightReadyFields
  DEF CrawlSucceeds, PreflightPasses, Goto, Elsewhere
<1>4. ASSUME NEW active \in BOOLEAN, Users(active) PROVE Cleared'
  BY <1>4, UsersFields
  DEF Users, Goto, Elsewhere
<1>5. CASE SourceFails
  BY <1>5
  DEF SourceFails, RunFails, Elsewhere
<1>6. CASE Join \/ Crash
  BY <1>6, NewHealthFields
  DEF Join, Crash, Forgotten
<1>7. CASE UNCHANGED vars
  BY <1>7 DEF vars
<1> QED
  BY <1>1, <1>2, <1>3, <1>4, <1>5, <1>6, <1>7 DEF Next, Main, Worker

\* A step keeps the tally.
LEMMA TalliedStep == SInv /\ [Next]_vars => Tallied'
<1> SUFFICES ASSUME SInv, [Next]_vars PROVE Tallied'
  OBVIOUS
<1> USE DEF SInv, TypeOK, threads, clock, ratesHistory, history, Reported,
            Cleared, Tallied, SameCounts, SameAlerts, Least
<1>1. CASE Start \/ Top \/ CrawlSucceeds \/ Pause \/ WorkerTop \/ Tick
           \/ Signal
  BY <1>1
  DEF Start, Top, CrawlSucceeds, Pause, WorkerTop, Tick, Signal, Goto,
      Elsewhere, WorkerGoto
<1>2. CASE Rates \/ MainRefreshes
  BY <1>2, RatesSteps
  DEF Rates, MainRefreshes, Goto, RunFails, AfterRates, OnlyRates
<1>3. CASE MainBegins
  BY <1>3, RatesSteps
  DEF MainBegins, Goto, BeginAttempts, OnlyRates
<1>4. CASE PreflightPasses
  BY <1>4, PreflightReadyFields
  DEF PreflightPasses, Elsewhere
<1>5. ASSUME NEW active \in BOOLEAN, Users(active) PROVE Tallied'
  BY <1>5, UsersFields
  DEF Users, Goto, Elsewhere
<1>6. CASE SourceFails
  <2>1. PICK kind \in {"challenge", "integrity", "external"} :
          pc \in {"preflight", "crawl"} /\ RunFails("list_am", kind) /\ UNCHANGED health /\ Elsewhere
    BY <1>6 DEF SourceFails
  <2>2. CASE stop
    BY <2>1, <2>2 DEF RunFails, Elsewhere
  <2>3. CASE ~stop
    BY <2>1, <2>3, RunFailsFields, RunFailsTyped DEF Elsewhere
  <2> QED
    BY <2>2, <2>3
<1>7. CASE Validated
  BY <1>7, SourceSuccessFields
  DEF Validated, Goto, Elsewhere
<1>8. CASE Delivered
  BY <1>8, RecordCrawlSuccessFields
  DEF Delivered, Goto, Elsewhere
<1>9. CASE DeliveryFails
  BY <1>9
  DEF DeliveryFails, RunFails, Elsewhere
<1>10. CASE Note
  BY <1>10, RecordSourceChallengeFields
  DEF Note, Goto, Elsewhere
<1>11. CASE Record
  BY <1>11, RecordCrawlFailureFields
  DEF Record, Goto, Elsewhere
<1>12. CASE Unready
  <2>1. /\ pc = "unready" /\ ~passed /\ ~health.during /\ health \in Healths
        /\ error \in Errors /\ (error.kind # "external" => error.component = "list_am")
    BY <1>12 DEF Unready, Reported
  <2>2. /\ health' \in Healths
        /\ health'.snapshot = health.snapshot
        /\ health'.succeeded = health.succeeded /\ health'.failures = health.failures
        /\ health'.preflight # "ready" /\ ~health'.during
        /\ health'.challenges = IF error.kind = "challenge" THEN ChallengeCrawls
                                ELSE health.challenges
        /\ "challenge" \in health'.alerts <=>
             "challenge" \in health.alerts \/ error.kind = "challenge"
        /\ "integrity" \in health'.alerts <=>
             "integrity" \in health.alerts \/ error.kind = "integrity"
    BY <1>12, <2>1, PreflightFailedFields DEF Unready
  <2>3. /\ pc' = "pause" /\ UNCHANGED <<worker, stop, passed, error>>
        /\ UNCHANGED <<clock, ratesHistory, history>>
    BY <1>12 DEF Unready, Goto, Elsewhere
  <2> QED
    BY <2>1, <2>2, <2>3
<1>13. CASE Join \/ Crash
  BY <1>13, NewHealthFields
  DEF Join, Crash, Forgotten
<1>14. CASE WorkerRates \/ WorkerBegins
  BY <1>14, RatesSteps
  DEF WorkerRates, WorkerBegins, WorkerGoto, BeginAttempts, OnlyRates
<1>15. CASE WorkerRefreshes
  BY <1>15, RatesSteps
  DEF WorkerRefreshes, WorkerGoto, OnlyRates
<1>16. CASE MainStorageFails
  BY <1>16, RatesSteps
  DEF MainStorageFails, OnlyRates
<1>17. CASE WorkerStorageFails
  BY <1>17, RatesSteps
  DEF WorkerStorageFails, WorkerGoto, OnlyRates
<1>18. CASE Probe \/ CrawlStale
  BY <1>18, ProbeFields, CrawlStaleFields
  DEF Probe, CrawlStale
<1>19. CASE UNCHANGED vars
  BY <1>19 DEF vars
<1> QED
  BY <1>1, <1>2, <1>3, <1>4, <1>5, <1>6, <1>7, <1>8, <1>9, <1>10, <1>11, <1>12,
     <1>13, <1>14, <1>15, <1>16, <1>17, <1>18, <1>19
  DEF Next, Main, Worker

\* A step keeps the alert for integrity exact.
LEMMA SoundedStep == SInv /\ [Next]_vars => Sounded'
<1> SUFFICES ASSUME SInv, [Next]_vars PROVE Sounded'
  OBVIOUS
<1> USE DEF SInv, TypeOK, threads, clock, ratesHistory, history, Reported,
            Cleared, Sounded, SameAlerts
<1>1. CASE Start \/ Top \/ CrawlSucceeds \/ Pause \/ WorkerTop \/ Tick
           \/ Signal
  BY <1>1
  DEF Start, Top, CrawlSucceeds, Pause, WorkerTop, Tick, Signal, Goto,
      Elsewhere, WorkerGoto
<1>2. CASE Rates \/ MainRefreshes
  BY <1>2, RatesSteps
  DEF Rates, MainRefreshes, Goto, RunFails, AfterRates, OnlyRates
<1>3. CASE MainBegins
  BY <1>3, RatesSteps
  DEF MainBegins, Goto, BeginAttempts, OnlyRates
<1>4. CASE PreflightPasses
  BY <1>4, PreflightReadyFields
  DEF PreflightPasses, Elsewhere
<1>5. ASSUME NEW active \in BOOLEAN, Users(active) PROVE Sounded'
  BY <1>5, UsersFields
  DEF Users, Goto, Elsewhere
<1>6. CASE SourceFails
  <2>1. PICK kind \in {"challenge", "integrity", "external"} :
          pc \in {"preflight", "crawl"} /\ RunFails("list_am", kind) /\ UNCHANGED health /\ Elsewhere
    BY <1>6 DEF SourceFails
  <2>2. CASE stop
    BY <2>1, <2>2 DEF RunFails, Elsewhere
  <2>3. CASE ~stop
    BY <2>1, <2>3, RunFailsFields, RunFailsTyped DEF Elsewhere
  <2> QED
    BY <2>2, <2>3
<1>7. CASE Validated
  BY <1>7, SourceSuccessFields
  DEF Validated, Goto, Elsewhere
<1>8. CASE Delivered
  BY <1>8, RecordCrawlSuccessFields
  DEF Delivered, Goto, Elsewhere
<1>9. CASE DeliveryFails
  BY <1>9
  DEF DeliveryFails, RunFails, Elsewhere
<1>10. CASE Note
  BY <1>10, RecordSourceChallengeFields
  DEF Note, Goto, Elsewhere
<1>11. CASE Record
  BY <1>11, RecordCrawlFailureFields
  DEF Record, Goto, Elsewhere
<1>12. CASE Unready
  <2>1. /\ pc = "unready" /\ ~passed /\ ~health.during /\ health \in Healths
        /\ error \in Errors /\ (error.kind # "external" => error.component = "list_am")
    BY <1>12 DEF Unready, Reported
  <2>2. /\ health' \in Healths
        /\ health'.snapshot = health.snapshot
        /\ health'.succeeded = health.succeeded /\ health'.failures = health.failures
        /\ health'.preflight # "ready" /\ ~health'.during
        /\ health'.challenges = IF error.kind = "challenge" THEN ChallengeCrawls
                                ELSE health.challenges
        /\ "challenge" \in health'.alerts <=>
             "challenge" \in health.alerts \/ error.kind = "challenge"
        /\ "integrity" \in health'.alerts <=>
             "integrity" \in health.alerts \/ error.kind = "integrity"
    BY <1>12, <2>1, PreflightFailedFields DEF Unready
  <2>3. /\ pc' = "pause" /\ UNCHANGED <<worker, stop, passed, error>>
        /\ UNCHANGED <<clock, ratesHistory, history>>
    BY <1>12 DEF Unready, Goto, Elsewhere
  <2> QED
    BY <2>1, <2>2, <2>3
<1>13. CASE Join \/ Crash
  BY <1>13, NewHealthFields
  DEF Join, Crash, Forgotten
<1>14. CASE WorkerRates \/ WorkerBegins
  BY <1>14, RatesSteps
  DEF WorkerRates, WorkerBegins, WorkerGoto, BeginAttempts, OnlyRates
<1>15. CASE WorkerRefreshes
  BY <1>15, RatesSteps
  DEF WorkerRefreshes, WorkerGoto, OnlyRates
<1>16. CASE MainStorageFails
  BY <1>16, RatesSteps
  DEF MainStorageFails, OnlyRates
<1>17. CASE WorkerStorageFails
  BY <1>17, RatesSteps
  DEF WorkerStorageFails, WorkerGoto, OnlyRates
<1>18. CASE Probe \/ CrawlStale
  BY <1>18, ProbeFields, CrawlStaleFields
  DEF Probe, CrawlStale
<1>19. CASE UNCHANGED vars
  BY <1>19 DEF vars
<1> QED
  BY <1>1, <1>2, <1>3, <1>4, <1>5, <1>6, <1>7, <1>8, <1>9, <1>10, <1>11, <1>12,
     <1>13, <1>14, <1>15, <1>16, <1>17, <1>18, <1>19
  DEF Next, Main, Worker

\* A step keeps readiness earned.
LEMMA EarnedStep == SInv /\ [Next]_vars => Earned'
<1> SUFFICES ASSUME SInv, [Next]_vars PROVE Earned'
  OBVIOUS
<1> USE DEF SInv, TypeOK, threads, clock, ratesHistory, history, Reported,
            Earned, SameRest, Least
<1>1. CASE Start \/ Top \/ CrawlSucceeds \/ Pause \/ WorkerTop \/ Tick
           \/ Signal
  BY <1>1
  DEF Start, Top, CrawlSucceeds, Pause, WorkerTop, Tick, Signal, Goto,
      Elsewhere, WorkerGoto
<1>2. CASE Rates \/ MainRefreshes
  BY <1>2, RatesSteps
  DEF Rates, MainRefreshes, Goto, RunFails, AfterRates, OnlyRates
<1>3. CASE MainBegins
  BY <1>3, RatesSteps
  DEF MainBegins, Goto, BeginAttempts, OnlyRates
<1>4. CASE PreflightPasses
  BY <1>4, PreflightReadyFields
  DEF PreflightPasses, Elsewhere
<1>5. ASSUME NEW active \in BOOLEAN, Users(active) PROVE Earned'
  BY <1>5, UsersFields
  DEF Users, Goto, Elsewhere
<1>6. CASE SourceFails
  BY <1>6
  DEF SourceFails, RunFails, Elsewhere
<1>7. CASE Validated
  BY <1>7, SourceSuccessFields
  DEF Validated, Goto, Elsewhere
<1>8. CASE Delivered
  BY <1>8, RecordCrawlSuccessFields
  DEF Delivered, Goto, Elsewhere
<1>9. CASE DeliveryFails
  BY <1>9
  DEF DeliveryFails, RunFails, Elsewhere
<1>10. CASE Note
  BY <1>10, RecordSourceChallengeFields
  DEF Note, Goto, Elsewhere
<1>11. CASE Record
  BY <1>11, RecordCrawlFailureFields
  DEF Record, Goto, Elsewhere
<1>12. CASE Unready
  BY <1>12, PreflightFailedFields
  DEF Unready, Goto, Elsewhere
<1>13. CASE Join \/ Crash
  BY <1>13, NewHealthFields
  DEF Join, Crash, Forgotten
<1>14. CASE WorkerRates \/ WorkerBegins
  BY <1>14, RatesSteps
  DEF WorkerRates, WorkerBegins, WorkerGoto, BeginAttempts, OnlyRates
<1>15. CASE WorkerRefreshes
  BY <1>15, RatesSteps
  DEF WorkerRefreshes, WorkerGoto, OnlyRates
<1>16. CASE MainStorageFails
  BY <1>16, RatesSteps
  DEF MainStorageFails, OnlyRates
<1>17. CASE WorkerStorageFails
  BY <1>17, RatesSteps
  DEF WorkerStorageFails, WorkerGoto, OnlyRates
<1>18. CASE Probe \/ CrawlStale
  BY <1>18, ProbeFields, CrawlStaleFields
  DEF Probe, CrawlStale
<1>19. CASE UNCHANGED vars
  BY <1>19 DEF vars
<1> QED
  BY <1>1, <1>2, <1>3, <1>4, <1>5, <1>6, <1>7, <1>8, <1>9, <1>10, <1>11, <1>12,
     <1>13, <1>14, <1>15, <1>16, <1>17, <1>18, <1>19
  DEF Next, Main, Worker

\* A step keeps the refreshes spaced.
LEMMA SpacedStep == SInv /\ [Next]_vars => Spaced'
<1> SUFFICES ASSUME SInv, [Next]_vars PROVE Spaced'
  OBVIOUS
<1> USE DEF SInv, TypeOK, threads, clock, ratesHistory, history, Spaced,
            Unlocked, Least
<1>1. CASE Start \/ Top \/ CrawlSucceeds \/ Pause \/ WorkerTop \/ Signal
           \/ PreflightPasses \/ SourceFails \/ Validated \/ Delivered
           \/ DeliveryFails \/ Note \/ Record \/ Unready \/ Probe
           \/ CrawlStale
  BY <1>1, PreflightReadyFields, SourceSuccessFields, RecordCrawlSuccessFields,
     RecordSourceChallengeFields, RecordCrawlFailureFields,
     PreflightFailedFields, ProbeFields, CrawlStaleFields
  DEF Start, Top, CrawlSucceeds, Pause, WorkerTop, Signal, PreflightPasses,
      SourceFails, Validated, Delivered, DeliveryFails, Note, Record, Unready,
      Probe, CrawlStale, Goto, Elsewhere, WorkerGoto, RunFails
<1>2. CASE Rates \/ WorkerRates
  BY <1>2, RatesSteps
  DEF Rates, WorkerRates, Goto, RunFails, AfterRates, Prime, Remaining,
      WorkerGoto, OnlyRates
<1>3. CASE MainBegins \/ WorkerBegins
  BY <1>3, RatesSteps
  DEF MainBegins, WorkerBegins, Goto, BeginAttempts, Prime, WorkerGoto,
      OnlyRates
<1>4. CASE MainRefreshes \/ WorkerRefreshes \/ MainStorageFails
           \/ WorkerStorageFails
  BY <1>4, RatesSteps, AttemptsEnd
  DEF MainRefreshes, WorkerRefreshes, MainStorageFails, WorkerStorageFails,
      Goto, RunFails, AfterRates, WorkerGoto, OnlyRates
<1>5. ASSUME NEW active \in BOOLEAN, Users(active) PROVE Spaced'
  BY <1>5, UsersFields
  DEF Users, Goto, Elsewhere
<1>6. CASE Join \/ Crash
  BY <1>6, NewHealthFields
  DEF Join, Crash, Forgotten
<1>7. CASE Tick
  BY <1>7
  DEF Tick
<1>8. CASE UNCHANGED vars
  BY <1>8 DEF vars
<1> QED
  BY <1>1, <1>2, <1>3, <1>4, <1>5, <1>6, <1>7, <1>8 DEF Next, Main, Worker

\* A step keeps the types.
LEMMA TypeOKStep == SInv /\ [Next]_vars => TypeOK'
<1> SUFFICES ASSUME SInv, [Next]_vars PROVE TypeOK'
  OBVIOUS
<1> USE DEF SInv, TypeOK, threads, clock, ratesHistory, history, Reported,
            Labels, Unlocked
<1>1. CASE Start \/ WorkerTop
  BY <1>1, Ranges
  DEF Start, WorkerTop, WorkerGoto
<1>2. CASE Top
  BY <1>2
  DEF Top, Goto, Elsewhere
<1>3. CASE Rates
  BY <1>3, RatesSteps, PrimeTyped, RunFailsTyped
  DEF Rates, Goto, RunFails, AfterRates, OnlyRates
<1>4. CASE MainBegins \/ WorkerBegins
  BY <1>4, RatesSteps, BeginTyped
  DEF MainBegins, WorkerBegins, Goto, BeginAttempts, WorkerGoto, OnlyRates
<1>5. CASE MainRefreshes
  BY <1>5, RatesSteps, AttemptsTyped, RunFailsTyped
  DEF MainRefreshes, Goto, RunFails, AfterRates, OnlyRates
<1>6. CASE PreflightPasses
  BY <1>6, PreflightReadyFields
  DEF PreflightPasses, Elsewhere
<1>7. ASSUME NEW active \in BOOLEAN, Users(active) PROVE TypeOK'
  <2>1. health' \in Healths
    BY <1>7, UsersFields
  <2>2. pc' \in {"crawl", "pause"} /\ pc = "users" /\ UNCHANGED <<worker, stop, passed, error>>
    BY <1>7 DEF Users, Goto
  <2>3. UNCHANGED <<clock, ratesHistory, challenged, startup, unsound>>
    BY <1>7 DEF Users, Elsewhere
  <2>4. streak' \in 0..FailureLimit /\ served' \in BOOLEAN
    BY <1>7, Ranges DEF Users
  <2> QED
    BY <2>1, <2>2, <2>3, <2>4
<1>8. CASE CrawlSucceeds
  BY <1>8, Ranges
  DEF CrawlSucceeds, Goto, Elsewhere
<1>9. CASE SourceFails
  <2>1. PICK kind \in {"challenge", "integrity", "external"} :
          pc \in {"preflight", "crawl"} /\ RunFails("list_am", kind) /\ UNCHANGED health /\ Elsewhere
    BY <1>9 DEF SourceFails
  <2>2. CASE stop
    BY <2>1, <2>2 DEF RunFails, Elsewhere
  <2>3. CASE ~stop
    BY <2>1, <2>3, RunFailsFields, RunFailsTyped DEF Elsewhere
  <2> QED
    BY <2>2, <2>3
<1>10. CASE Validated
  BY <1>10, SourceSuccessFields
  DEF Validated, Goto, Elsewhere
<1>11. CASE Delivered
  <2>1. CASE stop
    BY <1>11, <2>1 DEF Delivered, Goto, Elsewhere
  <2>2. CASE ~stop
    BY <1>11, <2>2, RecordCrawlSuccessFields, Ranges DEF Delivered, Goto, Elsewhere
  <2> QED
    BY <2>1, <2>2
<1>12. CASE DeliveryFails
  BY <1>12, Ranges, RunFailsTyped
  DEF DeliveryFails, RunFails, Elsewhere
<1>13. CASE Note
  BY <1>13, RecordSourceChallengeFields
  DEF Note, Goto, Elsewhere
<1>14. CASE Record
  BY <1>14, RecordCrawlFailureFields
  DEF Record, Goto, Elsewhere
<1>15. CASE Unready
  BY <1>15, PreflightFailedFields
  DEF Unready, Goto, Elsewhere
<1>16. CASE Pause
  BY <1>16
  DEF Pause, Elsewhere
<1>17. CASE Join \/ Crash
  BY <1>17, NewHealthFields, Ranges
  DEF Join, Crash, Forgotten
<1>18. CASE WorkerRates
  BY <1>18, RatesSteps, PrimeTyped
  DEF WorkerRates, WorkerGoto, OnlyRates
<1>19. CASE WorkerRefreshes
  BY <1>19, RatesSteps, AttemptsTyped
  DEF WorkerRefreshes, WorkerGoto, OnlyRates
<1>20. CASE MainStorageFails
  BY <1>20, RatesSteps, AttemptsTyped
  DEF MainStorageFails, OnlyRates
<1>21. CASE WorkerStorageFails
  BY <1>21, RatesSteps, AttemptsTyped
  DEF WorkerStorageFails, WorkerGoto, OnlyRates
<1>22. CASE Probe \/ CrawlStale
  BY <1>22, ProbeFields, CrawlStaleFields
  DEF Probe, CrawlStale
<1>23. CASE Tick
  BY <1>23, Ranges
  DEF Tick, Least
<1>24. CASE Signal
  BY <1>24
  DEF Signal, Elsewhere
<1>25. CASE UNCHANGED vars
  BY <1>25 DEF vars
<1> QED
  BY <1>1, <1>2, <1>3, <1>4, <1>5, <1>6, <1>7, <1>8, <1>9, <1>10, <1>11, <1>12,
     <1>13, <1>14, <1>15, <1>16, <1>17, <1>18, <1>19, <1>20, <1>21, <1>22,
     <1>23, <1>24, <1>25
  DEF Next, Main, Worker

-----------------------------------------------------------------------------

\* The inductive invariant holds in every behaviour, for any constants.
THEOREM ServiceInvariance == Spec => []SInv
<1>1. SInv /\ [Next]_vars => SInv'
  BY TypeOKStep, ReportedStep, ClearedStep, TalliedStep, SoundedStep, EarnedStep,
     SpacedStep
  DEF SInv
<1> QED
  BY <1>1, InitSInv, PTL DEF Spec

\* Types: one thread at a time is in the critical section of the cooldown, and
\* every counter of health.rs stays within its limit.
THEOREM ServiceTypeCorrect == Spec => []TypeOK
<1>1. SInv => TypeOK
  BY DEF SInv
<1> QED
  BY <1>1, ServiceInvariance, PTL

\* The alerts for challenges and integrity (health.rs, apply) fire from their
\* cause to its remedy, whatever the limits.
THEOREM SourceAlertsExact == Spec => []AlertsExact
<1>1. SInv => AlertsExact
  <2> SUFFICES ASSUME SInv, Settled PROVE AlertsExact
    BY DEF AlertsExact
  <2>1. /\ health.challenges = IF startup THEN ChallengeCrawls ELSE challenged
        /\ "challenge" \in health.alerts <=> health.challenges = ChallengeCrawls
    BY DEF SInv, Tallied, Settled
  <2>2. "integrity" \in health.alerts <=> unsound
    BY DEF SInv, Sounded, Settled
  <2> QED
    BY <2>1, <2>2 DEF AlertsExact
<1> QED
  BY <1>1, ServiceInvariance, PTL

\* A process that calls itself ready (health.rs, readiness) has earned it.
THEOREM ReadinessEarned == Spec => []ReadyIsEarned
<1>1. SInv => ReadyIsEarned
  <2> SUFFICES ASSUME SInv, Settled, Ready, health.required
               PROVE  passed /\ age # None /\ served /\ streak < FailureLimit
    BY DEF ReadyIsEarned
  <2>1. /\ health.preflight = "ready" /\ health.succeeded /\ health.snapshot
        /\ health.failures # FailureLimit
    <3>1. \A r \in {"preflight", "success", "failures", "rates"} : r \notin Reasons(health)
      BY DEF Ready
    <3> QED
      BY <3>1 DEF Reasons, SInv, TypeOK, Healths
  <2>2. streak = health.failures /\ health.failures \in 0..FailureLimit
    BY DEF SInv, TypeOK, Healths, Earned, Settled
  <2> QED
    BY <2>1, <2>2 DEF SInv, Earned
<1> QED
  BY <1>1, ServiceInvariance, PTL

\* Whichever thread asks for rates (runtime.rs, rates), the cooldown is kept,
\* for any cooldown, lifetime of a snapshot and time that attempts take.
THEOREM RefreshesSpaced == Spec => RatesSpaced
<1> DEFINE Early ==
      ~stop /\ Begins =>
        /\ age = None \/ age = Fresh
        /\ series # "running"
        /\ series = "failed" => since >= Cooldown
<1>1. SInv /\ [Next]_vars => [Early]_vars
  <2> SUFFICES ASSUME SInv, Next, ~stop, Begins
               PROVE  /\ age = None \/ age = Fresh
                      /\ series # "running"
                      /\ series = "failed" => since >= Cooldown
    BY DEF Early
  <2>1. BeginAttempts /\ Unlocked
    BY DEF Begins, Next, Main, Worker, Goto, WorkerGoto, RunFails, AfterRates,
       Start, Top, Rates, MainBegins, MainRefreshes, PreflightPasses, Users,
       CrawlSucceeds, SourceFails, Validated, Delivered, DeliveryFails, Note,
       Record, Unready, Pause, Join, Forgotten, WorkerTop, WorkerRates,
       WorkerBegins, WorkerRefreshes, WorkerStorageFails, MainStorageFails,
       Probe, CrawlStale, Tick, Signal, Crash, threads
  <2>2. ~Cooling /\ ~Usable
    BY <2>1 DEF BeginAttempts
  <2>3. series # "running"
    BY <2>1 DEF SInv, Spaced, Unlocked
  <2>4. age = None \/ age = Fresh
    BY <2>2 DEF SInv, TypeOK, Usable
  <2>5. series = "failed" => since >= Cooldown
    <3> SUFFICES ASSUME series = "failed" PROVE since >= Cooldown
      OBVIOUS
    <3>1. primed /\ since + wait >= Cooldown
      BY DEF SInv, Spaced
    <3>2. wait = 0
      BY <2>2, <3>1 DEF SInv, TypeOK, Cooling, Usable, Remaining
    <3> QED
      BY <3>1, <3>2 DEF SInv, TypeOK
  <2> QED
    BY <2>3, <2>4, <2>5
<1> QED
  BY <1>1, ServiceInvariance, PTL DEF Spec, RatesSpaced, Early
=============================================================================
