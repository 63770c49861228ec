------------------------------ MODULE Services ------------------------------
(***************************************************************************)
(* The services beside dispatch and configuration: deployment jobs,        *)
(* session requests, managed settings and alerts.                          *)
(*                                                                         *)
(* They live in one Fleet process and one database, but no table, lock or  *)
(* handler of one is read or written by another, so nothing they do        *)
(* together differs from what each does alone: a behaviour here is one of  *)
(* a single service, which the initial state chooses.                      *)
(***************************************************************************)
EXTENDS Integers, Sequences

CONSTANTS
    NULL,
    JobRequests, Product, JobKey, JobPayload, Workloads, JobFaults,
    Openings, OpeningKey, OpeningPayload, Body, OpeningFaults,
    Operators, Snapshots, Invalid, Baseline, MaxVersion, SettingsFaults,
    Scanners, Tasks, MaxDown

VARIABLES
    service,        \* the service that acts: "jobs", "sessions", "settings", "alerts"
    faults,         \* its faults so far
    \* see DeploymentJobs
    state, linked, overdue, asking, told, pc, todo, job, verdict, canceller,
    release, releases, pipelines, healthy, forge, buried,
    \* see SessionRequests
    sessions, messages, archived, step, child, holder, answer,
    \* see ManagedSettings
    active, issued, content, replaced, request, promised, process, loaded,
    restarting,
    \* see Alerts
    status, beat, open, acknowledged, scan, task

jobVars == <<state, linked, overdue, asking, told, pc, todo, job, verdict,
             canceller, release, releases, pipelines, healthy, forge, buried>>
sessionVars == <<sessions, messages, archived, step, child, holder, answer>>
settingsVars == <<active, issued, content, replaced, request, promised, process,
                  loaded, restarting>>
alertVars == <<status, beat, open, acknowledged, scan, task>>
vars == <<service, faults, jobVars, sessionVars, settingsVars, alertVars>>

\* The two largest components come with what is proved about them alone, for
\* ServicesProofs to cite.
Jobs == INSTANCE JobsProofs WITH
    Requests <- JobRequests, KeyOf <- JobKey, PayloadOf <- JobPayload,
    MaxFaults <- JobFaults

Sessions == INSTANCE RequestsProofs WITH
    Requests <- Openings, KeyOf <- OpeningKey, PayloadOf <- OpeningPayload,
    BodyOf <- Body, MaxFaults <- OpeningFaults

Settings == INSTANCE ManagedSettings WITH MaxFaults <- SettingsFaults

Alert == INSTANCE Alerts

ASSUME ServicesAssumption ==
    /\ Jobs!JobsAssumption /\ Sessions!RequestsAssumption
    /\ Settings!SettingsAssumption

\* The service that acts has requests; the other services rest.
Init ==
    /\ service \in {"jobs", "sessions", "settings", "alerts"}
    /\ Jobs!Init
    /\ (service = "jobs") <=> (\E r \in JobRequests : asking[r] # "done")
    /\ service = "jobs" \/ forge
    /\ Sessions!Init
    /\ Settings!Init
    /\ Alert!Init

\* A step of one service leaves the others alone.
InJobs(A) ==
    service = "jobs" /\ A /\ UNCHANGED <<service, sessionVars, settingsVars, alertVars>>

InSessions(A) ==
    service = "sessions" /\ A /\ UNCHANGED <<service, jobVars, settingsVars, alertVars>>

InSettings(A) ==
    service = "settings" /\ A /\ UNCHANGED <<service, jobVars, sessionVars, alertVars>>

InAlerts(A) ==
    service = "alerts" /\ A
    /\ UNCHANGED <<service, faults, jobVars, sessionVars, settingsVars>>

Next ==
    \/ InJobs(Jobs!Next)
    \/ InSessions(Sessions!Next)
    \/ InSettings(Settings!Next)
    \/ InAlerts(Alert!Next)

Spec == Init /\ [][Next]_vars

\* The fairness of each service, as its module states it.
FairSpec ==
    /\ Spec
    /\ WF_vars(\/ InJobs(Jobs!Worker)
               \/ InSettings(Settings!Process)
               \/ InAlerts(\E s \in Scanners : Alert!Scan(s)))
    /\ WF_vars(InJobs(\E r \in JobRequests : Jobs!TimeIsUp(r)))
    /\ SF_vars(InAlerts(\E s \in Scanners : Alert!ReadAlerts(s)))
    /\ SF_vars(InAlerts(\E s \in Scanners : Alert!ResolveFresh(s)))

-----------------------------------------------------------------------------
\* A job is completed only after its release and both health addresses
\* succeeded (docs/API.md:221): see DeploymentJobs.
CompletedVerified == Jobs!CompletedVerified

\* One job and one release for a key, one pipeline for an agent job: see
\* DeploymentJobs.
OncePerKey == Jobs!OncePerKey

\* An identical repeat is not refused (docs/API.md:221): see DeploymentJobs.
RepeatIsAnswered == Jobs!RepeatIsAnswered

\* A key has one job and one release, completed only with it, and a job that
\* failed or was cancelled is over: see JobLedger.
ImplementsLedger == Jobs!ImplementsLedger

\* Every product job ends while Forge is configured, whatever fails: see
\* DeploymentJobs.
ProductJobsEnd == Jobs!ProductJobsEnd

\* A keyed request that was answered has its one session with its one first
\* message (docs/RESILIENCE.md:6): see SessionRequests.
AnsweredIsComplete == Sessions!AnsweredIsComplete

\* No version of the settings replaces one its operator had not seen
\* (docs/API.md:203): see ManagedSettings.
NoLostUpdate == Settings!NoLostUpdate

\* A version of which a restart was promised is loaded: see ManagedSettings.
PromisedIsLoaded == Settings!PromisedIsLoaded

\* At most one active heartbeat_stale alert (docs/API.md:239): see Alerts.
OneHeartbeatAlert == Alert!OneHeartbeatAlert

\* An agent that answers again loses its heartbeat_stale alert
\* (docs/API.md:240): see Alerts.  The hypothesis is about the alerts service.
FreshResolves == service = "alerts" => Alert!FreshResolves
=============================================================================
