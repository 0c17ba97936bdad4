------------------------------ MODULE NodeHttps ------------------------------
(* How a node gets a certificate: the root helper of src/scripts/               *)
(* node-https-helper.py, which the gateway asks over a socket                   *)
(* (src/src/lib/node-https.ts, POST /api/node/https/configure).  One worker     *)
(* thread replaces the configuration of the proxy, waits for a certificate and  *)
(* puts back what was there when it does not come; the helper may be killed at  *)
(* any step and then recovers from its status file.                             *)
EXTENDS Naturals

CONSTANTS Domains, Emails,
          MaxHttpsFaults, \* bound: steps that fail, and kills
          MaxCooldowns    \* bound: times the ten minutes pass

(* "none" stands for no domain at all; a domain has a dot (DOMAIN).              *)
ASSUME HttpsAssumption == "none" \notin Domains /\ {MaxHttpsFaults, MaxCooldowns} \subseteq Nat

Sites == [domain : Domains, email : Emails]
NoSite == [domain |-> "none", email |-> "none"]
SiteFiles == Sites \cup {NoSite}

VARIABLES caddyfile, previousFile, \* Caddyfile, previous-Caddyfile
          proxy,                   \* [active, enabled, serving]: gstd-node-https.service
          statusFile,              \* status.json
          helper,                  \* [up, status]: the process
          worker,                  \* its thread: [step, site, was, wasActive]
          before,                  \* history: what was there when the last setup was accepted
          tenMinutes, issued,      \* the clock; history: setups accepted
          httpsFaults

httpsVars == <<caddyfile, previousFile, proxy, statusFile, helper, worker, before, tenMinutes, issued, httpsFaults>>

HttpsSteps == {"none", "accepted", "written", "probing", "restore", "restart", "recover", "undo", "redo"}
HttpsStatus == [state : {"not_configured", "configuring", "verified", "verification_required", "failed"},
             domain : Domains \cup {"none"}, error : {"none", "failed", "rollback_failed"},
             retry : 0..MaxCooldowns + 1, hadPrevious : BOOLEAN, previousActive : BOOLEAN]
Unset == [state |-> "not_configured", domain |-> "none", error |-> "none",
          retry |-> 0, hadPrevious |-> FALSE, previousActive |-> FALSE]
NoWorker == [step |-> "none", site |-> NoSite, was |-> NoSite, wasActive |-> FALSE]

HttpsTypeOK ==
    /\ {caddyfile, previousFile} \subseteq SiteFiles
    /\ proxy \in [active : BOOLEAN, enabled : BOOLEAN, serving : SiteFiles]
    /\ statusFile \in HttpsStatus
    /\ helper \in [up : BOOLEAN, status : HttpsStatus]
    /\ worker \in [step : HttpsSteps, site : SiteFiles, was : SiteFiles, wasActive : BOOLEAN]
    /\ before \in [file : SiteFiles, active : BOOLEAN]
    /\ tenMinutes \in 0..MaxCooldowns /\ issued \in 0..MaxCooldowns + 1
    /\ httpsFaults \in 0..MaxHttpsFaults

HttpsInit == /\ caddyfile = NoSite /\ previousFile = NoSite
             /\ proxy = [active |-> FALSE, enabled |-> FALSE, serving |-> NoSite]
             /\ statusFile = Unset /\ helper = [up |-> FALSE, status |-> Unset]
             /\ worker = NoWorker /\ before = [file |-> NoSite, active |-> FALSE]
             /\ tenMinutes = 0 /\ issued = 0 /\ httpsFaults = 0

HttpsFault == httpsFaults < MaxHttpsFaults /\ httpsFaults' = httpsFaults + 1
NoHttpsFault == UNCHANGED httpsFaults
ToStep(s) == worker' = [worker EXCEPT !.step = s]
(* persist: the status of the process, written as one.                          *)
Persist(status) == helper' = [helper EXCEPT !.status = status] /\ statusFile' = status
Serve(file) == proxy' = [proxy EXCEPT !.active = TRUE, !.serving = file]
StopProxy == proxy' = [proxy EXCEPT !.active = FALSE, !.serving = NoSite]

-----------------------------------------------------------------------------
(* Manager.__init__, for the first request after a kill: what was being set up  *)
(* is looked at by a worker, anything else has to be verified again.            *)
HelperStarts ==
    /\ ~helper.up
    /\ helper' = [up |-> TRUE,
                  status |-> IF statusFile.domain = "none" THEN Unset
                             ELSE [Unset EXCEPT !.domain = statusFile.domain, !.retry = statusFile.retry,
                                   !.state = IF statusFile.state = "configuring" THEN "configuring" ELSE "verification_required"]]
    /\ worker' = IF statusFile.state = "configuring" THEN [NoWorker EXCEPT !.step = "recover"] ELSE NoWorker
    /\ UNCHANGED <<caddyfile, previousFile, proxy, statusFile, before, tenMinutes, issued, httpsFaults>>
(* A kill, or a reboot, which starts the proxy only when it was enabled.        *)
HelperKilled ==
    /\ helper.up /\ HttpsFault
    /\ helper' = [helper EXCEPT !.up = FALSE] /\ worker' = NoWorker
    /\ \/ UNCHANGED proxy
       \/ proxy' = [proxy EXCEPT !.active = proxy.enabled, !.serving = IF proxy.enabled THEN caddyfile ELSE NoSite]
    /\ UNCHANGED <<caddyfile, previousFile, statusFile, before, tenMinutes, issued>>

Backup(site) == previousFile' = IF caddyfile = NoSite THEN previousFile ELSE caddyfile

(* The helper answers: otherwise https_helper_unavailable, with nothing done.   *)
Reachable == helper.up
(* What a probe of the proxy needs to find a certificate of the domain.         *)
Probed == caddyfile # NoSite /\ proxy.active

(* Manager.start: another domain, a worker at work   *)
(* and the cooldown are refused.  The copy is made before the status is saved.  *)
Accept(site) ==
    /\ worker.step = "none"
    /\ caddyfile # NoSite => caddyfile.domain = site.domain
    /\ tenMinutes >= helper.status.retry
    /\ Backup(site)
    /\ Persist([Unset EXCEPT !.state = "configuring", !.domain = site.domain, !.retry = tenMinutes + 1,
                             !.hadPrevious = caddyfile # NoSite, !.previousActive = proxy.active])
    /\ worker' = [step |-> "accepted", site |-> site, was |-> caddyfile, wasActive |-> proxy.active]
    /\ before' = [file |-> caddyfile, active |-> proxy.active]
    /\ issued' = issued + 1
    /\ UNCHANGED <<caddyfile, proxy, tenMinutes, httpsFaults>>

(* POST /api/node/https/configure, for one of the sites that are valid.         *)
ConfigureHttps(site) == Reachable /\ Accept(site)

(* The end of a setup that failed.                                              *)
Failed(error) ==
    /\ worker' = NoWorker
    /\ Persist([helper.status EXCEPT !.error = error,
                !.state = IF worker.was # NoSite THEN "verification_required" ELSE "failed"])

(* preflight: the domain is not public, another proxy runs, a port is in use.   *)
PreflightFails == Failed("failed") /\ HttpsFault
(* configure: after it the new configuration is written.                        *)
WriteSite ==
    /\ worker.step = "accepted"
    /\ \/ caddyfile' = worker.site /\ ToStep("written") /\ NoHttpsFault /\ UNCHANGED <<helper, statusFile>>
       \/ PreflightFails /\ UNCHANGED caddyfile
    /\ UNCHANGED <<previousFile, proxy, before, tenMinutes, issued>>
(* caddy validate, and the proxy is started or told to reload.                  *)
ServeSite ==
    /\ worker.step = "written"
    /\ \/ Serve(caddyfile) /\ ToStep("probing") /\ NoHttpsFault
       \/ ToStep("restore") /\ HttpsFault /\ UNCHANGED proxy
    /\ UNCHANGED <<caddyfile, previousFile, statusFile, helper, before, tenMinutes, issued>>

Verified(status) == [status EXCEPT !.state = "verified", !.error = "none"]
(* A probe succeeds: the proxy is enabled and the copy removed.                 *)
CertificateComes ==
    /\ worker.step \in {"probing", "recover"} /\ Probed
    /\ proxy' = [proxy EXCEPT !.enabled = TRUE]
    /\ Persist(Verified(helper.status)) /\ previousFile' = NoSite /\ worker' = NoWorker
    /\ UNCHANGED <<caddyfile, before, tenMinutes, issued, httpsFaults>>
(* 24 probes, or two minutes, without one.                                      *)
ProbesEnd == /\ worker.step = "probing" /\ ToStep("restore")
             /\ UNCHANGED <<caddyfile, previousFile, proxy, statusFile, helper, before, tenMinutes, issued, httpsFaults>>

(* The previous file comes back; a first setup is stopped.                      *)
RestoreFile ==
    /\ worker.step = "restore"
    /\ \/ /\ worker.was # NoSite /\ caddyfile' = worker.was /\ UNCHANGED proxy
          /\ ToStep("restart") /\ NoHttpsFault /\ UNCHANGED <<helper, statusFile>>
       \/ /\ worker.was = NoSite /\ StopProxy /\ UNCHANGED caddyfile
          /\ ToStep("restart") /\ NoHttpsFault /\ UNCHANGED <<helper, statusFile>>
       \/ Failed("rollback_failed") /\ HttpsFault /\ UNCHANGED <<caddyfile, proxy>>
    /\ UNCHANGED <<previousFile, before, tenMinutes, issued>>
RestoreProxy ==
    /\ worker.step = "restart"
    /\ \/ /\ IF worker.was = NoSite THEN caddyfile' = NoSite /\ UNCHANGED proxy
             ELSE IF worker.wasActive THEN Serve(caddyfile) /\ UNCHANGED caddyfile
             ELSE StopProxy /\ UNCHANGED caddyfile
          /\ Failed("failed") /\ NoHttpsFault
       \/ Failed("rollback_failed") /\ HttpsFault /\ UNCHANGED <<caddyfile, proxy>>
    /\ UNCHANGED <<previousFile, before, tenMinutes, issued>>

(* recover: what was being set up is not verified, so the copy comes back, or   *)
(* the first setup is stopped.  The proxy reloads only if that changed the file.*)
RecoverUndoes ==
    /\ worker.step = "recover"
    /\ IF statusFile.hadPrevious /\ previousFile # NoSite
       THEN /\ caddyfile' = previousFile
            /\ worker' = [worker EXCEPT !.step = IF caddyfile # previousFile \/ ~proxy.active \/ ~statusFile.previousActive
                                                 THEN "redo" ELSE "undo"]
            /\ UNCHANGED proxy
       ELSE StopProxy /\ ToStep("undo") /\ UNCHANGED caddyfile
    /\ UNCHANGED <<previousFile, statusFile, helper, before, tenMinutes, issued, httpsFaults>>
RecoverEnds ==
    /\ worker.step \in {"undo", "redo"} /\ worker' = NoWorker
    /\ \/ /\ caddyfile' = IF statusFile.hadPrevious /\ previousFile # NoSite THEN caddyfile ELSE NoSite
          /\ IF worker.step = "undo" THEN UNCHANGED proxy
             ELSE IF statusFile.previousActive THEN Serve(caddyfile) ELSE StopProxy
          /\ Persist([helper.status EXCEPT !.state = "failed", !.error = "failed"]) /\ NoHttpsFault
       \/ /\ Persist([helper.status EXCEPT !.state = "failed", !.error = "rollback_failed"]) /\ HttpsFault
          /\ UNCHANGED <<caddyfile, proxy>>
    /\ UNCHANGED <<previousFile, before, tenMinutes, issued>>

(* status: with no worker the proxy is probed again; what it finds is kept in   *)
(* the process only.                                                            *)
LookAgain ==
    LET s == helper.status IN
    /\ Reachable /\ worker.step = "none" /\ s.domain # "none"
    /\ \/ /\ Probed /\ helper' = [helper EXCEPT !.status = Verified(s)]
       \/ helper' = [helper EXCEPT !.status = [s EXCEPT !.state = "verification_required"]]
    /\ UNCHANGED <<caddyfile, previousFile, proxy, statusFile, worker, before, tenMinutes, issued, httpsFaults>>
TenMinutesPass == /\ tenMinutes < MaxCooldowns /\ tenMinutes' = tenMinutes + 1
                  /\ UNCHANGED <<caddyfile, previousFile, proxy, statusFile, helper, worker, before, issued, httpsFaults>>

HttpsNext == \/ HelperStarts \/ HelperKilled \/ WriteSite \/ ServeSite \/ CertificateComes \/ ProbesEnd
             \/ RestoreFile \/ RestoreProxy \/ RecoverUndoes \/ RecoverEnds \/ LookAgain \/ TenMinutesPass
             \/ \E site \in Sites : ConfigureHttps(site)
(* Every step of the worker has a deadline; the dashboard, which asks for the   *)
(* status, starts the helper again.                                             *)
HttpsFairness == /\ WF_httpsVars(helper.status.state = "configuring" /\ HelperStarts)
                 /\ WF_httpsVars(WriteSite \/ ServeSite \/ ProbesEnd \/ CertificateComes
                                   \/ RestoreFile \/ RestoreProxy \/ RecoverUndoes \/ RecoverEnds)
-----------------------------------------------------------------------------
(* A setup that came to no certificate leaves what was there: once its worker,  *)
(* or the one that recovered from a kill, is done and did not fail to roll      *)
(* back, the file is the one of before, and a proxy that did not run does not.  *)
(* Nothing else is served, unless a kill came between the file and the reload.  *)
FailedSetupUndone ==
    helper.up /\ worker.step = "none" /\ helper.status.error = "failed" =>
        /\ caddyfile = before.file
        /\ proxy.active => before.active
        /\ httpsFaults = 0 => proxy.serving \in {NoSite, caddyfile}
(* A domain is asked of the authority once in ten minutes, kills and restarts   *)
(* included; and one that is verified is the one that is configured.            *)
IssuanceCapped ==
    /\ issued <= tenMinutes + 1
    /\ helper.up /\ helper.status.state = "verified" => caddyfile.domain = helper.status.domain
    /\ worker.step \notin {"none", "recover"} => helper.status.state = "configuring"

(* A setup does not stay under way.                                             *)
SetupEnds == helper.status.state = "configuring" ~> helper.status.state # "configuring"
=============================================================================
