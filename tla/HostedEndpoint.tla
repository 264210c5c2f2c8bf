---------------------------- MODULE HostedEndpoint ----------------------------
(***************************************************************************)
(* The hosted WSGI application (src/src/signal_growth/hosted_app.py), which *)
(* routes requests to the Kakao skill or to the health check, both in one  *)
(* process.  They share nothing but the environment.  A behaviour has      *)
(* requests of one kind only (a bound: `polled`), since steps of the two   *)
(* paths commute.                                                          *)
(***************************************************************************)
EXTENDS KakaoIngest, HealthProbe

VARIABLE polled     \* whether requests go to /api/health or to the skill

hostedVars == <<vars, probeVars, polled>>

HostedInit ==
    /\ Init /\ ProbeInit
    /\ polled \in BOOLEAN
    /\ polled = ~skill_application_ready

HostedNext ==
    \/ ~polled /\ Next /\ UNCHANGED <<probeVars, polled>>
    \/ polled /\ ProbeNext /\ UNCHANGED <<vars, polled>>

HostedSpec == HostedInit /\ [][HostedNext]_hostedVars

(* Fairness is that of the ingest path: it asks for posts.                 *)
FairHostedSpec == HostedSpec /\ Fairness
=============================================================================
