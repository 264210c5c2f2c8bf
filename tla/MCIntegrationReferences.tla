------------------------ MODULE MCIntegrationReferences ------------------------
(* Small sources, fingerprints and exports for IntegrationReferences.      *)
EXTENDS IntegrationReferences

CONSTANTS e1, e2, i1, i2, a1, r1

MCContent ==
    {Handoff(s, f) : s \in Source, f \in Fingerprint} \union
    {Imported(e) : e \in {e1, e2}}

(***************************************************************************)
(* Two imports with nobody else at work, and one of each command together  *)
(* on a disk that may be full.                                             *)
(***************************************************************************)
MCSettings ==
    { [crew |-> {i1, i2}, shortWrites |-> FALSE, maxCalls |-> 4],
      [crew |-> {i1, a1, r1}, shortWrites |-> TRUE, maxCalls |-> 3] }

MCTwoLocks == { [crew |-> {i1, a1}, shortWrites |-> FALSE, maxCalls |-> 2] }

MCExport == {{e1}, {e1, e2}}
=============================================================================
