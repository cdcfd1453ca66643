---- MODULE MCJobs ----
(* Instances of Jobs for TLC.                                              *)
EXTENDS Jobs

CONSTANTS expire_stale, w1, w2

OneKind == {expire_stale}
OneWorker == {w1}
TwoWorkers == {w1, w2}
ShortBackoff == <<1>>

\* Faults anywhere but between apply_failure's two writes.
Survivable == Points \ {"failing"}

====
