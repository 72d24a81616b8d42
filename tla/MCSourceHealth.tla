---- MODULE MCSourceHealth ----
(* Instances of SourceHealth.                                               *)
EXTENDS SourceHealth

\* A bounded run's restart wait outlasts the longest gap between two reads of
\* the slot; a service's ends before the source is called dark.
MCBackoff(m) == IF m = "service" THEN 1 ELSE HangTicks + 3
====
