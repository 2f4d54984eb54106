--------------------------- MODULE MCProxyCacheGC ---------------------------
(* Instances of ProxyCacheGC for TLC.                                      *)
EXTENDS ProxyCacheGC, MCProxyCache

\* The collector forgets as soon as its code cannot look again.
GcView ==
    <<View, gpc, IF gpc \in {"scan", "unlock"} THEN gcur ELSE 0, todo, IF gpc = "done" THEN 0 ELSE file_cnt,
      IF gpc \in {"scan", "unlock", "open", "collect"} THEN node ELSE {},
      gseen, IF gpc \in {"open", "collect"} THEN entries ELSE <<>>, victims>>

\* Two children beside the collector where copies are only created, one where
\* they are refreshed as well.
GcConfig == CreateConfig \cup UsualConfig
OneRefreshes == conf \in CreateConfig \/ Cardinality(AtWork) <= 1

=============================================================================
