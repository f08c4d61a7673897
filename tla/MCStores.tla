---- MODULE MCStores ----
(* Instances of FileStore for TLC.                                           *)
EXTENDS FileStore

\* Two hits of one source around one of another, then a third source that makes
\* a ledger of two evict; distinct scores, so that a score credited to the
\* wrong source, twice, or out of order shows.
FourHits == 1..4
FourSources == <<"A", "B", "A", "C">>
FourPoints == <<1, 2, 4, 8>>

Everything == FaultKinds
Nothing == {}
====
