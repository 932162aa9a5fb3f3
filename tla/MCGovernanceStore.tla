-------------------------- MODULE MCGovernanceStore --------------------------
EXTENDS GovernanceStore
CONSTANTS w1, w2, w3, manifest, build_run, source_manifest

\* A formal build, a lone append to a stream with a table and an ingest batch
\* of two lines in one file.
MCBatch ==
  (w1 :> <<manifest, build_run>>)
  @@ (w2 :> <<build_run>>) @@ (w3 :> <<source_manifest, source_manifest>>)
=============================================================================
