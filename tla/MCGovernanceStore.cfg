CONSTANTS
  w1 = w1  w2 = w2  w3 = w3
  manifest = manifest  build_run = build_run  source_manifest = source_manifest
  NoWriter = NoWriter
  Writer = {w1, w2, w3}
  Single = {w2}
  Batch <- MCBatch
  Stream = {manifest, build_run, source_manifest}
  SqlStream = {manifest, build_run}
  Modes = {"jsonl", "sql-shadow", "sql-authority"}
  Faults = {"sql", "line", "commit", "ack", "truncate", "crash", "crash_undo"}
SPECIFICATION StoreSpec
INVARIANTS BatchAllOrNothing ShownStays PredecessorsShown TablesWithinFiles
PROPERTY LogSpec
CHECK_DEADLOCK FALSE
