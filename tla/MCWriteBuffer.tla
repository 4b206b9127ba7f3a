----------------------------- MODULE MCWriteBuffer -----------------------------
(* Small instances of WriteBuffer for TLC.                                 *)
EXTENDS WriteBuffer

MCRow(n, run, priority, bytes) ==
  [id |-> n, run |-> run, priority |-> priority, bytes |-> bytes]

(* Every tier, two runs, one row too large for any configuration below and *)
(* one with a priority that is no tier.                                    *)
MCRows ==
  { MCRow(1, "a", TELEMETRY, 1),  MCRow(2, "a", 9, 2),
    MCRow(3, "a", STRUCTURAL, 1), MCRow(4, "b", CRITICAL, 2),
    MCRow(5, "b", DIAGNOSTIC, 1) }

(* A count limit of one and of two, a byte limit that binds before the     *)
(* count does, a per-run cap that binds, and both eviction policies.       *)
MCConfig(items, bytes, eventBytes, perRun, eviction) ==
  [maxItems |-> items, maxBytes |-> bytes, maxEventBytes |-> eventBytes,
   maxPerRun |-> perRun, eviction |-> eviction]

MCConfigs ==
  { MCConfig(2, 3, 9, 9, "dropOldest"),
    MCConfig(3, 9, 1, 1, "dropOldest"),
    MCConfig(2, 3, 9, 1, "rejectNew") }

SmallConfigs == {MCConfig(2, 9, 9, 9, "dropOldest")}
=============================================================================
