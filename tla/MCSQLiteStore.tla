----------------------------- MODULE MCSQLiteStore -----------------------------
(* Small instances of SQLiteStore for TLC.  Recorders and runs are         *)
(* interchangeable: only the safety runs use the symmetry.                 *)
EXTENDS SQLiteStore

(* The second event of each run has a priority outside the four tiers.     *)
MCOffTier == Run \X {1}

Symmetry == Permutations(Recorder) \cup Permutations(Run)
=============================================================================
