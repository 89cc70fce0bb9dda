----------------------------- MODULE RulesWatch -----------------------------
(***************************************************************************)
(* The rules of the route engine and their file (internal/route/engine.go, *)
(* rules.go): the first load, the watcher that polls the file, Reload on   *)
(* request, and an editor.  A file is read several times in a row, and a   *)
(* change may come between any two of the reads.                           *)
(*                                                                         *)
(* A version stands for the content of the file with its mtime; 0 is no    *)
(* file, and in memory no rules.                                           *)
(***************************************************************************)
EXTENDS Integers

CONSTANTS MaxEdits,   \* bound: versions the editor writes
          Malformed   \* versions that ParseRules rejects

ASSUME RulesAssumption == MaxEdits \in Nat \ {0} /\ Malformed \subseteq 2 .. MaxEdits

Version == 1 .. MaxEdits

VARIABLES
    rulesFile,  \* the version on disk
    edits,      \* versions written so far
    rules,      \* the version in memory
    watcher,    \* "loading" (NewEngine), "loaded", "baseline", "sleep", "stat", "reload"
    mtime,      \* what os.Stat has shown to fileState
    seen,       \* <<hash, mtime>> of the last change the watcher knows of
    held,       \* the version a Reload has read and not yet applied
    missed      \* why a change may not have been applied

watchVars == <<rulesFile, edits, rules, watcher, mtime, seen, held, missed>>

Parses(v) == v # 0 /\ v \notin Malformed

\* The file exists, after EnsureRulesFile.
RulesInit ==
    /\ rulesFile = 1 /\ edits = 1 /\ rules = 0
    /\ watcher = "loading" /\ mtime = 0 /\ seen = <<0, 0>> /\ held = 0 /\ missed = {}

\* NewEngine: the rules are loaded and applied; the engine is not started otherwise.
LoadFirst ==
    /\ watcher = "loading" /\ Parses(rulesFile)
    /\ rules' = rulesFile
    /\ watcher' = "loaded"
    /\ UNCHANGED <<rulesFile, edits, mtime, seen, held, missed>>

\* watchRulesFile: the baseline is what fileState finds now, stat first, then the
\* content.  If the two are of different versions the first tick sees a change.
BaselineStat ==
    /\ watcher = "loaded" /\ rulesFile # 0
    /\ mtime' = rulesFile
    /\ watcher' = "baseline"
    /\ UNCHANGED <<rulesFile, edits, rules, seen, held, missed>>

BaselineHash ==
    /\ watcher = "baseline" /\ rulesFile # 0
    /\ seen' = <<rulesFile, mtime>>
    /\ missed' = IF rulesFile # rules /\ rulesFile = mtime THEN missed \cup {"baseline"} ELSE missed
    /\ watcher' = "sleep"
    /\ UNCHANGED <<rulesFile, edits, rules, mtime, held>>

\* A tick of the watcher.  fileState: stat, then read; a missing file is ignored.
TickStat ==
    /\ watcher = "sleep" /\ rulesFile # 0
    /\ mtime' = rulesFile
    /\ watcher' = "stat"
    /\ UNCHANGED <<rulesFile, edits, rules, seen, held, missed>>

\* Mutant: the same hash or the same time counts as no change.
TickHashEither ==
    /\ watcher = "stat"
    /\ watcher' = IF rulesFile = 0 \/ rulesFile = seen[1] \/ mtime = seen[2] THEN "sleep" ELSE "reload"
    /\ seen' = IF rulesFile = 0 THEN seen ELSE <<rulesFile, mtime>>
    /\ UNCHANGED <<rulesFile, edits, rules, mtime, held, missed>>

\* What was found is remembered before the rules are loaded.
TickHash ==
    /\ watcher = "stat"
    /\ watcher' = IF rulesFile = 0 \/ <<rulesFile, mtime>> = seen THEN "sleep" ELSE "reload"
    /\ seen' = IF watcher' = "reload" THEN <<rulesFile, mtime>> ELSE seen
    /\ UNCHANGED <<rulesFile, edits, rules, mtime, held, missed>>

\* LoadRulesFile reads the file once more, and applyRules; on an error the old
\* rules stay.  What is loaded makes up for whatever was missed before.
TickReload ==
    /\ watcher = "reload"
    /\ rules' = IF Parses(rulesFile) THEN rulesFile ELSE rules
    /\ missed' = CASE Parses(rulesFile) -> {}
                   [] rulesFile = 0 -> missed \cup {"error"}
                   [] OTHER -> missed
    /\ watcher' = "sleep"
    /\ UNCHANGED <<rulesFile, edits, mtime, seen, held>>

\* The file is there, and reading it fails.
TickReloadFails ==
    /\ watcher = "reload"
    /\ missed' = missed \cup {"error"}
    /\ watcher' = "sleep"
    /\ UNCHANGED <<rulesFile, edits, rules, mtime, seen, held>>

\* Reload, by the control server: read, then apply under the lock.
ReloadReads ==
    /\ watcher \in {"sleep", "stat", "reload"} /\ held = 0 /\ Parses(rulesFile)
    /\ held' = rulesFile
    /\ UNCHANGED <<rulesFile, edits, rules, watcher, mtime, seen, missed>>

ReloadApplies ==
    /\ held # 0
    /\ rules' = held
    /\ held' = 0
    /\ missed' = IF held < rules THEN missed \cup {"reload"} ELSE missed
    /\ UNCHANGED <<rulesFile, edits, watcher, mtime, seen>>

\* The editor writes a new version in one step, or moves the file away and, it may be,
\* back as it was.
EditRules ==
    /\ edits < MaxEdits
    /\ edits' = edits + 1
    /\ rulesFile' = edits'
    /\ UNCHANGED <<rules, watcher, mtime, seen, held, missed>>

RemoveRules ==
    /\ rulesFile # 0
    /\ rulesFile' = 0
    /\ UNCHANGED <<edits, rules, watcher, mtime, seen, held, missed>>

RestoreRules ==
    /\ rulesFile = 0
    /\ rulesFile' = edits
    /\ UNCHANGED <<edits, rules, watcher, mtime, seen, held, missed>>

WatcherStep == LoadFirst \/ BaselineStat \/ BaselineHash \/ TickStat \/ TickHash \/ TickReload

RulesNext == WatcherStep \/ TickReloadFails \/ ReloadReads \/ ReloadApplies
             \/ EditRules \/ RemoveRules \/ RestoreRules

RulesSpec == RulesInit /\ [][RulesNext]_watchVars

RulesTypeOK ==
    /\ rulesFile \in Version \cup {0} /\ edits \in Version
    /\ rules \in Version \cup {0} /\ held \in Version \cup {0} /\ mtime \in Version \cup {0}
    /\ watcher \in {"loading", "loaded", "baseline", "sleep", "stat", "reload"}
    /\ missed \subseteq {"baseline", "error", "reload"}

(***************************************************************************)
(* When the editor is done, and the file is not taken away again and       *)
(* again, the rules in memory come to be those of the file, if they parse, *)
(* with three exceptions: the file changed between the first load and the  *)
(* watcher's baseline; the watcher could not read a change it had already  *)
(* remembered, because of an error or because the file was away at that    *)
(* moment; a Reload put older rules, read before the change, over those of *)
(* the watcher.  Each lasts only until the watcher sees the next change    *)
(* and loads it.  That the file is read three times in a tick does no      *)
(* harm.                                                                   *)
(***************************************************************************)
RulesCatchUp ==
    \/ <>[](Parses(rulesFile) /\ watcher # "loading" /\ missed = {} => rules = rulesFile)
    \/ []<>(rulesFile = 0)
=============================================================================
