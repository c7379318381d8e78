----------------------------- MODULE ConfigStore -----------------------------
(***************************************************************************)
(* The settings: the file config.toml, the engine's copy of it, and the    *)
(* requests that change it (config/config.cpp, config/migration.cpp,       *)
(* util/atomic_write.cpp, and the handlers of configure and save_config in *)
(* ipc/engine_service.cpp).                                                *)
(*                                                                         *)
(* The engine loads the file when it starts and keeps the document, so     *)
(* that keys it does not know survive a save.  A save writes a temporary   *)
(* file, flushes it and moves it over the old one.  The process may be     *)
(* killed and the power may be cut between any two of those steps; what    *)
(* has not been flushed is then lost in part.                              *)
(*                                                                         *)
(* Of the settings the model keeps the two that exclude each other and one *)
(* more that stands for the others; of the document, whether it has keys   *)
(* this build does not know.                                               *)
(***************************************************************************)
EXTENDS Integers, FiniteSets

CONSTANTS
  Current,       \* kCurrentSchemaVersion
  Versions,      \* the schema versions files may declare
  Values,        \* values of the one other setting; the first is its default
  Default,
  MaxSaves,      \* bound: save_config requests
  MaxFaults,     \* bound: failed writes, kills and power cuts
  ReadMayFail    \* may a file that is there be unreadable when the engine starts?

ASSUME ConfigAssumption ==
  /\ Current \in Nat \ {0} /\ Versions \subseteq Nat \ {0} /\ Default \in Values
  /\ {MaxSaves, MaxFaults} \subseteq Nat /\ ReadMayFail \in BOOLEAN

VARIABLES
  file,      \* config.toml
  temp,      \* config.toml.tmp
  backups,   \* the files back_up_config has left
  engine,    \* running, and the settings and the document in force
  save,      \* write_file_atomically: where it is, and what it writes
  faults     \* saves and faults so far

configVars == <<file, temp, backups, engine, save, faults>>

Settings == [multitrack : BOOLEAN, container : {"mkv", "mp4"}, other : Values]
Text     == [version : Versions \union {Current}, settings : Settings, unknown : BOOLEAN]
\* A file is missing, torn, or holds a text; durable when it has been flushed.
Missing  == [kind |-> "missing"]
Torn     == [kind |-> "torn"]
Holds(text, durable) == [kind |-> "text", text |-> text, durable |-> durable]

Defaults    == [multitrack |-> FALSE, container |-> "mkv", other |-> Default]
Conflict(s) == s.multitrack /\ s.container # "mkv"       \* multitrack_conflicts

ConfigTypeOK ==
  /\ file.kind \in {"missing", "torn", "text"} /\ temp.kind \in {"missing", "torn", "text"}
  /\ backups \subseteq Text
  /\ engine.running \in BOOLEAN /\ engine.settings \in Settings /\ engine.unknown \in BOOLEAN
  /\ save.at \in {"no", "write", "flush", "replace"}

-----------------------------------------------------------------------------
(* load, at the start of the engine *)

\* No file, or one that cannot be used (read, parsed, or backed up before it is
\* migrated): the defaults, and an empty document.
StartsWithDefaults ==
  /\ ~engine.running /\ (file.kind # "text" \/ ReadMayFail)
  /\ engine' = [running |-> TRUE, settings |-> Defaults, unknown |-> FALSE]
  /\ UNCHANGED <<file, temp, backups, save, faults>>

\* A readable file, of this version, a newer one, or an older one, which is
\* copied aside before the steps of the migration are applied to the document.
\* The file itself is not written.
StartsFromFile ==
  /\ ~engine.running /\ file.kind = "text"
  /\ engine' = [running |-> TRUE, settings |-> file.text.settings, unknown |-> file.text.unknown]
  /\ backups' = IF file.text.version < Current THEN backups \union {file.text} ELSE backups
  /\ UNCHANGED <<file, temp, save, faults>>

-----------------------------------------------------------------------------
(* configure and save_config *)

\* A request names some of the settings; the others keep their value.
Merged(change) == [engine.settings EXCEPT ![change.key] = change.value]
Changes == [key : {"multitrack"}, value : BOOLEAN]
           \union [key : {"container"}, value : {"mkv", "mp4"}]
           \union [key : {"other"}, value : Values]

\* The combination is refused with nothing applied, whichever half was asked for.
Accepts(candidate) == ~Conflict(candidate)

Configure(change) ==
  /\ engine.running /\ save.at = "no"
  /\ Accepts(Merged(change))
  /\ engine' = [engine EXCEPT !.settings = Merged(change)]
  /\ UNCHANGED <<file, temp, backups, save, faults>>

\* Mutant: a fresh document is written.
SerializedFresh(settings) == [version |-> Current, settings |-> settings, unknown |-> FALSE]
\* serialize: the retained document, this build's keys, and its own version.
Serialized(settings) == [version |-> Current, settings |-> settings, unknown |-> engine.unknown]

\* save_config puts the settings in force before it writes them, and
\* write_file_atomically creates the temporary file, empty.
SaveConfig(change) ==
  /\ engine.running /\ save.at = "no" /\ faults.saves < MaxSaves
  /\ Accepts(Merged(change))
  /\ engine' = [engine EXCEPT !.settings = Merged(change)]
  /\ save' = [at |-> "write", text |-> Serialized(Merged(change))]
  /\ temp' = Torn
  /\ faults' = [faults EXCEPT !.saves = @ + 1]
  /\ UNCHANGED <<file, backups>>

WritesTemp ==
  /\ save.at = "write"
  /\ temp' = Holds(save.text, FALSE)
  /\ save' = [save EXCEPT !.at = "flush"]
  /\ UNCHANGED <<file, backups, engine, faults>>

FlushesTemp ==
  /\ save.at = "flush"
  /\ temp' = [temp EXCEPT !.durable = TRUE]
  /\ save' = [save EXCEPT !.at = "replace"]
  /\ UNCHANGED <<file, backups, engine, faults>>

Replaces ==
  /\ save.at = "replace"
  /\ file' = temp /\ temp' = Missing
  /\ save' = [save EXCEPT !.at = "no"]
  /\ UNCHANGED <<backups, engine, faults>>

\* A full disk or a file held by somebody else: the handler answers with an
\* error, the temporary file stays, and the settings stay in force.
SaveFails ==
  /\ save.at # "no" /\ faults.faults < MaxFaults
  /\ save' = [save EXCEPT !.at = "no"]
  /\ faults' = [faults EXCEPT !.faults = @ + 1]
  /\ UNCHANGED <<file, temp, backups, engine>>

-----------------------------------------------------------------------------
(* The engine ends, is killed, or the power is cut *)

EngineEnds ==
  /\ engine.running
  /\ save.at # "no" => faults.faults < MaxFaults
  /\ engine' = [engine EXCEPT !.running = FALSE]
  /\ save' = [save EXCEPT !.at = "no"]
  /\ faults' = IF save.at = "no" THEN faults ELSE [faults EXCEPT !.faults = @ + 1]
  /\ UNCHANGED <<file, temp, backups>>

Kept(f) == IF f.kind = "text" /\ ~f.durable THEN Torn ELSE f

PowerCut ==
  /\ faults.faults < MaxFaults
  /\ faults' = [faults EXCEPT !.faults = @ + 1]
  /\ engine' = [engine EXCEPT !.running = FALSE]
  /\ save' = [save EXCEPT !.at = "no"]
  /\ file' = Kept(file) /\ temp' = Kept(temp)
  /\ UNCHANGED backups

-----------------------------------------------------------------------------
\* The file a user starts with: none, one no parser accepts, or a text of some
\* version that does not ask for both halves of what excludes each other.
ConfigInit ==
  /\ \/ file \in {Missing, Torn}
     \/ \E text \in Text : ~Conflict(text.settings) /\ file = Holds(text, TRUE)
  /\ temp = Missing /\ backups = {}
  /\ engine = [running |-> FALSE, settings |-> Defaults, unknown |-> FALSE]
  /\ save = [at |-> "no", text |-> Serialized(Defaults)]
  /\ faults = [saves |-> 0, faults |-> 0]

ConfigNext ==
  \/ StartsWithDefaults \/ StartsFromFile
  \/ \E change \in Changes : Configure(change) \/ SaveConfig(change)
  \/ WritesTemp \/ FlushesTemp \/ Replaces \/ SaveFails
  \/ EngineEnds \/ PowerCut

ConfigSpec == ConfigInit /\ [][ConfigNext]_configVars

-----------------------------------------------------------------------------
(* What the settings promise *)

\* A file that can be read stays one: no failed write, kill or power cut at any
\* step of a save leaves half a file under its name.
AReadableFileStaysReadable ==
  [][file.kind = "text" => file'.kind = "text"]_configVars

\* Keys of a readable file this build does not know are in the file for ever,
\* whatever is saved, fails and is restarted in between.
UnknownKeysSurvive ==
  [][(file.kind = "text" /\ file.text.unknown)
       => (file'.kind = "text" /\ file'.text.unknown)]_configVars

\* Multi-track audio and MP4 are never in force together, and never in a file,
\* however they are asked for one after the other.
NoMultitrackInMp4 ==
  /\ ~Conflict(engine.settings)
  /\ file.kind = "text" => ~Conflict(file.text.settings)
=============================================================================
