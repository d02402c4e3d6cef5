----------------------------- MODULE StateFile -----------------------------
(***************************************************************************)
(* The state file of local mode (local_mode.JsonFileStorage): loaded once  *)
(* at startup, set aside when it cannot be used, replaced by each save.    *)
(* Every call into the file system is a step; between any two the process  *)
(* may be killed or the machine may lose power, and a call may fail.       *)
(*                                                                         *)
(* One process uses the file, as the code assumes; other programs may      *)
(* create files under the names of set-aside copies.                       *)
(***************************************************************************)
EXTENDS Naturals, FiniteSets

CONSTANTS
  Asides,     \* the names <state>.bad-<stamp>, -2, -3 ... of one second, in order: 1 .. n
  MaxSaves,   \* bound: versions saved
  MaxCrashes  \* bound: crashes and power cuts

ASSUME AsidesAssumption == /\ IsFiniteSet(Asides) /\ Asides # {}
                          /\ Asides = 1 .. Cardinality(Asides)
ASSUME SavesAssumption  == MaxSaves \in Nat

NoFile     == [data |-> "none", synced |-> TRUE]
Reserved   == [data |-> "reserved", synced |-> TRUE]
Found(d)   == [data |-> d, synced |-> TRUE]   \* what was there before this program
Written(d) == [data |-> d, synced |-> FALSE]  \* written by it, and not yet on the disk
Torn       == [data |-> "torn", synced |-> TRUE]

VARIABLES
  path,     \* the file at the state path
  aside,    \* the files at the names of set-aside copies
  temp,     \* the temporary file of the save that runs
  links,    \* the file system has hard links
  step,     \* the process: "down", "loading", "aside", "linked", "reserved", "running",
            \* "made", "written", "synced", or "refused" (the path is no regular file)
  suffix,   \* the name _set_aside tries
  versions, \* versions saved so far
  crashes,
  owed,     \* files that must not be lost: those to be set aside, those of other programs
  warned    \* a file could not be set aside (the log says so) and stays at the path

files     == <<path, aside, temp>>
stateVars == <<files, links, step, suffix, versions, crashes, owed, warned>>

\* What a user may have at the path: nothing, a state that restores, one that load or
\* restore refuses, and something that is no regular file.
StateFileInit ==
  /\ path \in {NoFile} \cup {Found(d) : d \in {"good", "bad", "directory"}}
  /\ aside \in [Asides -> {NoFile, Found("older")}]
  /\ temp = NoFile
  /\ links \in BOOLEAN
  /\ step = "loading"
  /\ suffix = 1
  /\ versions = 0
  /\ crashes = 0
  /\ owed = {<<n, aside[n]>> : n \in {m \in Asides : aside[m] # NoFile}}
  /\ warned = FALSE

-----------------------------------------------------------------------------
(* Loading and setting aside.                                              *)

\* load, with the checks that set a file aside: unreadable, over the cap, no JSON object,
\* or refused by restore
Load ==
  /\ step = "loading"
  /\ \/ /\ path.data = "directory"
        /\ step' = "refused"
        /\ UNCHANGED owed
     \/ /\ path.data # "directory"
        /\ path.data \notin {"bad", "torn"}
        /\ step' = "running"
        /\ UNCHANGED owed
     \/ /\ path.data \in {"bad", "torn"}
        /\ step' = "aside"
        /\ owed' = owed \cup {<<0, path>>}
  /\ suffix' = 1
  /\ UNCHANGED <<files, links, versions, crashes, warned>>

\* bug: a plain rename, which replaces what is there
Renames_Replace ==
  /\ step = "aside"
  /\ aside' = [aside EXCEPT ![suffix] = path]
  /\ path' = NoFile
  /\ step' = "running"
  /\ UNCHANGED <<temp, suffix>>

\* _rename_no_replace: a hard link, or without links an exclusive reservation; a name that
\* is taken is left alone and the next one tried
Renames ==
  /\ step = "aside"
  /\ \/ /\ aside[suffix] # NoFile
        /\ suffix + 1 \in Asides  \* the bound on names
        /\ suffix' = suffix + 1
        /\ UNCHANGED <<path, aside, temp, step>>
     \/ /\ aside[suffix] = NoFile
        /\ aside' = [aside EXCEPT ![suffix] = IF links THEN path ELSE Reserved]
        /\ step' = IF links THEN "linked" ELSE "reserved"
        /\ UNCHANGED <<path, temp, suffix>>

\* bug: the source is removed when the reservation stands, not replaced over it
RenameEnds_Reserved ==
  /\ step \in {"linked", "reserved"}
  /\ path' = NoFile
  /\ step' = "running"
  /\ UNCHANGED <<aside, temp, suffix>>

\* the second call: unlink the source, or replace the reservation with it
RenameEnds ==
  /\ step \in {"linked", "reserved"}
  /\ path' = NoFile
  /\ aside' = IF step = "reserved" THEN [aside EXCEPT ![suffix] = path] ELSE aside
  /\ step' = "running"
  /\ UNCHANGED <<temp, suffix>>

\* A call fails: the reservation is removed, a warning logged, and the app starts fresh.
RenameFails ==
  /\ step \in {"aside", "linked", "reserved"}
  /\ aside' = IF step = "reserved" THEN [aside EXCEPT ![suffix] = NoFile] ELSE aside
  /\ step' = "running"
  /\ warned' = TRUE
  /\ UNCHANGED <<path, temp, suffix, links, versions, crashes, owed>>

-----------------------------------------------------------------------------
(* Saving.                                                                 *)

\* mkstemp
MakeTemp ==
  /\ step = "running" /\ versions < MaxSaves
  /\ temp' = Written("empty")
  /\ step' = "made"
  /\ UNCHANGED <<path, aside, versions>>

\* write and flush
Write ==
  /\ step = "made"
  /\ versions' = versions + 1
  /\ temp' = Written("state")
  /\ step' = "written"
  /\ UNCHANGED <<path, aside>>

\* bug: closed without fsync
Sync_Skipped ==
  /\ step = "written"
  /\ step' = "synced"
  /\ UNCHANGED <<files, versions>>

\* fsync
Sync ==
  /\ step = "written"
  /\ temp' = [temp EXCEPT !.synced = TRUE]
  /\ step' = "synced"
  /\ UNCHANGED <<path, aside, versions>>

\* os.replace
Replace ==
  /\ step = "synced"
  /\ path' = temp
  /\ temp' = NoFile
  /\ step' = "running"
  /\ UNCHANGED <<aside, versions>>

\* A call fails: the temporary file is removed, the state path untouched.
SaveFails ==
  /\ step \in {"made", "written", "synced"}
  /\ temp' = NoFile
  /\ step' = "running"
  /\ UNCHANGED <<path, aside, versions>>

-----------------------------------------------------------------------------
(* Faults and other programs.                                              *)

\* What a power cut leaves of a file.
OnDisk(f) == IF f.synced THEN f ELSE Torn

\* The process is killed, or the power is cut; the temporary file stays behind, unused.
Crash ==
  /\ step \notin {"down", "refused"} /\ crashes < MaxCrashes
  /\ crashes' = crashes + 1
  /\ step' = "down"
  /\ \/ UNCHANGED <<path, aside>>
     \/ path' = OnDisk(path) /\ aside' = [n \in Asides |-> OnDisk(aside[n])]
  /\ temp' = NoFile
  /\ UNCHANGED <<links, suffix, versions, owed, warned>>

Restart ==
  /\ step = "down"
  /\ step' = "loading"
  /\ UNCHANGED <<files, links, suffix, versions, crashes, owed, warned>>

\* Another program creates a file under a name of a set-aside copy, also while we rename.
Appears ==
  \E n \in Asides :
    /\ aside[n] = NoFile
    /\ \E m \in Asides : m # n /\ aside[m] = NoFile  \* one name stays free
    /\ aside' = [aside EXCEPT ![n] = Found("other")]
    /\ owed' = owed \cup {<<n, aside'[n]>>}
    /\ UNCHANGED <<path, temp, links, step, suffix, versions, crashes, warned>>

\* A path that is no regular file stays as it is: the program ended.
Refuses == step = "refused" /\ UNCHANGED stateVars

Renaming == (Renames \/ RenameEnds) /\ UNCHANGED <<links, versions, crashes, owed, warned>>
Saving   == (MakeTemp \/ Write \/ Sync \/ Replace \/ SaveFails)
            /\ UNCHANGED <<links, suffix, crashes, owed, warned>>

StateFileNext ==
  \/ Load \/ Renaming \/ RenameFails \/ Saving
  \/ Crash \/ Restart \/ Appears \/ Refuses

-----------------------------------------------------------------------------
StateFileType ==
  /\ suffix \in Asides
  /\ versions \in 0 .. MaxSaves
  /\ step \in {"down", "loading", "aside", "linked", "reserved", "running", "made",
               "written", "synced", "refused"}

\* Whatever fails or is cut off where: what is at the state path is what the user had there,
\* nothing, or one state written in full; and nothing is deleted: a file that is to be set
\* aside is at the state path or under a name of its own, and no file another program put
\* under such a name is replaced.  (A file that could not be set aside stays at the path,
\* where the next save does replace it.)
FilesAreKept ==
  /\ path.data \notin {"torn", "empty", "reserved"}
  /\ \A o \in owed :
       IF o[1] = 0 THEN warned \/ path = o[2] \/ \E n \in Asides : aside[n] = o[2]
       ELSE aside[o[1]] = o[2]
=============================================================================
