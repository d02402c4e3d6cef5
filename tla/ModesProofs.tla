---------------------------- MODULE ModesProofs ----------------------------
(***************************************************************************)
(* Theorems of the two launch modes: what a state file goes through, for   *)
(* any number of saves, crashes and names of set-aside copies; and what    *)
(* SignInProofs shows of sign-in, for a process in server mode.            *)
(***************************************************************************)
EXTENDS Modes, SignInProofs, FiniteSetTheorems, TLAPS

-----------------------------------------------------------------------------
(* The inductive invariant of the state file.                              *)

\* What is found at a name: written to the disk, and never half of a file.
OnDiskAtNames ==
  /\ path \in {NoFile, Found("good"), Found("bad"), Found("directory"), Found("state")}
  /\ aside \in [Asides -> {NoFile, Reserved, Found("bad"), Found("older"), Found("other")}]

\* The temporary file is as far as the steps of the save that runs.
TempFollows ==
  /\ step = "written" => temp = Written("state")
  /\ step = "synced" => temp = Found("state")
  /\ step = "made" => versions < MaxSaves

\* The name that is being taken: a link of the file to be set aside, or a reservation that
\* is owed to nobody.
NameTaken ==
  /\ step \in {"aside", "linked", "reserved"} => path = Found("bad")
  /\ step = "linked" => aside[suffix] = path
  /\ step = "reserved" => aside[suffix] = Reserved

\* A file to be set aside was one that a load refused; those of others are not ours to move.
OwedFiles ==
  \A o \in owed : \/ o = <<0, Found("bad")>>
                  \/ \E n \in Asides : /\ o = <<n, aside[n]>>
                                       /\ aside[n] \in {Found("older"), Found("other")}

\* A process that runs has set aside what it was to, unless it warned.
SetAsideFirst ==
  step \in {"running", "made", "written", "synced"} =>
    warned \/ \A o \in owed : o[1] = 0 => \E n \in Asides : aside[n] = o[2]

\* A file to be set aside is still at the path or under a name of its own, unless the log has
\* the warning.
OwedIsKept ==
  \A o \in owed : o[1] = 0 => warned \/ path = o[2] \/ \E n \in Asides : aside[n] = o[2]

FileInv == /\ StateFileType /\ OnDiskAtNames /\ TempFollows /\ NameTaken
           /\ OwedFiles /\ SetAsideFirst /\ OwedIsKept

LEMMA NamesAreNumbers == 1 \in Asides /\ 0 \notin Asides
<1>1. Cardinality(Asides) \in Nat
  BY AsidesAssumption, FS_CardinalityType
<1> QED BY <1>1, AsidesAssumption

LEMMA FileInit == StateFileInit => FileInv
<1> SUFFICES ASSUME StateFileInit PROVE FileInv
  OBVIOUS
<1> USE NamesAreNumbers DEF StateFileInit, NoFile, Found, Reserved
<1>1. StateFileType
  BY SavesAssumption DEF StateFileType
<1>2. OnDiskAtNames /\ TempFollows /\ NameTaken /\ SetAsideFirst
  BY DEF OnDiskAtNames, TempFollows, NameTaken, SetAsideFirst
<1>3. OwedFiles
  BY DEF OwedFiles
<1>5. OwedIsKept
  BY <1>3 DEF OwedIsKept, OwedFiles
<1> QED BY <1>1, <1>2, <1>3, <1>5 DEF FileInv

LEMMA FileInvImplies == FileInv => FilesAreKept
<1> SUFFICES ASSUME FileInv PROVE FilesAreKept
  OBVIOUS
<1> USE NamesAreNumbers DEF FileInv, NoFile, Found
<1>1. path.data \notin {"torn", "empty", "reserved"}
  BY DEF OnDiskAtNames
<1>2. ASSUME NEW o \in owed
      PROVE  IF o[1] = 0 THEN warned \/ path = o[2] \/ \E n \in Asides : aside[n] = o[2]
             ELSE aside[o[1]] = o[2]
  BY DEF OwedFiles, OwedIsKept
<1> QED BY <1>1, <1>2 DEF FilesAreKept

LEMMA FileStep == FileInv /\ [StateFileNext]_stateVars => FileInv'
<1> SUFFICES ASSUME FileInv, [StateFileNext]_stateVars PROVE FileInv'
  OBVIOUS
<1> USE NamesAreNumbers, SavesAssumption
        DEF FileInv, StateFileType, OnDiskAtNames, TempFollows, NameTaken,
            OwedFiles, SetAsideFirst, OwedIsKept, NoFile, Found, Written, Reserved
<1>1. CASE Load
  BY <1>1 DEF Load, files
<1>2. CASE Renames /\ UNCHANGED <<links, versions, crashes, owed, warned>>
  <2>1. CASE aside[suffix] # NoFile
    BY <1>2, <2>1 DEF Renames
  <2>2. CASE aside[suffix] = NoFile
    <3>1. \A m \in Asides : aside[m] # NoFile => aside'[m] = aside[m]
      BY <1>2, <2>2 DEF Renames
    <3>2. aside'[suffix] = IF links THEN path ELSE Reserved
      BY <1>2, <2>2 DEF Renames
    <3> QED BY <1>2, <2>2, <3>1, <3>2 DEF Renames
  <2> QED BY <2>1, <2>2
<1>3. CASE RenameEnds /\ UNCHANGED <<links, versions, crashes, owed, warned>>
  BY <1>3 DEF RenameEnds
<1>4. CASE RenameFails
  BY <1>4 DEF RenameFails
<1>5. CASE Saving
  BY <1>5 DEF Saving, MakeTemp, Write, Sync, Replace, SaveFails
<1>6. CASE Crash
  BY <1>6 DEF Crash, OnDisk
<1>7. CASE Restart \/ Refuses \/ UNCHANGED stateVars
  BY <1>7 DEF Restart, Refuses, stateVars, files
<1>8. CASE Appears
  <2>1. PICK n \in Asides : /\ aside[n] = NoFile
                            /\ aside' = [aside EXCEPT ![n] = Found("other")]
                            /\ owed' = owed \cup {<<n, aside'[n]>>}
                            /\ UNCHANGED <<path, temp, links, step, suffix, versions, crashes, warned>>
    BY <1>8 DEF Appears
  <2>2. \A m \in Asides : aside[m] # NoFile => aside'[m] = aside[m]
    BY <2>1
  <2>3. aside'[n] = Found("other")
    BY <2>1
  <2>4. StateFileType' /\ OnDiskAtNames' /\ TempFollows'
    BY <2>1
  <2>5. NameTaken'
    <3>1. step = "linked" => aside[suffix] = Found("bad")
      OBVIOUS
    <3>2. step \in {"linked", "reserved"} => aside'[suffix] = aside[suffix]
      BY <3>1, <2>2
    <3> QED BY <2>1, <3>2
  <2>6. OwedFiles'
    BY <2>1, <2>2, <2>3
  <2>7. SetAsideFirst' /\ OwedIsKept'
    BY <2>1, <2>2, <2>3
  <2> QED BY <2>4, <2>5, <2>6, <2>7
<1> QED BY <1>1, <1>2, <1>3, <1>4, <1>5, <1>6, <1>7, <1>8 DEF StateFileNext, Renaming

-----------------------------------------------------------------------------
(* The launch modes: a process runs in one, the other's variables rest.    *)

ModesInv == FileInv /\ SignInInv

LEMMA ModesInit == Init => ModesInv
  BY FileInit, SignInStarts DEF Init, ModesInv

LEMMA ModesStep == ModesInv /\ [Next]_vars => ModesInv'
<1> SUFFICES ASSUME ModesInv, [Next]_vars PROVE ModesInv'
  OBVIOUS
<1>1. [StateFileNext]_stateVars /\ [SignInNext]_signInVars
  BY DEF Next, vars
<1> QED BY <1>1, FileStep, SignInKeeps DEF ModesInv

LEMMA ModesSafe == Spec => []ModesInv
  BY ModesInit, ModesStep, PTL DEF Spec

\* The files, the accounts and their tokens, the requests and the throttle's tables have their
\* types: a table never holds more keys than its bound (LoginThrottle), and no more wait or
\* verify than the queue and the semaphore have places (ServerIdentity.login).
THEOREM TypesHold == Spec => []TypeOK
<1>1. ModesInv => TypeOK
  BY SignInImplies DEF ModesInv, FileInv, TypeOK
<1> QED BY <1>1, ModesSafe, PTL

\* Whatever call of a set-aside or of a save fails or is cut off, by a kill or by a power
\* cut, and however often: what stands at the state path is what the user had there or one
\* state written in full, and no file that was found there or under the name of a set-aside
\* copy is lost without a warning (_rename_no_replace, _set_aside and save of local_mode.py).
THEOREM FilesKept == Spec => []FilesAreKept
<1>1. ModesInv => FilesAreKept
  BY FileInvImplies DEF ModesInv
<1> QED BY <1>1, ModesSafe, PTL

\* However sign-ins, `gowui user` and the saves of spaces interleave: a token, expired or not,
\* was given for the password its account has now, of an account that is there; a stored hash
\* is of that password; and a removed account has no row (check_password, open_login,
\* set_password, remove_user, save_state and save_preferences of store.py).
THEOREM AccountsCurrent == Spec => []AccountsAreCurrent
<1>1. ModesInv => AccountsAreCurrent
  BY SignInImplies DEF ModesInv
<1> QED BY <1>1, ModesSafe, PTL

\* However sign-ins fail, succeed out of order, are cancelled or outlast the window: what a
\* client's and a name's stamps count is the attempts that hold a slot, no more and no less and
\* never past the budget, those of a pair are some of its attempts', and the queue and the
\* semaphore are held by the requests in them (LoginThrottle and ServerIdentity.login).
THEOREM SlotsCounted == Spec => []SlotsAreCounted
<1>1. ModesInv => SlotsAreCounted
  BY SignInImplies DEF ModesInv
<1> QED BY <1>1, ModesSafe, PTL
=============================================================================
