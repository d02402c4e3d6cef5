------------------------------- MODULE Modes -------------------------------
(***************************************************************************)
(* The two launch modes, for what each keeps on disk and whom it lets in:  *)
(* local mode has the state file, server mode the account database.  A     *)
(* process runs in one of them (cli.py); the other's variables rest.       *)
(***************************************************************************)
EXTENDS StateFile, SignIn

VARIABLE mode  \* "local" or "server"

vars == <<mode, stateVars, signInVars>>

FirstHash == [word |-> CHOOSE w \in Words : TRUE, cheap |-> FALSE, salt |-> 1]

\* main: `gowui local` or `gowui serve`
Init ==
  /\ mode \in {"local", "server"}
  /\ StateFileInit
  /\ SignInInit
  /\ mode = "local" => /\ mix = CHOOSE m \in Mixes : TRUE
                       /\ \E n \in Names : users[n] = [id |-> 1, hash |-> FirstHash]
  /\ mode = "server" => path = NoFile /\ links /\ aside = [n \in Asides |-> NoFile]

Next ==
  \/ mode = "local" /\ StateFileNext /\ UNCHANGED <<mode, signInVars>>
  \/ mode = "server" /\ SignInNext /\ UNCHANGED <<mode, stateVars>>

Spec     == Init /\ [][Next]_vars
FairSpec == Spec /\ SignInFair

TypeOK == StateFileType /\ SignInType
=============================================================================
