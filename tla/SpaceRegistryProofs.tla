------------------------ MODULE SpaceRegistryProofs ------------------------
(***************************************************************************)
(* Theorems of the space registry, for any number of tabs, requests and    *)
(* changes, with or without idle release and dropped tabs.                 *)
(***************************************************************************)
EXTENDS SpaceRegistry, FiniteSetTheorems, SequenceTheorems, TLAPS

-----------------------------------------------------------------------------
(* The invariants.                                                         *)

Loading == {"loading", "preferences", "loaded"}
Ending  == {"saving", "stored", "unstored", "closing"}
InLock  == {"queued"} \cup Loading \cup Ending  \* waiting for the key's lock, or with it

\* Where a caller may be at all.
PlaceOf(c) ==
  IF c = "sweep" THEN {"out", "queued", "autosaving", "deciding", "ended"} \cup Ending
  ELSE IF c = "shutdown" THEN {"out", "stopping", "queued", "ended"} \cup Ending
  ELSE IF c \in Requests THEN {"out", "queued"} \cup Loading
  ELSE {"out", "queued", "in", "dropped", "detaching"} \cup Loading

\* What a save job of space s is asked by.
AtSave == {"detaching", "autosaving", "saving"}

Types ==
  /\ TypeOK
  /\ mix \in Mixes
  /\ \A c \in Caller : at[c] \in PlaceOf(c)
  /\ \A p \in Part : p # 1 => stored[p] # Refused /\ \A c \in Visitor : loaded[c][p] # Refused
  /\ \A t \in Tabs : at[t] \in {"in", "dropped", "detaching"} => of[t] # None

\* The callers that wait for the lock are in the queue of the lock the table has, each once;
\* all but the first wait.
LockInv ==
  /\ \A l \in Lock : queue[l] # <<>> <=> entry = l
  /\ \A l \in Lock : \A i, j \in 1 .. Len(queue[l]) : queue[l][i] = queue[l][j] => i = j
  /\ \A l \in Lock : \A i \in 1 .. Len(queue[l]) :
       at[queue[l][i]] \in InLock /\ (i # 1 => at[queue[l][i]] = "queued")
  /\ \A c \in Caller : at[c] \in InLock => \E l \in Lock : \E i \in 1 .. Len(queue[l]) : queue[l][i] = c

\* The callers of the saves of a space, each once; a write is that of the first.
JobInv ==
  /\ \A s \in Space : \A i \in 1 .. Len(jobs[s]) :
       at[jobs[s][i]] \in AtSave /\ of[jobs[s][i]] = s
  /\ \A s \in Space : \A i, j \in 1 .. Len(jobs[s]) : jobs[s][i] = jobs[s][j] => i = j
  /\ \A s \in Space : IF write[s].thread = "none" THEN write[s] = Idle
                      ELSE write[s].part \in Part /\ jobs[s] # <<>>

\* A shutdown comes after the periodic task, and is the last to refer to the live space.
ShutdownInv ==
  /\ closed <=> at["shutdown"] # "out"
  /\ at["shutdown"] \notin {"out", "stopping"} => at["sweep"] = "ended"
  /\ at["sweep"] = "ended" => closed
  /\ at["shutdown"] = "queued" => of["shutdown"] = live /\ live # None
  /\ at["sweep"] = "queued" => of["sweep"] # None
  /\ at["shutdown"] = "ended" => live = None

\* Who has the lock knows whether there is a live space, and which.
SpaceInv ==
  /\ \A s \in Space : session[s] # "closed" <=> live = s
  /\ \A s \in Space : tabs[s] # {} => live = s
  /\ \A s \in Space : session[s] = "closing" => \E c \in Caller : at[c] = "closing"
  /\ \A c \in Caller : at[c] \in Loading => live = None
  /\ \A c \in Caller : at[c] \in Ending => of[c] = live /\ live # None
  /\ at["sweep"] \in Ending => tabs[of["sweep"]] = {}

RegistryInv == Types /\ LockInv /\ JobInv /\ ShutdownInv /\ SpaceInv

\* Without drops: a space that is saved is the live one, or the last before a shutdown; when a
\* release has saved its space no save of it follows.
SavesInOrder ==
  /\ \A t \in Tabs : /\ at[t] # "dropped"
                     /\ at[t] = "in" => t \in tabs[of[t]] \/ at["shutdown"] = "ended"
  /\ \A s \in Space : jobs[s] # <<>> =>
       live = s \/ (live = None /\ closed /\ \A c \in Caller : at[c] \notin Loading)
  /\ \A r, s \in Space : jobs[r] # <<>> /\ jobs[s] # <<>> => r = s
  /\ at["sweep"] = "saving" => \A i \in 1 .. Len(jobs[live]) : jobs[live][i] = "sweep" => i = Len(jobs[live])
  /\ at["sweep"] \in {"stored", "unstored", "closing"} => jobs[live] = <<>>

\* A visitor that creates the space has read what the storage holds.
ReadInv ==
  \A c \in Visitor : /\ at[c] = "preferences" => loaded[c][1] = stored[1]
                     /\ at[c] = "loaded" => loaded[c] = stored

\* The storage holds what space s takes for saved, or the write that is not yet noted; a write is
\* no older than that, and no newer than the space.
Kept(s) ==
  \A p \in Part :
    /\ saved[s][p] <= content[s][p] /\ content[s][p] <= changes
    /\ stored[p] = IF write[s].thread = "written" /\ write[s].part = p THEN write[s].text
                   ELSE saved[s][p]
    /\ write[s].thread # "none" /\ write[s].part = p =>
         saved[s][p] <= write[s].text /\ write[s].text <= content[s][p]

StoredInv ==
  /\ \A p \in Part : stored[p] # Refused => stored[p] <= changes
  /\ ReadInv
  /\ \A s \in Space : live = s \/ jobs[s] # <<>> => Kept(s)

SaveInv == ~HubDrops => SavesInOrder /\ StoredInv

-----------------------------------------------------------------------------
(* The lock of the key.                                                    *)

LEMMA LocksExist == Lock # {} /\ None \notin Lock /\ None \notin Space /\ Space \subseteq Nat
<1>1. IsFiniteSet(Visitor) /\ IsFiniteSet(Tabs)
  BY CallersAssumption, FS_Subset DEF Visitor
<1>2. IsFiniteSet(Caller) /\ Caller # {}
  <2>1. Caller = (Visitor \cup {"sweep"}) \cup {"shutdown"}
    BY DEF Caller
  <2> QED BY <1>1, <2>1, FS_AddElement
<1>3. Cardinality(Caller) \in Nat \ {0} /\ Cardinality(Tabs) \in Nat
  BY <1>1, <1>2, FS_CardinalityType, FS_EmptySet
<1> QED BY <1>3 DEF Lock, Space, None

\* The caller at the head of a queue is the one the lock has; no other is past waiting.
LEMMA HolderIsAlone ==
  ASSUME Types, LockInv, NEW c \in Caller, Holds(c)
  PROVE  /\ at[c] \in InLock
         /\ \A d \in Caller : at[d] \in Loading \cup Ending => d = c
<1>1. PICK l \in Lock : queue[l] # <<>> /\ Head(queue[l]) = c
  BY DEF Holds
<1>2. \A k \in Lock : queue[k] \in Seq(Caller)
  BY DEF Types, TypeOK
<1>3. Len(queue[l]) >= 1 /\ queue[l][1] = c /\ Len(queue[l]) \in Nat
  BY <1>1, <1>2
<1>4. ASSUME NEW d \in Caller, at[d] \in Loading \cup Ending PROVE d = c
  <2>1. PICK k \in Lock : \E i \in 1 .. Len(queue[k]) : queue[k][i] = d
    BY <1>4 DEF LockInv, InLock
  <2>2. PICK i \in 1 .. Len(queue[k]) : queue[k][i] = d
    BY <2>1
  <2>3. i = 1
    BY <1>4, <2>2 DEF LockInv, Loading, Ending
  <2>4. queue[k] # <<>>
    BY <1>2, <2>2
  <2>5. k = l
    BY <1>1, <2>4 DEF LockInv
  <2> QED BY <1>3, <2>2, <2>3, <2>5
<1> QED BY <1>3, <1>4 DEF LockInv

\* A caller that is past waiting has the lock.
LEMMA InsideHolds ==
  ASSUME Types, LockInv, NEW c \in Caller, at[c] \in Loading \cup Ending
  PROVE  Holds(c)
<1>1. \A k \in Lock : queue[k] \in Seq(Caller)
  BY DEF Types, TypeOK
<1>2. PICK k \in Lock : \E i \in 1 .. Len(queue[k]) : queue[k][i] = c
  BY DEF LockInv, InLock
<1>3. PICK i \in 1 .. Len(queue[k]) : queue[k][i] = c
  BY <1>2
<1>4. i = 1
  BY <1>3 DEF LockInv, Loading, Ending
<1>5. queue[k] # <<>> /\ Head(queue[k]) = c
  BY <1>1, <1>3, <1>4
<1> QED BY <1>5 DEF Holds

LEMMA AskStep ==
  ASSUME Types, LockInv, NEW c \in Caller, at[c] \notin InLock, Ask(c),
         NEW s, Goes(c, "queued", s)
  PROVE  LockInv' /\ entry' \in Lock /\ queue' \in [Lock -> Seq(Caller)]
<1>1. queue \in [Lock -> Seq(Caller)] /\ at \in [Caller -> Place]
  BY DEF Types, TypeOK
<1>2. PICK l \in Lock : /\ entry' = l /\ queue' = [queue EXCEPT ![l] = Append(@, c)]
                        /\ entry # None => entry = l
                        /\ entry = None => queue[l] = <<>>
  <2>1. CASE entry # None
    BY <2>1 DEF Ask, Types, TypeOK
  <2>2. CASE entry = None
    <3>1. \A k \in Lock : queue[k] = <<>>
      BY <2>2, LocksExist DEF LockInv
    <3> QED BY <2>2, <3>1, LocksExist DEF Ask
  <2> QED BY <2>1, <2>2
<1>3. at' = [at EXCEPT ![c] = "queued"]
  BY DEF Goes
<1> DEFINE n == Len(queue[l])
<1>4. /\ queue[l] \in Seq(Caller) /\ n \in Nat
      /\ queue'[l] \in Seq(Caller) /\ Len(queue'[l]) = n + 1 /\ queue'[l][n + 1] = c
      /\ \A i \in 1 .. n : queue'[l][i] = queue[l][i]
      /\ \A k \in Lock : k # l => queue'[k] = queue[k]
  BY <1>1, <1>2
<1>5. \A k \in Lock : k # l => queue[k] = <<>>
  BY <1>2, LocksExist DEF LockInv
<1>6. \A k \in Lock : \A i \in 1 .. Len(queue[k]) : queue[k][i] # c /\ queue[k][i] \in Caller
  BY <1>1 DEF LockInv
<1>7. \A k \in Lock : queue'[k] # <<>> <=> entry' = k
  BY <1>2, <1>4, <1>5
<1>8. \A k \in Lock : \A i, j \in 1 .. Len(queue'[k]) : queue'[k][i] = queue'[k][j] => i = j
  <2>1. ASSUME NEW i \in 1 .. n + 1, NEW j \in 1 .. n + 1, queue'[l][i] = queue'[l][j] PROVE i = j
    <3>1. \A m \in 1 .. n : queue'[l][m] # c
      BY <1>4, <1>6
    <3>2. CASE i = n + 1 \/ j = n + 1
      BY <1>4, <2>1, <3>1, <3>2
    <3>3. CASE i \in 1 .. n /\ j \in 1 .. n
      BY <1>4, <2>1, <3>3 DEF LockInv
    <3> QED BY <1>4, <3>2, <3>3
  <2> QED BY <1>4, <1>5, <2>1
<1>9. \A k \in Lock : \A i \in 1 .. Len(queue'[k]) :
        at'[queue'[k][i]] \in InLock /\ (i # 1 => at'[queue'[k][i]] = "queued")
  <2>1. ASSUME NEW i \in 1 .. n
        PROVE  at'[queue'[l][i]] \in InLock /\ (i # 1 => at'[queue'[l][i]] = "queued")
    BY <1>1, <1>3, <1>4, <1>6 DEF LockInv
  <2>2. at'[queue'[l][n + 1]] = "queued"
    BY <1>1, <1>3, <1>4
  <2> QED BY <1>4, <1>5, <2>1, <2>2 DEF InLock
<1>10. ASSUME NEW d \in Caller, at'[d] \in InLock
       PROVE  \E k \in Lock : \E i \in 1 .. Len(queue'[k]) : queue'[k][i] = d
  <2>1. CASE d = c
    BY <1>4, <2>1
  <2>2. CASE d # c
    <3>1. PICK k \in Lock : \E i \in 1 .. Len(queue[k]) : queue[k][i] = d
      BY <1>1, <1>3, <1>10, <2>2 DEF LockInv
    <3> QED BY <1>4, <3>1
  <2> QED BY <2>1, <2>2
<1> QED BY ZenonT(40), <1>1, <1>2, <1>4, <1>7, <1>8, <1>9, <1>10 DEF LockInv

LEMMA UnlockStep ==
  ASSUME Types, LockInv, NEW c \in Caller, Unlock(c), NEW p, p \notin InLock, NEW s, Goes(c, p, s)
  PROVE  LockInv' /\ entry' \in Lock \cup {None} /\ queue' \in [Lock -> Seq(Caller)]
<1>1. queue \in [Lock -> Seq(Caller)] /\ at \in [Caller -> Place] /\ entry \in Lock \cup {None}
  BY DEF Types, TypeOK
<1>2. PICK l \in Lock : /\ queue[l] # <<>> /\ Head(queue[l]) = c
                        /\ queue' = [queue EXCEPT ![l] = Tail(@)]
                        /\ entry' = IF entry = l /\ Len(queue[l]) = 1 THEN None ELSE entry
  BY DEF Unlock
<1>3. at' = [at EXCEPT ![c] = p]
  BY DEF Goes
<1> DEFINE n == Len(queue[l]) - 1
<1>4. /\ queue[l] \in Seq(Caller) /\ n \in Nat /\ queue[l][1] = c /\ Len(queue[l]) = n + 1
      /\ queue'[l] \in Seq(Caller) /\ Len(queue'[l]) = n
      /\ \A i \in 1 .. n : queue'[l][i] = queue[l][i + 1]
      /\ \A k \in Lock : k # l => queue'[k] = queue[k]
  BY <1>1, <1>2
<1>5. entry = l /\ \A k \in Lock : k # l => queue[k] = <<>>
  BY <1>2 DEF LockInv
<1>6. \A i \in 1 .. n : queue[l][i + 1] # c /\ queue[l][i + 1] \in Caller
  BY <1>4 DEF LockInv
<1>7. \A k \in Lock : queue'[k] # <<>> <=> entry' = k
  <2>1. queue'[l] # <<>> <=> n # 0
    BY <1>4, EmptySeq
  <2>2. entry' = IF n = 0 THEN None ELSE l
    BY <1>2, <1>4, <1>5
  <2> QED BY <1>4, <1>5, <2>1, <2>2, LocksExist
<1>8. \A k \in Lock : \A i, j \in 1 .. Len(queue'[k]) : queue'[k][i] = queue'[k][j] => i = j
  <2>1. ASSUME NEW i \in 1 .. n, NEW j \in 1 .. n, queue'[l][i] = queue'[l][j] PROVE i = j
    BY <1>4, <2>1 DEF LockInv
  <2> QED BY <1>4, <1>5, <2>1
<1>9. \A k \in Lock : \A i \in 1 .. Len(queue'[k]) :
        at'[queue'[k][i]] \in InLock /\ (i # 1 => at'[queue'[k][i]] = "queued")
  <2>1. ASSUME NEW i \in 1 .. n PROVE at'[queue'[l][i]] = "queued"
    <3>1. i + 1 \in 1 .. Len(queue[l]) /\ i + 1 # 1
      BY <1>4
    <3> QED BY <1>1, <1>3, <1>4, <1>6, <3>1 DEF LockInv
  <2> QED BY <1>4, <1>5, <2>1 DEF InLock
<1>10. ASSUME NEW d \in Caller, at'[d] \in InLock
       PROVE  \E k \in Lock : \E i \in 1 .. Len(queue'[k]) : queue'[k][i] = d
  <2>1. d # c /\ at[d] \in InLock
    BY <1>1, <1>3, <1>10
  <2>2. PICK k \in Lock : \E i \in 1 .. Len(queue[k]) : queue[k][i] = d
    BY <2>1 DEF LockInv
  <2>3. PICK i \in 1 .. Len(queue[k]) : queue[k][i] = d
    BY <2>2
  <2>4. k = l
    BY <1>1, <1>5, <2>3
  <2>5. i # 1 /\ i - 1 \in 1 .. n /\ queue'[l][i - 1] = queue[l][i]
    BY <1>4, <2>1, <2>3, <2>4
  <2> QED BY <1>4, <2>3, <2>4, <2>5
<1>11. entry' \in Lock \cup {None} /\ queue' \in [Lock -> Seq(Caller)]
  BY <1>1, <1>2, <1>4
<1> QED BY <1>7, <1>8, <1>9, <1>10, <1>11 DEF LockInv

\* A step that leaves the lock alone: a caller goes on past waiting only with the lock.
LEMMA LockStays ==
  ASSUME Types, LockInv, UNCHANGED locks,
         \A d \in Caller : /\ at'[d] \in InLock <=> at[d] \in InLock
                           /\ at'[d] = at[d] \/ at[d] # "queued" \/ Holds(d)
                           /\ at'[d] = "queued" => at[d] = "queued"
  PROVE  LockInv'
<1>1. queue \in [Lock -> Seq(Caller)]
  BY DEF Types, TypeOK
<1>2. queue' = queue /\ entry' = entry
  BY DEF locks
<1>3. ASSUME NEW k \in Lock, NEW i \in 1 .. Len(queue[k])
      PROVE  at'[queue[k][i]] \in InLock /\ (i # 1 => at'[queue[k][i]] = "queued")
  <2> DEFINE d == queue[k][i]
  <2>1. d \in Caller /\ at[d] \in InLock /\ (i # 1 => at[d] = "queued")
    BY <1>1 DEF LockInv
  <2>2. ASSUME i # 1 PROVE ~Holds(d)
    <3> SUFFICES ASSUME NEW l \in Lock, queue[l] # <<>>, Head(queue[l]) = d PROVE FALSE
      BY DEF Holds
    <3>1. queue[l][1] = d /\ 1 \in 1 .. Len(queue[l])
      BY <1>1
    <3>2. queue[k] # <<>>
      BY <1>1
    <3>3. k = l
      BY <3>2 DEF LockInv
    <3> QED BY <2>2, <3>1, <3>3 DEF LockInv
  <2> HIDE DEF d
  <2>3. at'[d] \in InLock /\ (i # 1 => at'[d] = "queued")
    BY <2>1, <2>2
  <2> QED BY <2>3 DEF d
<1>4. \A d \in Caller : at'[d] \in InLock =>
        \E l \in Lock : \E i \in 1 .. Len(queue[l]) : queue[l][i] = d
  BY DEF LockInv
<1> QED BY <1>2, <1>3, <1>4 DEF LockInv

-----------------------------------------------------------------------------
(* Places, and the saves of a space.                                       *)

LEMMA GoesStep ==
  ASSUME Types, NEW c \in Caller, NEW p \in PlaceOf(c), NEW s \in Space \cup {None}, Goes(c, p, s),
         p \in {"in", "dropped", "detaching"} => s # None
  PROVE  /\ at' \in [Caller -> Place] /\ of' \in [Caller -> Space \cup {None}]
         /\ at'[c] = p /\ of'[c] = s
         /\ \A d \in Caller : d # c => at'[d] = at[d] /\ of'[d] = of[d]
         /\ \A d \in Caller : at'[d] \in PlaceOf(d)
         /\ \A t \in Tabs : at'[t] \in {"in", "dropped", "detaching"} => of'[t] # None
<1>1. /\ at \in [Caller -> Place] /\ of \in [Caller -> Space \cup {None}]
      /\ \A d \in Caller : at[d] \in PlaceOf(d)
      /\ \A t \in Tabs : at[t] \in {"in", "dropped", "detaching"} => of[t] # None
  BY DEF Types, TypeOK
<1>2. at' = [at EXCEPT ![c] = p] /\ of' = [of EXCEPT ![c] = s]
  BY DEF Goes
<1>3. p \in Place
  BY DEF PlaceOf, Place, Loading, Ending
<1>4. \A t \in Tabs : t \in Caller
  BY DEF Caller, Visitor
<1> QED BY <1>1, <1>2, <1>3, <1>4

\* The callers of saves stay where they are.
LEMMA JobsStay ==
  ASSUME JobInv, Types, UNCHANGED <<jobs, write>>,
         \A d \in Caller : at[d] \in AtSave => at'[d] = at[d] /\ of'[d] = of[d]
  PROVE  JobInv'
<1>1. \A s \in Space : jobs[s] \in Seq(Caller)
  BY DEF Types, TypeOK
<1>2. ASSUME NEW s \in Space, NEW i \in 1 .. Len(jobs[s])
      PROVE  at'[jobs[s][i]] \in AtSave /\ of'[jobs[s][i]] = s
  <2>1. jobs[s][i] \in Caller
    BY <1>1
  <2> QED BY <2>1 DEF JobInv
<1> QED BY <1>2 DEF JobInv

LEMMA AskSaveStep ==
  ASSUME JobInv, Types, NEW c \in Caller, at[c] \notin AtSave, NEW s \in Space, AskSave(c, s),
         UNCHANGED write, at'[c] \in AtSave /\ of'[c] = s,
         \A d \in Caller : d # c => at'[d] = at[d] /\ of'[d] = of[d]
  PROVE  /\ JobInv' /\ jobs' \in [Space -> Seq(Caller)]
         /\ Len(jobs'[s]) = Len(jobs[s]) + 1 /\ jobs'[s][Len(jobs[s]) + 1] = c
         /\ \A i \in 1 .. Len(jobs[s]) : jobs'[s][i] = jobs[s][i] /\ jobs[s][i] # c
         /\ \A r \in Space : r # s => jobs'[r] = jobs[r]
<1> DEFINE n == Len(jobs[s])
<1>1. jobs \in [Space -> Seq(Caller)] /\ jobs' = [jobs EXCEPT ![s] = Append(@, c)]
  BY DEF Types, TypeOK, AskSave
<1>2. /\ jobs[s] \in Seq(Caller) /\ n \in Nat /\ jobs'[s] \in Seq(Caller) /\ Len(jobs'[s]) = n + 1
      /\ jobs'[s][n + 1] = c /\ \A i \in 1 .. n : jobs'[s][i] = jobs[s][i]
      /\ \A r \in Space : r # s => jobs'[r] = jobs[r]
  BY <1>1
<1>3. \A r \in Space : \A i \in 1 .. Len(jobs[r]) : jobs[r][i] # c /\ jobs[r][i] \in Caller
  BY <1>1 DEF JobInv
<1>4. ASSUME NEW r \in Space, NEW i \in 1 .. Len(jobs'[r])
      PROVE  at'[jobs'[r][i]] \in AtSave /\ of'[jobs'[r][i]] = r
  <2>1. CASE r = s /\ i = n + 1
    BY <1>2, <2>1
  <2>2. CASE ~(r = s /\ i = n + 1)
    <3>1. i \in 1 .. Len(jobs[r]) /\ jobs'[r][i] = jobs[r][i]
      BY <1>2, <1>4, <2>2
    <3> QED BY <1>3, <3>1 DEF JobInv
  <2> QED BY <2>1, <2>2
<1>5. ASSUME NEW r \in Space, NEW i \in 1 .. Len(jobs'[r]), NEW j \in 1 .. Len(jobs'[r]),
             jobs'[r][i] = jobs'[r][j]
      PROVE  i = j
  <2>1. CASE r # s
    BY <1>2, <1>5, <2>1 DEF JobInv
  <2>2. CASE r = s /\ (i = n + 1 \/ j = n + 1)
    <3>1. ASSUME NEW m \in 1 .. n PROVE jobs'[s][m] # c
      <4>1. jobs'[s][m] = jobs[s][m]
        BY <1>2
      <4>2. jobs[s][m] # c
        BY <1>3
      <4> QED BY <4>1, <4>2
    <3> QED BY <1>2, <1>5, <2>2, <3>1
  <2>3. CASE r = s /\ i \in 1 .. n /\ j \in 1 .. n
    BY <1>2, <1>5, <2>3 DEF JobInv
  <2> QED BY <1>2, <1>5, <2>1, <2>2, <2>3
<1>6. \A r \in Space : jobs[r] # <<>> => jobs'[r] # <<>>
  BY <1>1, <1>2, EmptySeq
<1>7. jobs' \in [Space -> Seq(Caller)]
  BY <1>1, <1>2
<1> QED BY <1>2, <1>3, <1>4, <1>5, <1>6, <1>7 DEF JobInv

LEMMA ChangedIsNext ==
  ASSUME NEW s, NEW p \in 1 .. NParts + 1
  PROVE  LET q == Changed(s, p) IN
         /\ q \in p .. NParts + 1
         /\ q <= NParts => content[s][q] # saved'[s][q]
         /\ \A r \in p .. q - 1 : content[s][r] = saved'[s][r]
<1> DEFINE IsNext(q) == /\ q <= NParts => content[s][q] # saved'[s][q]
                        /\ \A r \in p .. q - 1 : content[s][r] = saved'[s][r]
<1>1. \E q \in p .. NParts + 1 : IsNext(q)
  <2>1. CASE p <= NParts /\ content[s][p] # saved'[s][p]
    <3>1. p \in p .. NParts + 1 /\ IsNext(p)
      BY <2>1
    <3> QED BY <3>1
  <2>2. CASE p = NParts + 1
    <3>1. p \in p .. NParts + 1 /\ IsNext(p)
      BY <2>2, PartsAssumption
    <3> QED BY <3>1
  <2>3. CASE p <= NParts /\ content[s][p] = saved'[s][p]
    <3>1. CASE p + 1 <= NParts /\ content[s][p + 1] = saved'[s][p + 1]
      <4>1. p = 1 /\ NParts = 2
        BY <3>1, PartsAssumption
      <4>2. 3 \in p .. NParts + 1 /\ IsNext(3)
        BY <2>3, <3>1, <4>1
      <4> QED BY <4>2
    <3>2. CASE ~(p + 1 <= NParts /\ content[s][p + 1] = saved'[s][p + 1])
      <4>1. p + 1 \in p .. NParts + 1 /\ IsNext(p + 1)
        BY <2>3, <3>2, PartsAssumption
      <4> QED BY <4>1
    <3> QED BY <3>1, <3>2
  <2> QED BY <2>1, <2>2, <2>3, PartsAssumption
<1>2. Changed(s, p) = CHOOSE q \in p .. NParts + 1 : IsNext(q)
  BY DEF Changed
<1> QED BY <1>1, <1>2

\* A save goes on with its next write, or its caller goes on and the next one has the save lock.
LEMMA SaveFromStep ==
  ASSUME RegistryInv, NEW s \in Space, jobs[s] # <<>>, NEW p \in 1 .. NParts + 1, NEW ok \in BOOLEAN,
         SaveFrom(s, p, ok), saved' \in [Space -> Texts],
         UNCHANGED <<spaces, locks, loaded, stored, data, closed, mix>>
  PROVE  RegistryInv'
<1> DEFINE q == Changed(s, p)
           c == Head(jobs[s])
<1>1. q \in p .. NParts + 1 /\ q \in Nat
  BY ChangedIsNext, PartsAssumption
<1>2. /\ jobs \in [Space -> Seq(Caller)] /\ at \in [Caller -> Place]
      /\ of \in [Caller -> Space \cup {None}] /\ content \in [Space -> Texts]
      /\ write \in [Space -> [part : Part \cup {0}, text : Number,
                              thread : {"none", "running", "written", "failed"}, ok : BOOLEAN]]
  BY DEF RegistryInv, Types, TypeOK
<1>3. jobs[s] \in Seq(Caller) /\ Len(jobs[s]) >= 1 /\ c = jobs[s][1] /\ c \in Caller
  BY <1>2
<1>4. at[c] \in AtSave /\ of[c] = s
  BY <1>3 DEF RegistryInv, JobInv
<1>5. CASE q <= NParts
  <2>1. write' = [write EXCEPT ![s] =
                   [part |-> q, text |-> content[s][q], thread |-> "running", ok |-> ok]]
    BY <1>5 DEF SaveFrom
  <2>2. UNCHANGED <<jobs, at, of>>
    BY <1>5 DEF SaveFrom
  <2>3. q \in Part /\ content[s][q] \in Number
    BY <1>1, <1>2, <1>5, PartsAssumption DEF Part, Texts
  <2>4. /\ write' \in [Space -> [part : Part \cup {0}, text : Number,
                                  thread : {"none", "running", "written", "failed"}, ok : BOOLEAN]]
        /\ write'[s].thread = "running" /\ write'[s].part = q
        /\ \A r \in Space : r # s => write'[r] = write[r]
    BY <1>2, <2>1, <2>3
  <2>5. Types'
    BY <2>2, <2>4 DEF RegistryInv, Types, TypeOK, spaces, locks, data, PlaceOf
  <2>6. LockInv'
    BY <2>2 DEF RegistryInv, LockInv, locks
  <2>7. JobInv'
    BY <2>2, <2>3, <2>4 DEF RegistryInv, JobInv
  <2>8. ShutdownInv' /\ SpaceInv'
    BY <2>2 DEF RegistryInv, ShutdownInv, SpaceInv, spaces
  <2> QED BY <2>5, <2>6, <2>7, <2>8 DEF RegistryInv
<1>6. CASE q > NParts
  <2> DEFINE a == AfterSave(c, ok)
             r == IF at[c] = "saving" THEN s ELSE None
  <2>1. /\ write' = [write EXCEPT ![s] = Idle]
        /\ jobs' = [jobs EXCEPT ![s] = Tail(@)]
        /\ Goes(c, a, r)
    BY <1>1, <1>6, PartsAssumption DEF SaveFrom
  <2>2. /\ at[c] = "detaching" => a = "out" /\ c \in Tabs
        /\ at[c] = "autosaving" => a = "deciding" /\ c = "sweep"
        /\ at[c] = "saving" => a \in {"stored", "unstored"} /\ c \in {"sweep", "shutdown"}
    <3>1. at[c] \in PlaceOf(c)
      BY <1>3 DEF RegistryInv, Types
    <3>2. c \in Tabs \/ c \in Requests \/ c = "sweep" \/ c = "shutdown"
      BY <1>3 DEF Caller, Visitor
    <3> QED BY <3>1, <3>2 DEF AfterSave, PlaceOf, Loading, Ending
  <2>3. /\ a \in PlaceOf(c) /\ r \in Space \cup {None} /\ a \notin {"in", "dropped", "detaching"}
        /\ at[c] \in InLock <=> a \in InLock
        /\ at[c] \in Ending <=> a \in Ending
        /\ at[c] = "saving" => r = s
    BY <1>4, <2>2, CallersAssumption DEF PlaceOf, AtSave, Ending, Loading, InLock
  <2>4. a \notin Loading /\ a \notin {"queued", "closing", "ended", "in", "stopping"}
        /\ at[c] \notin {"queued", "closing", "ended", "out", "stopping"} /\ at[c] \notin Loading
    BY <1>4, <2>2 DEF AtSave, Loading
  <2>5. c = "shutdown" => a # "out"
    BY <1>4, <2>2, CallersAssumption DEF AtSave
  <2> HIDE DEF c, a, r
  <2>6. /\ at' \in [Caller -> Place] /\ of' \in [Caller -> Space \cup {None}]
        /\ at'[c] = a /\ of'[c] = r
        /\ \A d \in Caller : d # c => at'[d] = at[d] /\ of'[d] = of[d]
        /\ \A d \in Caller : at'[d] \in PlaceOf(d)
        /\ \A t \in Tabs : at'[t] \in {"in", "dropped", "detaching"} => of'[t] # None
    BY <1>3, <2>1, <2>3, GoesStep DEF RegistryInv
  <2>7. /\ jobs' \in [Space -> Seq(Caller)]
        /\ write' \in [Space -> [part : Part \cup {0}, text : Number,
                                  thread : {"none", "running", "written", "failed"}, ok : BOOLEAN]]
        /\ write'[s] = Idle
        /\ \A x \in Space : x # s => write'[x] = write[x] /\ jobs'[x] = jobs[x]
        /\ Len(jobs'[s]) = Len(jobs[s]) - 1
        /\ \A i \in 1 .. Len(jobs'[s]) : jobs'[s][i] = jobs[s][i + 1] /\ i + 1 \in 1 .. Len(jobs[s])
    <3>1. Idle \in [part : Part \cup {0}, text : Number,
                   thread : {"none", "running", "written", "failed"}, ok : BOOLEAN]
      BY ChangesAssumption DEF Idle, Number
    <3> QED BY <1>2, <1>3, <2>1, <3>1
  <2>8. Types'
    BY <2>6, <2>7 DEF RegistryInv, Types, TypeOK, spaces, locks, data, PlaceOf
  <2>9. LockInv'
    <3>1. \A d \in Caller : /\ at'[d] \in InLock <=> at[d] \in InLock
                            /\ at'[d] = at[d] \/ at[d] # "queued" \/ Holds(d)
                            /\ at'[d] = "queued" => at[d] = "queued"
      BY <2>3, <2>4, <2>6
    <3> QED BY <3>1, LockStays DEF RegistryInv
  <2>10. JobInv'
    <3>1. \A x \in Space : \A i \in 1 .. Len(jobs[x]) :
            /\ jobs[x][i] \in Caller /\ at[jobs[x][i]] \in AtSave /\ of[jobs[x][i]] = x
      BY <1>2 DEF RegistryInv, JobInv
    <3>2. ASSUME NEW x \in Space, NEW i \in 1 .. Len(jobs'[x])
          PROVE  at'[jobs'[x][i]] \in AtSave /\ of'[jobs'[x][i]] = x
      <4>1. CASE x # s
        <5>1. jobs'[x] = jobs[x]
          BY <2>7, <4>1
        <5>2. of[jobs[x][i]] = x
          BY <3>1, <3>2, <5>1
        <5>3. jobs[x][i] # c
          BY <1>4, <4>1, <5>2
        <5> QED BY <2>6, <3>1, <3>2, <5>1, <5>2, <5>3
      <4>2. CASE x = s
        <5>1. jobs[s][i + 1] # c
          BY <1>3, <2>7, <3>2, <4>2 DEF RegistryInv, JobInv
        <5>2. jobs'[x][i] = jobs[s][i + 1] /\ i + 1 \in 1 .. Len(jobs[s])
          BY <2>7, <3>2, <4>2 DEF RegistryInv, JobInv
        <5>3. /\ jobs'[x][i] \in Caller /\ jobs'[x][i] # c
              /\ at[jobs'[x][i]] \in AtSave /\ of[jobs'[x][i]] = x
          BY <3>1, <4>2, <5>1, <5>2
        <5> QED BY <2>6, <5>3
      <4> QED BY <4>1, <4>2
    <3>3. ASSUME NEW x \in Space, NEW i \in 1 .. Len(jobs'[x]), NEW j \in 1 .. Len(jobs'[x]),
                 jobs'[x][i] = jobs'[x][j]
          PROVE  i = j
      <4>1. CASE x # s
        BY <2>7, <3>3, <4>1 DEF RegistryInv, JobInv
      <4>2. CASE x = s
        <5>1. i + 1 = j + 1
          BY SMTT(30), <2>7, <3>3, <4>2 DEF RegistryInv, JobInv
        <5> QED BY <1>3, <2>7, <3>3, <4>2, <5>1
      <4> QED BY <4>1, <4>2
    <3>4. \A x \in Space : IF write'[x].thread = "none" THEN write'[x] = Idle
                           ELSE write'[x].part \in Part /\ jobs'[x] # <<>>
      <4>1. ASSUME NEW x \in Space, x # s
            PROVE  IF write'[x].thread = "none" THEN write'[x] = Idle
                   ELSE write'[x].part \in Part /\ jobs'[x] # <<>>
        BY <2>7, <4>1 DEF RegistryInv, JobInv
      <4>2. write'[s].thread = "none"
        BY <2>7 DEF Idle
      <4> QED BY <2>7, <4>1, <4>2
    <3> QED BY <3>2, <3>3, <3>4 DEF JobInv
  <2>11. ShutdownInv'
    <3>1. "shutdown" \in Caller /\ "sweep" \in Caller
      BY DEF Caller
    <3> QED BY <2>4, <2>5, <2>6, <3>1 DEF RegistryInv, ShutdownInv, spaces
  <2>12. SpaceInv'
    <3>1. \A d \in Caller : /\ at'[d] \in Loading => at[d] \in Loading
                            /\ at[d] = "closing" => at'[d] = "closing"
                            /\ at'[d] \in Ending => at[d] \in Ending /\ of'[d] = of[d]
      BY <1>4, <2>3, <2>4, <2>6 DEF AtSave, Ending, c
    <3>2. "sweep" \in Caller
      BY DEF Caller
    <3> QED BY <3>1, <3>2 DEF RegistryInv, SpaceInv, spaces
  <2> QED BY <2>8, <2>9, <2>10, <2>11, <2>12 DEF RegistryInv
<1> QED BY <1>1, <1>5, <1>6, PartsAssumption

-----------------------------------------------------------------------------
(* Every step keeps RegistryInv.                                           *)

LEMMA Names ==
  /\ "sweep" \in Caller /\ "shutdown" \in Caller /\ "sweep" # "shutdown"
  /\ \A c \in Visitor : c \in Caller /\ c # "sweep" /\ c # "shutdown"
  /\ \A t \in Tabs : t \in Visitor
BY CallersAssumption DEF Caller, Visitor

LEMMA RegistryInit == Init => RegistryInv
<1> SUFFICES ASSUME Init PROVE RegistryInv
  OBVIOUS
<1>1. Fresh \in Texts /\ 0 \in Number /\ [Fresh EXCEPT ![1] = Refused] \in [Part -> Number \cup {Refused}]
  <2>1. 0 \in Number
    BY ChangesAssumption DEF Number
  <2>2. Fresh \in Texts
    BY <2>1 DEF Fresh, Texts
  <2>3. Fresh \in [Part -> Number \cup {Refused}]
    BY <2>1 DEF Fresh
  <2> QED BY <2>1, <2>2, <2>3
<1>2. Idle \in [part : Part \cup {0}, text : Number,
               thread : {"none", "running", "written", "failed"}, ok : BOOLEAN]
  BY <1>1 DEF Idle
<1>3. TypeOK
  <2>1. stored \in [Part -> Number \cup {Refused}]
    BY <1>1 DEF Init, Texts
  <2>2. /\ loaded \in [Visitor -> [Part -> Number \cup {Refused}]]
        /\ jobs \in [Space -> Seq(Caller)] /\ queue \in [Lock -> Seq(Caller)]
    BY <1>1 DEF Init, Texts
  <2> QED BY <1>1, <1>2, <2>1, <2>2 DEF Init, TypeOK, Place
<1>4. \A p \in Part : p # 1 => stored[p] # Refused /\ \A c \in Visitor : loaded[c][p] # Refused
  BY ChangesAssumption DEF Init, Fresh, Refused
<1>5. Types
  BY <1>3, <1>4, Names DEF Init, Types, PlaceOf
<1>6. LockInv
  BY LocksExist DEF Init, LockInv, InLock, Loading, Ending
<1>7. JobInv
  BY DEF Init, JobInv, Idle
<1>8. ShutdownInv
  BY Names DEF Init, ShutdownInv
<1>9. SpaceInv
  BY LocksExist, Names DEF Init, SpaceInv, Loading, Ending
<1> QED BY <1>5, <1>6, <1>7, <1>8, <1>9 DEF RegistryInv

LEMMA ArrivesStep ==
  ASSUME RegistryInv, NEW c \in Visitor, Arrives(c)
  PROVE  RegistryInv'
<1>1. at[c] = "out" /\ Ask(c) /\ Goes(c, "queued", None)
  BY DEF Arrives
<1>2. c \in Caller /\ c # "sweep" /\ c # "shutdown" /\ "queued" \in PlaceOf(c)
  BY Names DEF PlaceOf
<1>3. /\ at' \in [Caller -> Place] /\ of' \in [Caller -> Space \cup {None}]
      /\ at'[c] = "queued" /\ of'[c] = None
      /\ \A d \in Caller : d # c => at'[d] = at[d] /\ of'[d] = of[d]
      /\ \A d \in Caller : at'[d] \in PlaceOf(d)
      /\ \A t \in Tabs : at'[t] \in {"in", "dropped", "detaching"} => of'[t] # None
  BY <1>1, <1>2, GoesStep DEF RegistryInv
<1>4. LockInv' /\ entry' \in Lock /\ queue' \in [Lock -> Seq(Caller)]
  <2>1. at[c] \notin InLock
    BY <1>1 DEF InLock, Loading, Ending
  <2> QED BY <1>1, <1>2, <2>1, AskStep DEF RegistryInv
<1>5. Types'
  BY <1>3, <1>4 DEF RegistryInv, Types, TypeOK, Arrives, spaces, saving, data, PlaceOf
<1>6. JobInv'
  <2>1. at[c] \notin AtSave
    BY <1>1 DEF AtSave
  <2> QED BY <1>3, <2>1, JobsStay DEF RegistryInv, Arrives, saving
<1>7. ShutdownInv'
  BY <1>2, <1>3, Names DEF RegistryInv, ShutdownInv, Arrives, spaces
<1>8. SpaceInv'
  <2>1. "queued" \notin Loading \cup Ending
    BY DEF Loading, Ending
  <2> QED BY <1>1, <1>2, <1>3, <2>1, Names DEF RegistryInv, SpaceInv, Arrives, spaces
<1> QED BY <1>4, <1>5, <1>6, <1>7, <1>8 DEF RegistryInv

\* A visitor with the lock gets to a space that is live, or is so from now on.
LEMMA HasStep ==
  ASSUME RegistryInv, NEW c \in Visitor, Holds(c), at[c] \in {"queued", "loaded"},
         NEW s \in Space, NEW what \in Texts, Has(c, s, what),
         live = s \/ (live = None /\ ~closed), live' = s,
         session' \in [Space -> {"open", "closing", "closed"}],
         \A r \in Space : /\ session'[r] # "closed" <=> r = s
                          /\ session'[r] = "closing" => session[r] = "closing",
         saved' \in [Space -> Texts],
         loaded' = loaded \/ loaded' = [loaded EXCEPT ![c] = Fresh],
         UNCHANGED <<jobs, write, stored, closed, mix>>
  PROVE  RegistryInv'
<1>1. c \in Caller /\ c # "sweep" /\ c # "shutdown"
  BY Names
<1>2. PICK p \in {"in", "out"}, x \in Space \cup {None} :
        Unlock(c) /\ Goes(c, p, x) /\ (p = "in" => c \in Tabs /\ x = s)
  BY DEF Has
<1>3. p \in PlaceOf(c) /\ (p = "in" => x # None)
  <2>1. CASE p = "in"
    <3>1. c \in Tabs /\ c \notin Requests /\ x # None
      BY <1>2, <2>1, CallersAssumption, LocksExist
    <3> QED BY <1>1, <2>1, <3>1 DEF PlaceOf
  <2>2. CASE p = "out"
    BY <1>1, <2>2 DEF PlaceOf
  <2> QED BY <2>1, <2>2
<1>4. /\ at' \in [Caller -> Place] /\ of' \in [Caller -> Space \cup {None}]
      /\ at'[c] = p /\ of'[c] = x
      /\ \A d \in Caller : d # c => at'[d] = at[d] /\ of'[d] = of[d]
      /\ \A d \in Caller : at'[d] \in PlaceOf(d)
      /\ \A t \in Tabs : at'[t] \in {"in", "dropped", "detaching"} => of'[t] # None
  BY <1>1, <1>2, <1>3, GoesStep DEF RegistryInv
<1>5. LockInv' /\ entry' \in Lock \cup {None} /\ queue' \in [Lock -> Seq(Caller)]
  <2>1. p \notin InLock
    BY DEF InLock, Loading, Ending
  <2> QED BY <1>1, <1>2, <2>1, UnlockStep DEF RegistryInv
<1>6. /\ changes' \in Number /\ content' \in [Space -> Texts]
      /\ tabs' \in [Space -> SUBSET Tabs]
      /\ \A r \in Space : r # s => tabs'[r] = tabs[r]
  <2>1. /\ changes \in Number /\ content \in [Space -> Texts] /\ tabs \in [Space -> SUBSET Tabs]
        /\ mix.changes \in 0 .. MaxChanges
    BY MixesAssumption DEF RegistryInv, Types, TypeOK
  <2>2. changes < mix.changes => changes + 1 \in Number
    BY <2>1, ChangesAssumption DEF Number
  <2>3. changes' \in Number /\ tabs' \in [Space -> SUBSET Tabs] /\ \A r \in Space : r # s => tabs'[r] = tabs[r]
    BY <2>1, <2>2 DEF Has
  <2>4. \/ content' = [content EXCEPT ![s] = what]
        \/ content' = [content EXCEPT ![s] = [what EXCEPT ![1] = changes + 1]] /\ changes < mix.changes
    BY DEF Has
  <2>5. changes < mix.changes => [what EXCEPT ![1] = changes + 1] \in Texts
    BY <2>2 DEF Texts
  <2> QED BY <2>1, <2>3, <2>4, <2>5
<1>7. /\ loaded' \in [Visitor -> [Part -> Number \cup {Refused}]]
      /\ \A r \in Part : r # 1 => \A d \in Visitor : loaded'[d][r] # Refused
  <2>1. /\ loaded \in [Visitor -> [Part -> Number \cup {Refused}]]
        /\ \A r \in Part : r # 1 => \A d \in Visitor : loaded[d][r] # Refused
    BY DEF RegistryInv, Types, TypeOK
  <2>2. Fresh \in [Part -> Number \cup {Refused}] /\ \A r \in Part : Fresh[r] # Refused
    BY ChangesAssumption DEF Fresh, Number, Refused
  <2> QED BY <2>1, <2>2
<1>8. Types'
  BY <1>4, <1>5, <1>6, <1>7 DEF RegistryInv, Types, TypeOK, PlaceOf
<1>9. JobInv'
  <2>1. at[c] \notin AtSave
    BY DEF AtSave
  <2> QED BY <1>4, <2>1, JobsStay DEF RegistryInv
<1>10. ShutdownInv'
  BY <1>1, <1>4, LocksExist, Names DEF RegistryInv, ShutdownInv
<1>11. \A d \in Caller : at'[d] \notin Loading \cup Ending /\ at[d] # "closing"
  <2>1. p \notin Loading \cup Ending /\ at[c] # "closing"
    BY DEF Loading, Ending
  <2>2. \A d \in Caller : at[d] \in Loading \cup Ending => d = c
    BY <1>1, HolderIsAlone DEF RegistryInv
  <2> QED BY <1>4, <2>1, <2>2 DEF Ending
<1>12. SpaceInv'
  <2>1. \A r \in Space : session'[r] # "closing"
    BY <1>11 DEF RegistryInv, SpaceInv
  <2>2. \A r \in Space : tabs'[r] # {} => live' = r
    BY <1>6, LocksExist DEF RegistryInv, SpaceInv
  <2> QED BY <1>11, <2>1, <2>2, Names DEF SpaceInv
<1> QED BY <1>5, <1>8, <1>9, <1>10, <1>12 DEF RegistryInv

LEMMA FindsStep ==
  ASSUME RegistryInv, NEW c \in Visitor, Finds(c)
  PROVE  RegistryInv'
<1>1. /\ at[c] = "queued" /\ Holds(c) /\ live # None /\ Has(c, live, content[live])
      /\ UNCHANGED <<live, session, loaded, saving, closed, mix>>
  BY DEF Finds
<1>2. live \in Space /\ content[live] \in Texts /\ session \in [Space -> {"open", "closing", "closed"}]
      /\ saved \in [Space -> Texts]
  BY <1>1 DEF RegistryInv, Types, TypeOK
<1>3. \A r \in Space : session[r] # "closed" <=> r = live
  BY DEF RegistryInv, SpaceInv
<1> QED BY <1>1, <1>2, <1>3, HasStep DEF saving

LEMMA PublishesStep ==
  ASSUME RegistryInv, NEW c \in Visitor, Publishes(c)
  PROVE  RegistryInv'
<1>1. /\ at[c] = "loaded" /\ loaded[c][1] # Refused
      /\ loaded' = [loaded EXCEPT ![c] = Fresh] /\ UNCHANGED <<jobs, write, stored, closed, mix>>
  BY DEF Publishes, Restored
<1>2. c \in Caller /\ c # "sweep" /\ c # "shutdown"
  BY Names
<1>3. Holds(c) /\ live = None
  BY <1>1, <1>2, InsideHolds DEF RegistryInv, SpaceInv, Loading
<1>4. CASE ~closed /\ Publish(c)
  <2>1. PICK s \in Space : /\ live' = s /\ session' = [session EXCEPT ![s] = "open"]
                          /\ saved' = [saved EXCEPT ![s] = loaded[c]] /\ Has(c, s, loaded[c])
    BY <1>4 DEF Publish
  <2>2. loaded[c] \in Texts
    <3>1. loaded[c] \in [Part -> Number \cup {Refused}] /\ \A r \in Part : loaded[c][r] # Refused
      BY <1>1, <1>2 DEF RegistryInv, Types, TypeOK
    <3> QED BY <3>1 DEF Texts
  <2>3. /\ session \in [Space -> {"open", "closing", "closed"}] /\ saved \in [Space -> Texts]
        /\ \A r \in Space : session[r] = "closed"
    BY <1>3, LocksExist DEF RegistryInv, Types, TypeOK, SpaceInv
  <2>4. /\ session' \in [Space -> {"open", "closing", "closed"}] /\ saved' \in [Space -> Texts]
        /\ \A r \in Space : /\ session'[r] # "closed" <=> r = s
                            /\ session'[r] = "closing" => session[r] = "closing"
    BY <2>1, <2>2, <2>3
  <2> QED BY <1>1, <1>3, <1>4, <2>1, <2>2, <2>4, HasStep
<1>5. CASE closed /\ Unlock(c) /\ Goes(c, "out", None) /\ UNCHANGED <<spaces, saved, data>>
  <2>1. "out" \in PlaceOf(c) /\ "out" \notin InLock /\ "out" \notin Loading \cup Ending
    BY <1>2 DEF PlaceOf, InLock, Loading, Ending
  <2>2. /\ at' \in [Caller -> Place] /\ of' \in [Caller -> Space \cup {None}]
        /\ at'[c] = "out" /\ of'[c] = None
        /\ \A d \in Caller : d # c => at'[d] = at[d] /\ of'[d] = of[d]
        /\ \A d \in Caller : at'[d] \in PlaceOf(d)
        /\ \A t \in Tabs : at'[t] \in {"in", "dropped", "detaching"} => of'[t] # None
    BY <1>2, <1>5, <2>1, GoesStep DEF RegistryInv
  <2>3. LockInv' /\ entry' \in Lock \cup {None} /\ queue' \in [Lock -> Seq(Caller)]
    BY <1>2, <1>5, <2>1, UnlockStep DEF RegistryInv
  <2>4. /\ loaded' \in [Visitor -> [Part -> Number \cup {Refused}]]
        /\ \A r \in Part : r # 1 => \A d \in Visitor : loaded'[d][r] # Refused
    <3>1. Fresh \in [Part -> Number \cup {Refused}] /\ \A r \in Part : Fresh[r] # Refused
      BY ChangesAssumption DEF Fresh, Number, Refused
    <3> QED BY <1>1, <3>1 DEF RegistryInv, Types, TypeOK
  <2>5. Types'
    BY <1>1, <1>5, <2>2, <2>3, <2>4 DEF RegistryInv, Types, TypeOK, spaces, data, PlaceOf
  <2>6. JobInv'
    <3>1. at[c] \notin AtSave
      BY <1>1 DEF AtSave
    <3> QED BY <1>1, <2>2, <3>1, JobsStay DEF RegistryInv
  <2>7. ShutdownInv'
    BY <1>1, <1>2, <1>5, <2>2, Names DEF RegistryInv, ShutdownInv, spaces
  <2>8. SpaceInv'
    BY <1>1, <1>2, <1>5, <2>1, <2>2, Names DEF RegistryInv, SpaceInv, spaces
  <2> QED BY <2>3, <2>5, <2>6, <2>7, <2>8 DEF RegistryInv
<1> QED BY <1>4, <1>5 DEF Publishes

\* A visitor or the periodic task goes on, and nothing of the space changes.
LEMMA MoveStep ==
  ASSUME RegistryInv, NEW c \in Caller, c # "shutdown", at[c] \notin AtSave \cup {"closing", "ended"},
         NEW p \in PlaceOf(c), NEW x \in Space \cup {None}, Goes(c, p, x),
         p \in {"in", "dropped", "detaching"} => x # None,
         p \in Loading => live = None,
         p \in Ending => x = live /\ live # None /\ tabs[live] = {},
         p = "ended" => closed,
         c = "sweep" /\ p = "queued" => x # None,
         LockInv', entry' \in Lock \cup {None}, queue' \in [Lock -> Seq(Caller)],
         JobInv', jobs' \in [Space -> Seq(Caller)],
         loaded' \in [Visitor -> [Part -> Number \cup {Refused}]],
         \A r \in Part : r # 1 => \A d \in Visitor : loaded'[d][r] # Refused,
         UNCHANGED <<spaces, saved, write, stored, data, closed, mix>>
  PROVE  RegistryInv'
<1>1. /\ at' \in [Caller -> Place] /\ of' \in [Caller -> Space \cup {None}]
      /\ at'[c] = p /\ of'[c] = x
      /\ \A d \in Caller : d # c => at'[d] = at[d] /\ of'[d] = of[d]
      /\ \A d \in Caller : at'[d] \in PlaceOf(d)
      /\ \A t \in Tabs : at'[t] \in {"in", "dropped", "detaching"} => of'[t] # None
  BY GoesStep DEF RegistryInv
<1>2. Types'
  BY <1>1 DEF RegistryInv, Types, TypeOK, spaces, data, PlaceOf
<1>3. ShutdownInv'
  BY <1>1, Names DEF RegistryInv, ShutdownInv, spaces
<1>4. SpaceInv'
  BY <1>1, Names DEF RegistryInv, SpaceInv, spaces
<1> QED BY <1>2, <1>3, <1>4 DEF RegistryInv

\* What a move leaves as it is.
LEMMA StayTyped ==
  ASSUME RegistryInv
  PROVE  /\ UNCHANGED loaded =>
              /\ loaded' \in [Visitor -> [Part -> Number \cup {Refused}]]
              /\ \A r \in Part : r # 1 => \A d \in Visitor : loaded'[d][r] # Refused
         /\ UNCHANGED locks => entry' \in Lock \cup {None} /\ queue' \in [Lock -> Seq(Caller)]
         /\ UNCHANGED jobs => jobs' \in [Space -> Seq(Caller)]
BY DEF RegistryInv, Types, TypeOK, locks

\* A move with the lock, and none of a caller of a save.
LEMMA InsideMove ==
  ASSUME RegistryInv, NEW c \in Caller, at[c] \in {"queued"} \cup Loading, Holds(c),
         NEW p \in Loading, NEW x, Goes(c, p, x), UNCHANGED locks
  PROVE  LockInv'
<1>1. \A d \in Caller : /\ at'[d] \in InLock <=> at[d] \in InLock
                        /\ at'[d] = at[d] \/ at[d] # "queued" \/ Holds(d)
                        /\ at'[d] = "queued" => at[d] = "queued"
  BY DEF RegistryInv, Types, TypeOK, Goes, InLock, Loading
<1> QED BY <1>1, LockStays DEF RegistryInv

LEMMA JobsStayBy ==
  ASSUME RegistryInv, NEW c \in Caller, at[c] \notin AtSave, NEW p, NEW x, Goes(c, p, x),
         UNCHANGED <<jobs, write>>
  PROVE  JobInv'
<1>1. \A d \in Caller : at[d] \in AtSave => at'[d] = at[d] /\ of'[d] = of[d]
  BY DEF RegistryInv, Types, TypeOK, Goes
<1> QED BY <1>1, JobsStay DEF RegistryInv

LEMMA CreatesStep ==
  ASSUME RegistryInv, NEW c \in Visitor, Creates(c)
  PROVE  RegistryInv'
<1>1. /\ at[c] = "queued" /\ Holds(c) /\ live = None
      /\ UNCHANGED <<spaces, loaded, saving, data, closed, mix>>
  BY DEF Creates
<1>2. c \in Caller /\ c # "sweep" /\ c # "shutdown" /\ at[c] \notin AtSave \cup {"closing", "ended"}
  BY <1>1, Names DEF AtSave
<1>3. CASE Unlock(c) /\ Goes(c, "out", None)
  <2>1. "out" \in PlaceOf(c) /\ "out" \notin InLock \cup Loading \cup Ending
    BY <1>2 DEF PlaceOf, InLock, Loading, Ending
  <2>2. LockInv' /\ entry' \in Lock \cup {None} /\ queue' \in [Lock -> Seq(Caller)]
    BY <1>2, <1>3, <2>1, UnlockStep DEF RegistryInv
  <2>3. JobInv'
    BY <1>1, <1>2, <1>3, JobsStayBy DEF saving
  <2> QED BY <1>1, <1>2, <1>3, <2>1, <2>2, <2>3, MoveStep, StayTyped DEF saving
<1>4. CASE Goes(c, "loading", None) /\ UNCHANGED locks
  <2>1. "loading" \in PlaceOf(c) /\ "loading" \in Loading /\ "loading" \notin Ending
    BY <1>2 DEF PlaceOf, Loading, Ending
  <2>2. LockInv'
    BY <1>1, <1>2, <1>4, <2>1, InsideMove
  <2>3. JobInv'
    BY <1>1, <1>2, <1>4, JobsStayBy DEF saving
  <2> QED BY <1>1, <1>2, <1>4, <2>1, <2>2, <2>3, MoveStep, StayTyped DEF saving
<1> QED BY <1>3, <1>4 DEF Creates

LEMMA LoadsStep ==
  ASSUME RegistryInv, NEW c \in Visitor, Loads(c) \/ LoadsPreferences(c)
  PROVE  RegistryInv'
<1>1. PICK p \in {"preferences", "loaded"}, r \in {1, 2} :
        /\ at[c] \in {"loading", "preferences"} /\ Goes(c, p, None)
        /\ loaded' = [loaded EXCEPT ![c][r] = stored[r]]
        /\ UNCHANGED <<spaces, locks, saving, data, closed, mix>>
  BY DEF Loads, LoadsPreferences
<1>2. /\ c \in Caller /\ c # "sweep" /\ c # "shutdown" /\ at[c] \in Loading
      /\ at[c] \notin AtSave \cup {"closing", "ended"}
  BY <1>1, Names DEF AtSave, Loading
<1>3. Holds(c) /\ live = None
  BY <1>2, InsideHolds DEF RegistryInv, SpaceInv
<1>4. p \in PlaceOf(c) /\ p \in Loading /\ p \notin Ending
  BY <1>2 DEF PlaceOf, Loading, Ending
<1>5. LockInv' /\ JobInv'
  BY <1>1, <1>2, <1>3, <1>4, InsideMove, JobsStayBy DEF saving
<1>6. /\ loaded' \in [Visitor -> [Part -> Number \cup {Refused}]]
      /\ \A q \in Part : q # 1 => \A d \in Visitor : loaded'[d][q] # Refused
  <2>1. /\ loaded \in [Visitor -> [Part -> Number \cup {Refused}]]
        /\ stored \in [Part -> Number \cup {Refused}]
        /\ \A q \in Part : q # 1 => stored[q] # Refused /\ \A d \in Visitor : loaded[d][q] # Refused
    BY DEF RegistryInv, Types, TypeOK
  <2> DEFINE l == [loaded[c] EXCEPT ![r] = stored[r]]
  <2>2. l \in [Part -> Number \cup {Refused}] /\ \A q \in Part : q # 1 => l[q] # Refused
    <3>1. loaded[c] \in [Part -> Number \cup {Refused}] /\ \A q \in Part : q # 1 => loaded[c][q] # Refused
      BY <2>1
    <3>2. CASE r \in Part
      BY <2>1, <3>1, <3>2
    <3>3. CASE r \notin Part
      <4>1. l = loaded[c]
        BY <3>1, <3>3
      <4> HIDE DEF l
      <4> QED BY <3>1, <4>1
    <3> QED BY <3>2, <3>3
  <2>3. loaded' = [loaded EXCEPT ![c] = l]
    BY <1>1
  <2> HIDE DEF l
  <2> QED BY <2>1, <2>2, <2>3
<1> QED BY <1>1, <1>2, <1>3, <1>4, <1>5, <1>6, MoveStep, StayTyped DEF saving

LEMMA GivesUpStep ==
  ASSUME RegistryInv, NEW c \in Visitor, GivesUp(c)
  PROVE  RegistryInv'
<1>1. /\ at[c] \in Loading /\ Unlock(c) /\ Goes(c, "out", None)
      /\ loaded' = [loaded EXCEPT ![c] = Fresh]
      /\ UNCHANGED <<spaces, saving, data, closed, mix>>
  BY DEF GivesUp, Loading
<1>2. c \in Caller /\ c # "sweep" /\ c # "shutdown" /\ at[c] \notin AtSave \cup {"closing", "ended"}
  BY <1>1, Names DEF AtSave, Loading
<1>3. "out" \in PlaceOf(c) /\ "out" \notin InLock \cup Loading \cup Ending
  BY <1>2 DEF PlaceOf, InLock, Loading, Ending
<1>4. LockInv' /\ entry' \in Lock \cup {None} /\ queue' \in [Lock -> Seq(Caller)]
  BY <1>1, <1>2, <1>3, UnlockStep DEF RegistryInv
<1>5. JobInv'
  BY <1>1, <1>2, JobsStayBy DEF saving
<1>6. /\ loaded' \in [Visitor -> [Part -> Number \cup {Refused}]]
      /\ \A r \in Part : r # 1 => \A d \in Visitor : loaded'[d][r] # Refused
  <2>1. Fresh \in [Part -> Number \cup {Refused}] /\ \A r \in Part : Fresh[r] # Refused
    BY ChangesAssumption DEF Fresh, Number, Refused
  <2> QED BY <1>1, <2>1 DEF RegistryInv, Types, TypeOK
<1> QED BY <1>1, <1>2, <1>3, <1>4, <1>5, <1>6, MoveStep, StayTyped DEF saving

LEMMA SetsAsideStep ==
  ASSUME RegistryInv, NEW c \in Visitor, SetsAside(c)
  PROVE  RegistryInv'
<1>1. /\ stored' = [stored EXCEPT ![1] = 0] /\ loaded' = [loaded EXCEPT ![c][1] = 0]
      /\ UNCHANGED <<spaces, locks, at, of, saved, jobs, write, data, closed, mix>>
  BY DEF SetsAside
<1>2. /\ loaded \in [Visitor -> [Part -> Number \cup {Refused}]]
      /\ stored \in [Part -> Number \cup {Refused}]
      /\ \A q \in Part : q # 1 => stored[q] # Refused /\ \A d \in Visitor : loaded[d][q] # Refused
  BY DEF RegistryInv, Types, TypeOK
<1>3. 0 \in Number
  BY ChangesAssumption DEF Number
<1> DEFINE l == [loaded[c] EXCEPT ![1] = 0]
<1>4. l \in [Part -> Number \cup {Refused}] /\ \A q \in Part : q # 1 => l[q] # Refused
  BY <1>2, <1>3
<1>5. loaded' = [loaded EXCEPT ![c] = l]
  BY <1>1
<1> HIDE DEF l
<1>6. /\ loaded' \in [Visitor -> [Part -> Number \cup {Refused}]]
      /\ stored' \in [Part -> Number \cup {Refused}]
      /\ \A q \in Part : q # 1 => stored'[q] # Refused /\ \A d \in Visitor : loaded'[d][q] # Refused
  BY <1>1, <1>2, <1>3, <1>4, <1>5
<1>7. Types'
  BY <1>1, <1>6 DEF RegistryInv, Types, TypeOK, spaces, locks, data, PlaceOf
<1>8. LockInv' /\ JobInv' /\ ShutdownInv' /\ SpaceInv'
  BY <1>1 DEF RegistryInv, LockInv, JobInv, ShutdownInv, SpaceInv, spaces, locks
<1> QED BY <1>7, <1>8 DEF RegistryInv

LEMMA SaveRunsStep ==
  ASSUME RegistryInv, NEW s \in Space, SaveRuns(s)
  PROVE  RegistryInv'
<1>1. saved \in [Space -> Texts] /\ write[s].text \in Number /\ write[s].ok \in BOOLEAN
  BY DEF RegistryInv, Types, TypeOK
<1>2. CASE SaveBegins(s)
  <2>1. 1 \in 1 .. NParts + 1
    BY PartsAssumption
  <2> QED BY <1>1, <1>2, <2>1, SaveFromStep DEF SaveBegins
<1>3. CASE SaveGoesOn(s)
  <2>1. write[s].part \in Part /\ jobs[s] # <<>>
    BY <1>3 DEF SaveGoesOn, RegistryInv, JobInv
  <2>2. write[s].part + 1 \in 1 .. NParts + 1
    BY <2>1, PartsAssumption DEF Part
  <2>3. saved' \in [Space -> Texts]
    <3>1. [saved[s] EXCEPT ![write[s].part] = write[s].text] \in Texts
      BY <1>1 DEF Texts
    <3> QED BY <1>1, <1>3, <3>1 DEF SaveGoesOn
  <2>4. (write[s].ok /\ write[s].thread = "written") \in BOOLEAN
    OBVIOUS
  <2> QED BY <1>3, <2>1, <2>2, <2>3, <2>4, SaveFromStep DEF SaveGoesOn
<1> QED BY <1>2, <1>3 DEF SaveRuns

LEMMA ThreadStep ==
  ASSUME RegistryInv, NEW s \in Space, Written(s) \/ WriteFails(s)
  PROVE  RegistryInv'
<1>1. PICK th \in {"written", "failed"} :
        /\ write[s].thread = "running" /\ write' = [write EXCEPT ![s].thread = th]
        /\ stored' = [stored EXCEPT ![write[s].part] = write[s].text] \/ UNCHANGED stored
        /\ UNCHANGED <<spaces, locks, callers, saved, jobs, data, closed, mix>>
  BY DEF Written, WriteFails
<1> DEFINE Write == [part : Part \cup {0}, text : Number,
                     thread : {"none", "running", "written", "failed"}, ok : BOOLEAN]
<1>2. write \in [Space -> Write] /\ stored \in [Part -> Number \cup {Refused}]
  BY DEF RegistryInv, Types, TypeOK
<1>3. write[s].part \in Part /\ jobs[s] # <<>> /\ write[s].text \in Number
  BY <1>1, <1>2 DEF RegistryInv, JobInv
<1>4. /\ write' \in [Space -> Write] /\ write'[s].thread = th /\ write'[s].part = write[s].part
      /\ \A r \in Space : r # s => write'[r] = write[r]
  BY <1>1, <1>2
<1>5. write[s].text # Refused
  BY <1>3, ChangesAssumption DEF Number, Refused
<1>6. /\ stored' \in [Part -> Number \cup {Refused}]
      /\ \A p \in Part : p # 1 => stored'[p] # Refused
  BY <1>1, <1>2, <1>3, <1>5 DEF RegistryInv, Types
<1>7. Types'
  BY <1>1, <1>4, <1>6 DEF RegistryInv, Types, TypeOK, spaces, locks, callers, data, PlaceOf
<1>8. JobInv'
  <2>1. \A x \in Space : IF write'[x].thread = "none" THEN write'[x] = Idle
                         ELSE write'[x].part \in Part /\ jobs[x] # <<>>
    <3>1. ASSUME NEW x \in Space, x # s
          PROVE  IF write'[x].thread = "none" THEN write'[x] = Idle
                 ELSE write'[x].part \in Part /\ jobs[x] # <<>>
      BY <1>4, <3>1 DEF RegistryInv, JobInv
    <3> QED BY <1>3, <1>4, <3>1
  <2> QED BY <1>1, <2>1 DEF RegistryInv, JobInv, callers
<1>9. LockInv' /\ ShutdownInv' /\ SpaceInv'
  BY <1>1 DEF RegistryInv, LockInv, ShutdownInv, SpaceInv, spaces, locks, callers
<1> QED BY <1>7, <1>8, <1>9 DEF RegistryInv

LEMMA ChangesStep ==
  ASSUME RegistryInv, NEW s \in Space, NEW p \in Part, Changes(s, p)
  PROVE  RegistryInv'
<1>1. /\ changes < mix.changes /\ changes' = changes + 1
      /\ content' = [content EXCEPT ![s][p] = changes + 1]
      /\ UNCHANGED <<spaces, locks, callers, saving, closed, mix>>
  BY DEF Changes
<1>2. content \in [Space -> Texts] /\ changes \in Number /\ mix.changes \in 0 .. MaxChanges
  BY MixesAssumption DEF RegistryInv, Types, TypeOK
<1>3. changes + 1 \in Number
  BY <1>1, <1>2, ChangesAssumption DEF Number
<1>4. [content[s] EXCEPT ![p] = changes + 1] \in Texts
  BY <1>2, <1>3 DEF Texts
<1>5. content' \in [Space -> Texts]
  BY <1>1, <1>2, <1>4
<1>6. Types'
  BY <1>1, <1>3, <1>5 DEF RegistryInv, Types, TypeOK, spaces, locks, callers, saving, PlaceOf
<1>7. LockInv' /\ JobInv' /\ ShutdownInv' /\ SpaceInv'
  BY <1>1 DEF RegistryInv, LockInv, JobInv, ShutdownInv, SpaceInv, spaces, locks, callers, saving
<1> QED BY <1>6, <1>7 DEF RegistryInv

\* A move of a caller outside the lock.
LEMMA OutsideMove ==
  ASSUME RegistryInv, NEW c \in Caller, at[c] \notin InLock, NEW p, p \notin InLock, NEW x,
         Goes(c, p, x), UNCHANGED locks
  PROVE  LockInv'
<1>1. \A d \in Caller : /\ at'[d] \in InLock <=> at[d] \in InLock
                        /\ at'[d] = at[d] \/ at[d] # "queued" \/ Holds(d)
                        /\ at'[d] = "queued" => at[d] = "queued"
  BY DEF RegistryInv, Types, TypeOK, Goes, InLock
<1> QED BY <1>1, LockStays DEF RegistryInv

\* A tab leaves the hub, and its caller goes to p, outside the lock.
LEMMA LeavesStep ==
  ASSUME RegistryInv, NEW t \in Tabs, at[t] \in {"in", "dropped"},
         NEW p \in {"dropped", "detaching", "out"}, NEW x \in Space \cup {None}, Goes(t, p, x),
         p # "out" => x # None, tabs' = [tabs EXCEPT ![of[t]] = @ \ {t}],
         JobInv', jobs' \in [Space -> Seq(Caller)],
         UNCHANGED <<live, session, locks, loaded, saved, write, stored, data, closed, mix>>
  PROVE  RegistryInv'
<1>1. t \in Caller /\ t # "sweep" /\ t # "shutdown" /\ t \notin Requests
  BY Names, CallersAssumption
<1>2. p \in PlaceOf(t) /\ p \notin InLock \cup Loading \cup Ending /\ at[t] \notin InLock
  BY <1>1 DEF PlaceOf, InLock, Loading, Ending
<1>3. /\ at' \in [Caller -> Place] /\ of' \in [Caller -> Space \cup {None}]
      /\ at'[t] = p /\ of'[t] = x
      /\ \A d \in Caller : d # t => at'[d] = at[d] /\ of'[d] = of[d]
      /\ \A d \in Caller : at'[d] \in PlaceOf(d)
      /\ \A d \in Tabs : at'[d] \in {"in", "dropped", "detaching"} => of'[d] # None
  BY <1>1, <1>2, GoesStep DEF RegistryInv
<1>4. /\ tabs' \in [Space -> SUBSET Tabs]
      /\ \A s \in Space : tabs'[s] \subseteq tabs[s]
  BY DEF RegistryInv, Types, TypeOK
<1>5. Types'
  BY <1>3, <1>4 DEF RegistryInv, Types, TypeOK, locks, data, PlaceOf
<1>6. LockInv'
  BY <1>1, <1>2, OutsideMove
<1>7. ShutdownInv'
  BY <1>1, <1>3, Names DEF RegistryInv, ShutdownInv
<1>8. SpaceInv'
  <2>1. at["sweep"] \in Ending => of["sweep"] \in Space
    BY Names DEF RegistryInv, Types, TypeOK, SpaceInv
  <2>2. \A d \in Caller : /\ at'[d] \in Loading \cup Ending => at'[d] = at[d] /\ of'[d] = of[d]
                          /\ at[d] = "closing" => at'[d] = "closing"
    BY <1>2, <1>3
  <2>3. at'["sweep"] \in Ending => tabs'[of'["sweep"]] = {}
    BY <1>4, <2>1, <2>2, Names DEF RegistryInv, SpaceInv
  <2> QED BY <1>4, <2>2, <2>3 DEF RegistryInv, SpaceInv
<1> QED BY <1>5, <1>6, <1>7, <1>8 DEF RegistryInv

LEMMA DroppedStep ==
  ASSUME RegistryInv, NEW t \in Tabs, Dropped(t)
  PROVE  RegistryInv'
<1>1. /\ at[t] = "in" /\ Goes(t, "dropped", of[t]) /\ tabs' = [tabs EXCEPT ![of[t]] = @ \ {t}]
      /\ UNCHANGED <<live, session, locks, loaded, saving, data, closed, mix>>
  BY DEF Dropped
<1>2. t \in Caller /\ at[t] \notin AtSave
  BY <1>1, Names DEF AtSave
<1>3. of[t] \in Space \cup {None} /\ of[t] # None
  BY <1>1, <1>2 DEF RegistryInv, Types, TypeOK
<1>4. JobInv'
  BY <1>1, <1>2, JobsStayBy DEF saving
<1> QED BY <1>1, <1>3, <1>4, LeavesStep, StayTyped DEF saving

LEMMA DetachesStep ==
  ASSUME RegistryInv, NEW t \in Tabs, Detaches(t)
  PROVE  RegistryInv'
<1>1. /\ at[t] \in {"in", "dropped"} /\ tabs' = [tabs EXCEPT ![of[t]] = @ \ {t}]
      /\ UNCHANGED <<live, session, locks, loaded, saved, write, stored, data, closed, mix>>
      /\ \/ Goes(t, "detaching", of[t]) /\ AskSave(t, of[t])
         \/ Goes(t, "out", None) /\ UNCHANGED jobs
  BY DEF Detaches
<1>2. t \in Caller /\ at[t] \notin AtSave /\ t \notin Requests /\ t # "sweep" /\ t # "shutdown"
  BY <1>1, Names, CallersAssumption DEF AtSave
<1>3. of[t] \in Space
  BY <1>1, <1>2 DEF RegistryInv, Types, TypeOK
<1>4. CASE Goes(t, "detaching", of[t]) /\ AskSave(t, of[t])
  <2>1. "detaching" \in PlaceOf(t) /\ "detaching" \in AtSave
    BY <1>2 DEF PlaceOf, AtSave
  <2>2. at'[t] = "detaching" /\ of'[t] = of[t] /\ \A d \in Caller : d # t => at'[d] = at[d] /\ of'[d] = of[d]
    BY <1>2, <1>4 DEF Goes, RegistryInv, Types, TypeOK
  <2>3. JobInv' /\ jobs' \in [Space -> Seq(Caller)]
    BY <1>1, <1>2, <1>3, <1>4, <2>1, <2>2, AskSaveStep DEF RegistryInv
  <2> QED BY <1>1, <1>3, <1>4, <2>3, LocksExist, LeavesStep
<1>5. CASE Goes(t, "out", None) /\ UNCHANGED jobs
  <2>1. JobInv'
    BY <1>1, <1>2, <1>5, JobsStayBy
  <2> QED BY <1>1, <1>5, <2>1, LeavesStep, StayTyped
<1> QED BY <1>1, <1>4, <1>5

LEMMA PassBeginsStep ==
  ASSUME RegistryInv, PassBegins
  PROVE  RegistryInv'
<1>1. /\ at["sweep"] = "out" /\ live # None /\ AskSave("sweep", live) /\ Goes("sweep", "autosaving", live)
      /\ UNCHANGED <<spaces, locks, loaded, saved, write, stored, data, closed, mix>>
  BY DEF PassBegins
<1>2. live \in Space /\ at["sweep"] \notin AtSave \cup {"closing", "ended"} \cup InLock
  BY <1>1 DEF RegistryInv, Types, TypeOK, AtSave, InLock, Loading, Ending
<1>3. /\ "autosaving" \in PlaceOf("sweep") /\ "autosaving" \in AtSave
      /\ "autosaving" \notin InLock \cup Loading \cup Ending
  BY DEF PlaceOf, AtSave, InLock, Loading, Ending
<1>4. /\ at'["sweep"] = "autosaving" /\ of'["sweep"] = live
      /\ \A d \in Caller : d # "sweep" => at'[d] = at[d] /\ of'[d] = of[d]
  BY <1>1, Names DEF Goes, RegistryInv, Types, TypeOK
<1>5. JobInv' /\ jobs' \in [Space -> Seq(Caller)]
  BY <1>1, <1>2, <1>3, <1>4, Names, AskSaveStep DEF RegistryInv
<1>6. LockInv'
  BY <1>1, <1>2, <1>3, Names, OutsideMove
<1> QED BY <1>1, <1>2, <1>3, <1>5, <1>6, Names, MoveStep, StayTyped

LEMMA SweepOutStep ==
  ASSUME RegistryInv, SweepEnds \/ Decides
  PROVE  RegistryInv'
<1>1. at["sweep"] \in {"out", "deciding"} /\ UNCHANGED <<spaces, loaded, saving, data, closed, mix>>
  BY DEF SweepEnds, Decides
<1>2. at["sweep"] \notin AtSave \cup {"closing", "ended"} \cup InLock
  BY <1>1 DEF AtSave, InLock, Loading, Ending
<1>3. ASSUME NEW p \in {"out", "ended"}, p = "ended" => closed, Goes("sweep", p, None), UNCHANGED locks
      PROVE  RegistryInv'
  <2>1. p \in PlaceOf("sweep") /\ p \notin InLock \cup Loading \cup Ending
    BY DEF PlaceOf, InLock, Loading, Ending
  <2>2. JobInv'
    BY <1>1, <1>2, <1>3, Names, JobsStayBy DEF saving
  <2>3. LockInv'
    BY <1>2, <1>3, <2>1, Names, OutsideMove
  <2> QED BY <1>1, <1>2, <1>3, <2>1, <2>2, <2>3, Names, MoveStep, StayTyped DEF saving
<1>4. CASE live # None /\ Ask("sweep") /\ Goes("sweep", "queued", live)
  <2>1. "queued" \in PlaceOf("sweep") /\ "queued" \notin Loading \cup Ending /\ live \in Space
    BY <1>4 DEF PlaceOf, Loading, Ending, RegistryInv, Types, TypeOK
  <2>2. JobInv'
    BY <1>1, <1>2, <1>4, Names, JobsStayBy DEF saving
  <2>3. LockInv' /\ entry' \in Lock /\ queue' \in [Lock -> Seq(Caller)]
    BY <1>2, <1>4, Names, AskStep DEF RegistryInv
  <2> QED BY <1>1, <1>2, <1>4, <2>1, <2>2, <2>3, Names, MoveStep, StayTyped DEF saving
<1> QED BY <1>3, <1>4 DEF SweepEnds, Decides

\* The periodic task gives a release up.
LEMMA PassEndsStep ==
  ASSUME RegistryInv, at["sweep"] \in {"queued", "unstored"}, PassEnds,
         UNCHANGED <<spaces, loaded, saving, data, closed, mix>>
  PROVE  RegistryInv'
<1>1. at["sweep"] \notin AtSave \cup {"closing", "ended"}
  BY DEF AtSave
<1>2. "out" \in PlaceOf("sweep") /\ "out" \notin InLock \cup Loading \cup Ending
  BY DEF PlaceOf, InLock, Loading, Ending
<1>3. LockInv' /\ entry' \in Lock \cup {None} /\ queue' \in [Lock -> Seq(Caller)]
  BY <1>2, Names, UnlockStep DEF PassEnds, RegistryInv
<1>4. JobInv'
  BY <1>1, Names, JobsStayBy DEF PassEnds, saving
<1> QED BY <1>1, <1>2, <1>3, <1>4, Names, MoveStep, StayTyped DEF PassEnds, saving

LEMMA ReleaseLooksStep ==
  ASSUME RegistryInv, ReleaseLooks
  PROVE  RegistryInv'
<1> DEFINE s == of["sweep"]
<1>1. /\ at["sweep"] = "queued" /\ Holds("sweep")
      /\ UNCHANGED <<spaces, loaded, saved, write, stored, data, closed, mix>>
  BY DEF ReleaseLooks
<1>2. CASE StillIdle(s) /\ AskSave("sweep", s) /\ Goes("sweep", "saving", s) /\ UNCHANGED locks
  <2>1. s \in Space /\ live = s /\ tabs[live] = {} /\ live # None
    BY <1>1, <1>2, Names DEF StillIdle, CanBeIdle, RegistryInv, Types, TypeOK, ShutdownInv
  <2>2. /\ "saving" \in PlaceOf("sweep") /\ "saving" \in AtSave /\ "saving" \in InLock
        /\ "saving" \notin Loading
    BY DEF PlaceOf, AtSave, InLock, Loading, Ending
  <2>3. at["sweep"] \notin AtSave \cup {"closing", "ended"} /\ at["sweep"] \in InLock
    BY <1>1 DEF AtSave, InLock
  <2>4. /\ at'["sweep"] = "saving" /\ of'["sweep"] = s
        /\ \A d \in Caller : d # "sweep" => at'[d] = at[d] /\ of'[d] = of[d]
    BY <1>2, Names DEF Goes, RegistryInv, Types, TypeOK
  <2> HIDE DEF s
  <2>5. JobInv' /\ jobs' \in [Space -> Seq(Caller)]
    BY <1>1, <1>2, <2>1, <2>2, <2>3, <2>4, Names, AskSaveStep DEF RegistryInv
  <2>6. LockInv'
    <3>1. \A d \in Caller : /\ at'[d] \in InLock <=> at[d] \in InLock
                            /\ at'[d] = at[d] \/ at[d] # "queued" \/ Holds(d)
                            /\ at'[d] = "queued" => at[d] = "queued"
      BY <1>1, <2>2, <2>3, <2>4
    <3> QED BY <1>2, <3>1, LockStays DEF RegistryInv
  <2> QED BY <1>1, <1>2, <2>1, <2>2, <2>3, <2>5, <2>6, Names, MoveStep, StayTyped
<1>3. CASE PassEnds /\ UNCHANGED jobs
  BY <1>1, <1>3, PassEndsStep DEF saving
<1> QED BY <1>2, <1>3 DEF ReleaseLooks

LEMMA ClosesStep ==
  ASSUME RegistryInv, NEW c \in {"sweep", "shutdown"}, Closes(c)
  PROVE  RegistryInv'
<1>1. /\ at[c] \in {"stored", "unstored"} /\ session' = [session EXCEPT ![of[c]] = "closing"]
      /\ Goes(c, "closing", of[c])
      /\ UNCHANGED <<live, tabs, locks, loaded, saving, data, closed, mix>>
  BY DEF Closes, MayClose
<1>2. c \in Caller /\ at[c] \in Ending /\ at[c] \notin AtSave
  BY <1>1, Names DEF Ending, AtSave
<1>3. of[c] = live /\ live \in Space
  BY <1>2 DEF RegistryInv, SpaceInv, Types, TypeOK
<1>4. "closing" \in PlaceOf(c) /\ "closing" \in Ending /\ "closing" \in InLock /\ "closing" \notin Loading
  BY Names DEF PlaceOf, InLock, Loading, Ending
<1>5. /\ at' \in [Caller -> Place] /\ of' \in [Caller -> Space \cup {None}]
      /\ at'[c] = "closing" /\ of'[c] = of[c]
      /\ \A d \in Caller : d # c => at'[d] = at[d] /\ of'[d] = of[d]
      /\ \A d \in Caller : at'[d] \in PlaceOf(d)
      /\ \A d \in Tabs : at'[d] \in {"in", "dropped", "detaching"} => of'[d] # None
  BY <1>1, <1>2, <1>3, <1>4, GoesStep DEF RegistryInv
<1>6. Types'
  BY <1>1, <1>3, <1>5 DEF RegistryInv, Types, TypeOK, locks, saving, data, PlaceOf
<1>7. LockInv'
  <2>1. \A d \in Caller : /\ at'[d] \in InLock <=> at[d] \in InLock
                          /\ at'[d] = at[d] \/ at[d] # "queued" \/ Holds(d)
                          /\ at'[d] = "queued" => at[d] = "queued"
    BY <1>1, <1>2, <1>4, <1>5 DEF InLock
  <2> QED BY <1>1, <2>1, LockStays DEF RegistryInv
<1>8. JobInv'
  BY <1>1, <1>2, JobsStayBy DEF saving
<1>9. ShutdownInv'
  BY <1>1, <1>3, <1>5, Names DEF RegistryInv, ShutdownInv
<1>10. SpaceInv'
  <2>1. /\ session'[live] = "closing" /\ \A s \in Space : s # live => session'[s] = session[s]
    BY <1>1, <1>3 DEF RegistryInv, Types, TypeOK
  <2>2. \A d \in Caller : /\ at'[d] \in Loading => at[d] \in Loading
                          /\ at[d] = "closing" => at'[d] = "closing"
                          /\ at'[d] \in Ending => at[d] \in Ending /\ of'[d] = of[d]
    BY <1>2, <1>4, <1>5
  <2> QED BY <1>1, <1>2, <1>3, <1>5, <2>1, <2>2, Names DEF RegistryInv, SpaceInv
<1> QED BY <1>6, <1>7, <1>8, <1>9, <1>10 DEF RegistryInv

LEMMA DropsStep ==
  ASSUME RegistryInv, NEW c \in {"sweep", "shutdown"}, Drops(c)
  PROVE  RegistryInv'
<1> DEFINE p == IF c = "sweep" THEN "out" ELSE "ended"
<1>1. /\ at[c] = "closing" /\ session' = [session EXCEPT ![of[c]] = "closed"]
      /\ live' = (IF live = of[c] THEN None ELSE live) /\ tabs' = [tabs EXCEPT ![of[c]] = {}]
      /\ Unlock(c) /\ Goes(c, p, None)
      /\ UNCHANGED <<loaded, saving, data, closed, mix>>
  BY DEF Drops
<1>2. c \in Caller /\ at[c] \in Ending /\ at[c] \notin AtSave
  BY <1>1, Names DEF Ending, AtSave
<1>3. of[c] = live /\ live \in Space /\ live' = None
  BY <1>1, <1>2 DEF RegistryInv, SpaceInv, Types, TypeOK
<1>4. p \in PlaceOf(c) /\ p \notin InLock \cup Loading \cup Ending /\ p \in {"out", "ended"}
  BY Names DEF PlaceOf, InLock, Loading, Ending
<1>5. (c = "sweep" => p = "out") /\ (c = "shutdown" => p = "ended")
  BY Names
<1> HIDE DEF p
<1>6. /\ at' \in [Caller -> Place] /\ of' \in [Caller -> Space \cup {None}]
      /\ at'[c] = p /\ of'[c] = None
      /\ \A d \in Caller : d # c => at'[d] = at[d] /\ of'[d] = of[d]
      /\ \A d \in Caller : at'[d] \in PlaceOf(d)
      /\ \A d \in Tabs : at'[d] \in {"in", "dropped", "detaching"} => of'[d] # None
  BY <1>1, <1>2, <1>4, GoesStep DEF RegistryInv
<1>7. LockInv' /\ entry' \in Lock \cup {None} /\ queue' \in [Lock -> Seq(Caller)]
  BY <1>1, <1>2, <1>4, UnlockStep DEF RegistryInv
<1>8. JobInv'
  BY <1>1, <1>2, JobsStayBy DEF saving
<1>9. /\ session' \in [Space -> {"open", "closing", "closed"}] /\ session'[live] = "closed"
      /\ tabs' \in [Space -> SUBSET Tabs] /\ tabs'[live] = {}
      /\ \A s \in Space : s # live => session'[s] = session[s] /\ tabs'[s] = tabs[s]
  BY <1>1, <1>3 DEF RegistryInv, Types, TypeOK
<1>10. Types'
  BY <1>1, <1>3, <1>6, <1>7, <1>9 DEF RegistryInv, Types, TypeOK, saving, data, PlaceOf
<1>11. \A d \in Caller : at[d] \in Loading \cup Ending => d = c
  <2>1. Holds(c)
    BY <1>2, InsideHolds DEF RegistryInv
  <2> QED BY <1>2, <2>1, HolderIsAlone DEF RegistryInv
<1>12. ShutdownInv'
  <2>1. at["shutdown"] = "queued" => at["sweep"] = "ended"
    BY DEF RegistryInv, ShutdownInv
  <2>2. at["shutdown"] # "queued"
    BY <1>1, <2>1, Names
  <2> QED BY <1>1, <1>3, <1>5, <1>6, <2>2, Names DEF RegistryInv, ShutdownInv
<1>13. SpaceInv'
  <2>1. \A d \in Caller : at'[d] \notin Loading \cup Ending
    BY <1>4, <1>6, <1>11
  <2>2. \A s \in Space : session'[s] = "closed" /\ tabs'[s] = {}
    BY <1>3, <1>9 DEF RegistryInv, SpaceInv
  <2> QED BY <1>3, <2>1, <2>2, LocksExist, Names DEF SpaceInv
<1> QED BY <1>7, <1>8, <1>10, <1>12, <1>13 DEF RegistryInv

\* The shutdown goes on, and nothing of the spaces changes.
LEMMA ShutdownMoves ==
  ASSUME RegistryInv, NEW p \in PlaceOf("shutdown"), NEW x \in Space \cup {None},
         Goes("shutdown", p, x), at["shutdown"] \notin AtSave \cup Ending,
         p \notin {"out", "in", "dropped", "detaching"}, closed',
         p # "stopping" => at["sweep"] = "ended",
         p = "queued" \/ p \in Ending => x = live /\ live # None,
         p = "ended" => live = None,
         LockInv', entry' \in Lock \cup {None}, queue' \in [Lock -> Seq(Caller)],
         JobInv', jobs' \in [Space -> Seq(Caller)], closed' \in BOOLEAN,
         UNCHANGED <<spaces, loaded, saved, write, stored, data, mix>>
  PROVE  RegistryInv'
<1>1. /\ at' \in [Caller -> Place] /\ of' \in [Caller -> Space \cup {None}]
      /\ at'["shutdown"] = p /\ of'["shutdown"] = x
      /\ \A d \in Caller : d # "shutdown" => at'[d] = at[d] /\ of'[d] = of[d]
      /\ \A d \in Caller : at'[d] \in PlaceOf(d)
      /\ \A d \in Tabs : at'[d] \in {"in", "dropped", "detaching"} => of'[d] # None
  BY GoesStep, Names DEF RegistryInv
<1>2. p \notin Loading
  BY Names DEF PlaceOf, Loading, Ending
<1>3. Types'
  BY <1>1 DEF RegistryInv, Types, TypeOK, spaces, data, PlaceOf
<1>4. ShutdownInv'
  BY <1>1, Names DEF RegistryInv, ShutdownInv, spaces
<1>5. SpaceInv'
  <2>1. \A d \in Caller : /\ at'[d] \in Loading => at[d] \in Loading
                          /\ at[d] = "closing" => at'[d] = "closing"
                          /\ at'[d] \in Ending => of'[d] = live /\ live # None
    BY <1>1, <1>2 DEF RegistryInv, SpaceInv, Ending
  <2> QED BY <1>1, <2>1, Names DEF RegistryInv, SpaceInv, spaces
<1> QED BY <1>3, <1>4, <1>5 DEF RegistryInv

LEMMA ShutdownBeginsStep ==
  ASSUME RegistryInv, ShutdownBegins
  PROVE  RegistryInv'
<1>1. /\ closed' = TRUE /\ Goes("shutdown", "stopping", None)
      /\ UNCHANGED <<spaces, locks, loaded, saving, data, mix>>
  BY DEF ShutdownBegins
<1>2. at["shutdown"] = "out"
  BY DEF ShutdownBegins, RegistryInv, ShutdownInv
<1>3. /\ at["shutdown"] \notin AtSave \cup Ending /\ at["shutdown"] \notin InLock
      /\ "stopping" \notin InLock \cup Ending /\ "stopping" \in PlaceOf("shutdown")
  BY <1>2, Names DEF AtSave, InLock, Loading, Ending, PlaceOf
<1>4. LockInv' /\ JobInv'
  BY <1>1, <1>3, Names, OutsideMove, JobsStayBy DEF saving
<1> QED BY <1>1, <1>3, <1>4, ShutdownMoves, StayTyped DEF saving

LEMMA ShutdownListsStep ==
  ASSUME RegistryInv, ShutdownLists
  PROVE  RegistryInv'
<1>1. /\ at["shutdown"] = "stopping" /\ at["sweep"] = "ended"
      /\ UNCHANGED <<spaces, loaded, saving, data, closed, mix>>
  BY DEF ShutdownLists
<1>2. closed
  BY <1>1 DEF RegistryInv, ShutdownInv
<1>3. at["shutdown"] \notin AtSave \cup Ending \cup InLock
  BY <1>1 DEF AtSave, InLock, Loading, Ending
<1>4. CASE live = None /\ Goes("shutdown", "ended", None) /\ UNCHANGED locks
  <2>1. "ended" \notin InLock \cup Ending /\ "ended" \in PlaceOf("shutdown")
    BY Names DEF InLock, Loading, Ending, PlaceOf
  <2>2. LockInv' /\ JobInv'
    BY <1>1, <1>3, <1>4, <2>1, Names, OutsideMove, JobsStayBy DEF saving
  <2> QED BY <1>1, <1>2, <1>3, <1>4, <2>1, <2>2, ShutdownMoves, StayTyped DEF saving
<1>5. CASE live # None /\ Goes("shutdown", "queued", live) /\ Ask("shutdown")
  <2>1. "queued" \in PlaceOf("shutdown") /\ live \in Space
    BY <1>5, Names DEF PlaceOf, RegistryInv, Types, TypeOK
  <2>2. LockInv' /\ entry' \in Lock /\ queue' \in [Lock -> Seq(Caller)]
    BY <1>3, <1>5, Names, AskStep DEF RegistryInv
  <2>3. JobInv'
    BY <1>1, <1>3, <1>5, Names, JobsStayBy DEF saving
  <2> QED BY <1>1, <1>2, <1>3, <1>5, <2>1, <2>2, <2>3, ShutdownMoves, StayTyped DEF saving
<1> QED BY <1>4, <1>5 DEF ShutdownLists

LEMMA ShutdownSavesStep ==
  ASSUME RegistryInv, ShutdownSaves
  PROVE  RegistryInv'
<1>1. /\ at["shutdown"] = "queued" /\ Holds("shutdown")
      /\ AskSave("shutdown", of["shutdown"]) /\ Goes("shutdown", "saving", of["shutdown"])
      /\ UNCHANGED <<spaces, locks, loaded, saved, write, stored, data, closed, mix>>
  BY DEF ShutdownSaves
<1>2. of["shutdown"] = live /\ live # None /\ live \in Space /\ closed /\ at["sweep"] = "ended"
  BY <1>1 DEF RegistryInv, ShutdownInv, Types, TypeOK
<1>3. /\ "saving" \in PlaceOf("shutdown") /\ "saving" \in AtSave /\ "saving" \in InLock
      /\ at["shutdown"] \notin AtSave \cup Ending /\ at["shutdown"] \in InLock
  BY <1>1, Names DEF PlaceOf, AtSave, InLock, Loading, Ending
<1>4. /\ at'["shutdown"] = "saving" /\ of'["shutdown"] = live
      /\ \A d \in Caller : d # "shutdown" => at'[d] = at[d] /\ of'[d] = of[d]
  BY <1>1, <1>2, Names DEF Goes, RegistryInv, Types, TypeOK
<1>5. JobInv' /\ jobs' \in [Space -> Seq(Caller)]
  BY <1>1, <1>2, <1>3, <1>4, Names, AskSaveStep DEF RegistryInv
<1>6. LockInv'
  <2>1. \A d \in Caller : /\ at'[d] \in InLock <=> at[d] \in InLock
                          /\ at'[d] = at[d] \/ at[d] # "queued" \/ Holds(d)
                          /\ at'[d] = "queued" => at[d] = "queued"
    BY <1>1, <1>3, <1>4
  <2> QED BY <1>1, <2>1, LockStays DEF RegistryInv
<1> QED BY <1>1, <1>2, <1>3, <1>5, <1>6, ShutdownMoves, StayTyped

LEMMA RegistryKept == RegistryInv /\ [Next]_vars => RegistryInv'
<1> SUFFICES ASSUME RegistryInv, [Next]_vars PROVE RegistryInv'
  OBVIOUS
<1>1. CASE Next
  <2>1. ASSUME NEW c \in Visitor, Arrives(c) \/ Visits(c) \/ GivesUp(c) PROVE RegistryInv'
    BY <2>1, ArrivesStep, FindsStep, CreatesStep, LoadsStep, GivesUpStep, SetsAsideStep,
       PublishesStep DEF Visits
  <2>2. ASSUME NEW t \in Tabs, Dropped(t) \/ Detaches(t) PROVE RegistryInv'
    BY <2>2, DroppedStep, DetachesStep
  <2>3. ASSUME NEW s \in Space, SaveRuns(s) \/ Written(s) \/ WriteFails(s) PROVE RegistryInv'
    BY <2>3, SaveRunsStep, ThreadStep
  <2>4. ASSUME NEW s \in Space, NEW p \in Part, Changes(s, p) PROVE RegistryInv'
    BY <2>4, ChangesStep
  <2>5. ASSUME PassBegins \/ PeriodicTask PROVE RegistryInv'
    <3>1. CASE ReleaseGivesUp
      BY <3>1, PassEndsStep DEF ReleaseGivesUp
    <3> QED BY <2>5, <3>1, PassBeginsStep, SweepOutStep, ReleaseLooksStep, ClosesStep, DropsStep
            DEF PeriodicTask
  <2>6. ASSUME ShutdownBegins \/ ShutdownRuns PROVE RegistryInv'
    BY <2>6, ShutdownBeginsStep, ShutdownListsStep, ShutdownSavesStep, ClosesStep, DropsStep
       DEF ShutdownRuns
  <2> QED BY <1>1, <2>1, <2>2, <2>3, <2>4, <2>5, <2>6 DEF Next
<1>2. CASE UNCHANGED vars
  BY <1>2 DEF vars, RegistryInv, Types, TypeOK, LockInv, JobInv, ShutdownInv, SpaceInv, spaces, locks,
              callers, saving, data, PlaceOf
<1> QED BY <1>1, <1>2

LEMMA RegistryHolds == Spec => []RegistryInv
<1>1. Init => RegistryInv
  BY RegistryInit
<1>2. RegistryInv /\ [Next]_vars => RegistryInv'
  BY RegistryKept
<1> QED BY <1>1, <1>2, PTL DEF Spec

-----------------------------------------------------------------------------

\* Every variable keeps its type, whatever visitors, saves, releases and a shutdown interleave
\* (SpaceRegistry of spaces.py).
THEOREM TypesHold == Spec => []TypeOK
<1>1. RegistryInv => TypeOK
  BY DEF RegistryInv, Types
<1> QED BY <1>1, RegistryHolds, PTL

\* At most one space lives for a key, no tab is left with one that was released, and none
\* outlives a shutdown (_create, release_idle and aclose under the lock of _keyed).
THEOREM OneSpace == Spec => []OneSpacePerKey
<1>1. RegistryInv => OneSpacePerKey
  <2> SUFFICES ASSUME RegistryInv PROVE OneSpacePerKey
    OBVIOUS
  <2>1. ASSUME NEW s \in Space, tabs[s] # {} PROVE session[s] = "open" \/ closed
    <3>1. live = s /\ session[s] # "closed"
      BY <2>1 DEF RegistryInv, SpaceInv
    <3>2. CASE session[s] = "closing"
      <4>1. PICK c \in Caller : at[c] = "closing"
        BY <3>2 DEF RegistryInv, SpaceInv
      <4>2. at[c] \in PlaceOf(c) /\ at[c] \in Ending
        BY <4>1 DEF RegistryInv, Types, Ending
      <4>3. CASE c = "sweep"
        BY <2>1, <3>1, <4>2, <4>3 DEF RegistryInv, SpaceInv
      <4>4. CASE c = "shutdown"
        BY <4>1, <4>4 DEF RegistryInv, ShutdownInv
      <4>5. c = "sweep" \/ c = "shutdown"
        BY <4>1, <4>2 DEF PlaceOf, Loading
      <4> QED BY <4>3, <4>4, <4>5
    <3>3. session[s] \in {"open", "closing", "closed"}
      BY DEF RegistryInv, Types, TypeOK
    <3> QED BY <3>1, <3>2, <3>3
  <2> QED BY <2>1 DEF RegistryInv, SpaceInv, ShutdownInv, OneSpacePerKey
<1> QED BY <1>1, RegistryHolds, PTL

-----------------------------------------------------------------------------
(* Without drops, every step keeps SaveInv.                                *)

LEMMA GoesAt ==
  ASSUME RegistryInv, NEW c \in Caller, NEW p, NEW x, Goes(c, p, x)
  PROVE  /\ at'[c] = p /\ of'[c] = x
         /\ \A d \in Caller : d # c => at'[d] = at[d] /\ of'[d] = of[d]
BY DEF RegistryInv, Types, TypeOK, Goes

\* With a live space there is no visitor that creates one.
LEMMA NoneLoads ==
  ASSUME RegistryInv, ~HubDrops, SaveInv, NEW s \in Space, jobs[s] # <<>>
  PROVE  \A c \in Caller : at[c] \notin Loading
BY LocksExist DEF RegistryInv, SpaceInv, SaveInv, SavesInOrder

\* A caller goes on, and neither the space nor its saves change.
LEMMA SaveStays ==
  ASSUME RegistryInv, ~HubDrops, SaveInv, NEW c \in Caller, NEW p, NEW x, Goes(c, p, x),
         p \notin {"in", "dropped", "saving"}, c = "shutdown" => at[c] # "ended",
         p \in {"stored", "unstored", "closing"} => at[c] \in {"stored", "unstored", "closing"},
         p \in Loading => at[c] \in Loading \/ ~closed,
         closed => closed', ReadInv',
         UNCHANGED <<live, tabs, saved, jobs, write, stored, data, mix>>
  PROVE  SaveInv'
<1>1. /\ at'[c] = p /\ of'[c] = x
      /\ \A d \in Caller : d # c => at'[d] = at[d] /\ of'[d] = of[d]
  BY GoesAt
<1>2. SavesInOrder'
  <2>1. \A t \in Tabs : /\ at'[t] # "dropped"
                        /\ at'[t] = "in" => t \in tabs[of'[t]] \/ at'["shutdown"] = "ended"
    BY <1>1, Names DEF SaveInv, SavesInOrder
  <2>2. \A s \in Space : jobs[s] # <<>> =>
          live = s \/ (live = None /\ closed' /\ \A d \in Caller : at'[d] \notin Loading)
    BY <1>1 DEF SaveInv, SavesInOrder
  <2> QED BY <1>1, <2>1, <2>2, Names DEF SaveInv, SavesInOrder
<1>3. StoredInv'
  BY DEF SaveInv, StoredInv, Kept, data
<1> QED BY <1>2, <1>3 DEF SaveInv

\* A caller asks for a save of the live space.
LEMMA SaveAsked ==
  ASSUME RegistryInv, ~HubDrops, SaveInv, NEW c \in Caller, NEW p \in AtSave, Goes(c, p, live),
         at[c] \notin AtSave, c = "shutdown" => at[c] # "ended",
         live \in Space, AskSave(c, live), at["sweep"] \notin Ending,
         \A t \in Tabs : t # c => \A s \in Space : t \in tabs[s] => t \in tabs'[s],
         UNCHANGED <<live, loaded, saved, write, stored, data, closed, mix>>
  PROVE  SaveInv'
<1>1. /\ at'[c] = p /\ of'[c] = live
      /\ \A d \in Caller : d # c => at'[d] = at[d] /\ of'[d] = of[d]
  BY GoesAt
<1> DEFINE n == Len(jobs[live])
<1>2. /\ jobs[live] \in Seq(Caller) /\ n \in Nat /\ Len(jobs'[live]) = n + 1
      /\ \A i \in 1 .. n : jobs'[live][i] = jobs[live][i] /\ jobs[live][i] # c
      /\ \A s \in Space : s # live => jobs'[s] = jobs[s]
  BY DEF AskSave, RegistryInv, Types, TypeOK, JobInv
<1>3. p \notin {"in", "dropped", "stored", "unstored", "closing", "preferences", "loaded"} /\ p \notin Loading
  BY DEF AtSave, Loading
<1>4. \A s \in Space : jobs[s] # <<>> => s = live
  BY LocksExist DEF SaveInv, SavesInOrder
<1>5. SavesInOrder'
  <2>1. ASSUME NEW t \in Tabs
        PROVE  /\ at'[t] # "dropped"
               /\ at'[t] = "in" => t \in tabs'[of'[t]] \/ at'["shutdown"] = "ended"
    <3>1. CASE t = c
      BY <1>1, <1>3, <3>1
    <3>2. CASE t # c
      <4>1. at'[t] = at[t] /\ of'[t] = of[t]
        BY <1>1, <3>2, Names
      <4>2. at[t] = "in" => of[t] \in Space
        BY Names DEF RegistryInv, Types, TypeOK
      <4>3. at["shutdown"] = "ended" => at'["shutdown"] = "ended"
        BY <1>1, Names
      <4> QED BY <3>2, <4>1, <4>2, <4>3 DEF SaveInv, SavesInOrder
    <3> QED BY <3>1, <3>2
  <2>2. \A s \in Space : jobs'[s] # <<>> => live = s
    BY <1>2, <1>4
  <2>3. at'["sweep"] = "saving" => \A i \in 1 .. Len(jobs'[live]) : jobs'[live][i] = "sweep" => i = Len(jobs'[live])
    <3>1. at'["sweep"] = "saving" => c = "sweep"
      BY <1>1, Names DEF Ending
    <3> QED BY <1>2, <3>1
  <2>4. at'["sweep"] \notin {"stored", "unstored", "closing"}
    BY <1>1, <1>3, Names DEF Ending
  <2> QED BY <2>1, <2>2, <2>3, <2>4 DEF SavesInOrder
<1>6. StoredInv'
  <2>1. ReadInv'
    BY <1>1, <1>3, Names DEF SaveInv, StoredInv, ReadInv
  <2>2. \A s \in Space : live' = s \/ jobs'[s] # <<>> => Kept(s)'
    BY <1>2 DEF SaveInv, StoredInv, Kept, data
  <2> QED BY <2>1, <2>2 DEF SaveInv, StoredInv, data
<1> QED BY <1>5, <1>6 DEF SaveInv

\* A visitor gets to the live space, or to the one it publishes.
LEMMA HasSave ==
  ASSUME RegistryInv, ~HubDrops, SaveInv, NEW c \in Visitor, Holds(c), at[c] \in {"queued", "loaded"},
         NEW s \in Space, NEW what \in Texts, Has(c, s, what), live' = s,
         \/ live = s /\ what = content[s] /\ UNCHANGED <<saved, loaded>>
         \/ /\ live = None /\ ~closed /\ what = stored /\ saved' = [saved EXCEPT ![s] = what]
            /\ loaded' = [loaded EXCEPT ![c] = Fresh],
         UNCHANGED <<jobs, write, stored, closed, mix>>
  PROVE  SaveInv'
<1>1. c \in Caller /\ c # "sweep" /\ c # "shutdown"
  BY Names
<1>2. PICK p \in {"in", "out"}, x \in Space \cup {None} :
        /\ Goes(c, p, x)
        /\ p = "in" => x = s /\ tabs' = [tabs EXCEPT ![s] = @ \cup {c}]
        /\ p = "out" => UNCHANGED tabs
  BY DEF Has
<1>3. /\ at'[c] = p /\ of'[c] = x
      /\ \A d \in Caller : d # c => at'[d] = at[d] /\ of'[d] = of[d]
  BY <1>1, <1>2, GoesAt
<1>4. \A d \in Caller : at'[d] \notin Loading \cup Ending
  <2>1. p \notin Loading \cup Ending
    BY DEF Loading, Ending
  <2>2. \A d \in Caller : at[d] \in Loading \cup Ending => d = c
    BY <1>1, HolderIsAlone DEF RegistryInv
  <2> QED BY <1>3, <2>1, <2>2
<1>5. \A r \in Space : jobs[r] # <<>> => r = s
  BY LocksExist DEF SaveInv, SavesInOrder
<1>6. /\ content \in [Space -> Texts] /\ saved \in [Space -> Texts] /\ changes \in Number
      /\ tabs \in [Space -> SUBSET Tabs] /\ of \in [Caller -> Space \cup {None}]
  BY DEF RegistryInv, Types, TypeOK
<1>7. SavesInOrder'
  <2>1. ASSUME NEW t \in Tabs
        PROVE  /\ at'[t] # "dropped"
               /\ at'[t] = "in" => t \in tabs'[of'[t]] \/ at'["shutdown"] = "ended"
    <3>1. CASE t = c
      <4>1. p = "in" => c \in tabs'[s]
        BY <1>2, <1>6
      <4> QED BY <1>2, <1>3, <3>1, <4>1
    <3>2. CASE t # c
      <4>1. at'[t] = at[t] /\ of'[t] = of[t] /\ at'["shutdown"] = at["shutdown"]
        BY <1>1, <1>3, <3>2, Names
      <4>2. at[t] = "in" => of[t] \in Space
        BY <1>6, Names DEF RegistryInv, Types
      <4>3. \A r \in Space : tabs[r] \subseteq tabs'[r]
        BY <1>2, <1>6
      <4> QED BY <4>1, <4>2, <4>3 DEF SaveInv, SavesInOrder
    <3> QED BY <3>1, <3>2
  <2> QED BY <1>4, <1>5, <2>1, Names DEF SavesInOrder, Ending
<1>8. /\ \A r \in Part : what[r] <= changes
      /\ \A r \in Part : what[r] \in Nat
  <2>1. what \in [Part -> Number]
    BY DEF Texts
  <2>2. CASE live = s
    BY <2>1, <2>2, LocksExist DEF SaveInv, StoredInv, Kept, Number
  <2>3. CASE live = None /\ what = stored
    <3>1. \A r \in Part : stored[r] # Refused
      BY <2>1, <2>3, ChangesAssumption DEF Number, Refused
    <3> QED BY <2>1, <2>3, <3>1 DEF SaveInv, StoredInv, Number
  <2> QED BY <2>2, <2>3, LocksExist
<1>9. /\ changes' \in Nat /\ changes <= changes'
      /\ \A r \in Part : what[r] <= content'[s][r] /\ (content'[s][r] = what[r] \/ content'[s][r] = changes')
  <2>1. changes \in Nat /\ \A r \in Part : what[r] \in Nat
    BY <1>6 DEF Texts, Number
  <2>2. CASE content' = [content EXCEPT ![s] = what] /\ UNCHANGED changes
    BY <1>6, <2>1, <2>2
  <2>3. CASE content' = [content EXCEPT ![s] = [what EXCEPT ![1] = changes + 1]] /\ changes' = changes + 1
    <3>1. content'[s] = [what EXCEPT ![1] = changes + 1]
      BY <1>6, <2>3
    <3>2. what \in [Part -> Number]
      BY DEF Texts
    <3>3. what[1] <= changes /\ 1 \in Part
      BY <1>8, PartsAssumption DEF Part
    <3>4. content'[s][1] = changes + 1 /\ \A r \in Part : r # 1 => content'[s][r] = what[r]
      BY <3>1, <3>2, <3>3
    <3>5. ASSUME NEW r \in Part
          PROVE  what[r] <= content'[s][r] /\ (content'[s][r] = what[r] \/ content'[s][r] = changes')
      <4>1. what[r] \in Nat /\ what[1] \in Nat
        BY <2>1, <3>3
      <4> QED BY <2>1, <2>3, <3>3, <3>4, <4>1
    <3> QED BY <2>1, <2>3, <3>5
  <2> QED BY <2>2, <2>3 DEF Has
<1>10. Kept(s)'
  <2>1. changes \in Nat
    BY <1>6 DEF Number
  <2>2. \A r \in Part : content'[s][r] <= changes' /\ content'[s][r] \in Nat
    BY <1>8, <1>9, <2>1
  <2>3. CASE live = s
    <3>1. \A r \in Part : saved[s][r] \in Nat /\ write[s].text \in Nat
      BY <1>6 DEF RegistryInv, Types, TypeOK, Texts, Number
    <3>2. saved' = saved /\ what = content[s]
      BY <2>3, LocksExist
    <3> QED BY <1>8, <1>9, <2>2, <2>3, <3>1, <3>2 DEF SaveInv, StoredInv, Kept
  <2>4. CASE live = None /\ ~closed /\ what = stored /\ saved' = [saved EXCEPT ![s] = what]
    <3>1. jobs[s] = <<>>
      BY <2>4, LocksExist DEF SaveInv, SavesInOrder
    <3>2. write[s] = Idle /\ write[s].thread = "none"
      BY <3>1 DEF RegistryInv, JobInv, Idle
    <3>3. saved'[s] = stored
      BY <1>6, <2>4
    <3> QED BY <1>8, <1>9, <2>2, <2>4, <3>2, <3>3 DEF Kept
  <2> QED BY <2>3, <2>4, LocksExist
<1>11. StoredInv'
  <2>1. ReadInv'
    BY <1>4, Names DEF ReadInv, Loading
  <2>2. \A r \in Part : stored[r] # Refused => stored[r] <= changes'
    <3>1. \A r \in Part : stored[r] # Refused => stored[r] \in Nat /\ stored[r] <= changes
      BY DEF SaveInv, StoredInv, RegistryInv, Types, TypeOK, Number
    <3> QED BY <1>6, <1>9, <3>1 DEF Number
  <2> QED BY <1>5, <1>10, <2>1, <2>2 DEF StoredInv
<1> QED BY <1>7, <1>11 DEF SaveInv

\* The reads of the visitors, when c goes on and the others read nothing.
LEMMA ReadStays ==
  ASSUME RegistryInv, ~HubDrops, SaveInv, NEW c \in Caller, NEW p, NEW x, Goes(c, p, x),
         p \notin {"preferences", "loaded"}, UNCHANGED stored,
         \A d \in Visitor : d # c => loaded'[d] = loaded[d]
  PROVE  ReadInv'
<1>1. at'[c] = p /\ \A d \in Caller : d # c => at'[d] = at[d]
  BY GoesAt
<1> QED BY <1>1, Names DEF SaveInv, StoredInv, ReadInv

LEMMA VisitorSave ==
  ASSUME RegistryInv, ~HubDrops, SaveInv, NEW c \in Visitor, Arrives(c) \/ Visits(c) \/ GivesUp(c)
  PROVE  SaveInv'
<1>1. c \in Caller /\ c # "sweep" /\ c # "shutdown"
  BY Names
<1>2. "out" \notin Loading /\ "queued" \notin Loading
  BY DEF Loading
<1>3. CASE Arrives(c)
  BY <1>1, <1>2, <1>3, ReadStays, SaveStays DEF Arrives, spaces, saving
<1>4. CASE Finds(c)
  <2>1. live \in Space /\ content[live] \in Texts
    BY <1>4 DEF Finds, RegistryInv, Types, TypeOK
  <2> QED BY <1>4, <2>1, HasSave DEF Finds, saving
<1>5. CASE Creates(c)
  <2>1. CASE Goes(c, "out", None)
    BY <1>1, <1>2, <1>5, <2>1, ReadStays, SaveStays DEF Creates, spaces, saving
  <2>2. CASE ~closed /\ Goes(c, "loading", None)
    BY <1>1, <1>5, <2>2, ReadStays, SaveStays DEF Creates, spaces, saving
  <2> QED BY <1>5, <2>1, <2>2 DEF Creates
<1>6. CASE Loads(c) \/ LoadsPreferences(c)
  <2>1. PICK p \in {"preferences", "loaded"} :
          /\ Goes(c, p, None) /\ at[c] \in Loading
          /\ UNCHANGED <<spaces, locks, saving, data, closed, mix>>
    BY <1>6 DEF Loads, LoadsPreferences, Loading
  <2>2. at'[c] = p /\ \A d \in Caller : d # c => at'[d] = at[d]
    BY <1>1, <2>1, GoesAt
  <2>3. /\ loaded \in [Visitor -> [Part -> Number \cup {Refused}]]
        /\ stored \in [Part -> Number \cup {Refused}]
    BY DEF RegistryInv, Types, TypeOK
  <2>4. loaded'[c][1] = stored[1] /\ (p = "loaded" => loaded'[c] = stored)
    <3>1. 1 \in Part
      BY PartsAssumption DEF Part
    <3>2. CASE Loads(c)
      <4>1. loaded' = [loaded EXCEPT ![c] = [loaded[c] EXCEPT ![1] = stored[1]]]
        BY <3>2 DEF Loads
      <4> DEFINE l == [loaded[c] EXCEPT ![1] = stored[1]]
      <4>2. l \in [Part -> Number \cup {Refused}] /\ l[1] = stored[1]
        BY <2>3, <3>1
      <4>3. p = "loaded" => NParts = 1
        BY <2>1, <2>2, <3>2, <1>1, PartsAssumption, GoesAt DEF Loads
      <4>4. NParts = 1 => l = stored
        <5>1. NParts = 1 => Part = {1}
          BY DEF Part
        <5> HIDE DEF l
        <5> QED BY <2>3, <4>2, <5>1
      <4>5. loaded'[c] = l
        BY <2>3, <4>1
      <4> HIDE DEF l
      <4> QED BY <4>2, <4>3, <4>4, <4>5
    <3>3. CASE LoadsPreferences(c)
      <4>1. loaded' = [loaded EXCEPT ![c] = [loaded[c] EXCEPT ![2] = stored[2]]]
        BY <3>3 DEF LoadsPreferences
      <4> DEFINE l == [loaded[c] EXCEPT ![2] = stored[2]]
      <4>2. loaded[c][1] = stored[1]
        BY <3>3 DEF LoadsPreferences, SaveInv, StoredInv, ReadInv
      <4>3. /\ loaded[c] \in [Part -> Number \cup {Refused}] /\ Part \subseteq {1, 2}
        BY <2>3, PartsAssumption DEF Part
      <4>4. /\ l \in [Part -> Number \cup {Refused}]
            /\ \A q \in Part : l[q] = stored[q]
        <5>1. CASE 2 \in Part
          BY <2>3, <4>2, <4>3, <5>1
        <5>2. CASE 2 \notin Part
          <6>1. l = loaded[c] /\ \A q \in Part : q = 1
            BY <4>3, <5>2
          <6> HIDE DEF l
          <6> QED BY <2>3, <4>2, <4>3, <6>1
        <5> QED BY <5>1, <5>2
      <4>5. loaded'[c] = l
        BY <2>3, <4>1
      <4> HIDE DEF l
      <4>6. l = stored
        BY <2>3, <4>4
      <4> QED BY <4>5, <4>6
    <3> QED BY <1>6, <3>2, <3>3
  <2>5. \A d \in Visitor : d # c => loaded'[d] = loaded[d]
    BY <1>6, <2>3 DEF Loads, LoadsPreferences
  <2>6. ReadInv'
    BY <2>1, <2>2, <2>4, <2>5, Names DEF SaveInv, StoredInv, ReadInv, saving
  <2> QED BY <1>1, <2>1, <2>6, SaveStays DEF spaces, saving
<1>7. CASE SetsAside(c)
  <2>1. /\ at[c] = "loaded" /\ stored' = [stored EXCEPT ![1] = 0] /\ loaded' = [loaded EXCEPT ![c][1] = 0]
        /\ UNCHANGED <<spaces, locks, at, of, saved, jobs, write, data, closed, mix>>
    BY <1>7 DEF SetsAside
  <2>2. at[c] \in Loading /\ Holds(c) /\ live = None
    <3>1. at[c] \in Loading
      BY <2>1 DEF Loading
    <3> QED BY <1>1, <3>1, InsideHolds DEF RegistryInv, SpaceInv
  <2>3. \A d \in Visitor : at[d] \in {"preferences", "loaded"} => d = c
    BY <1>1, <2>2, HolderIsAlone, Names DEF RegistryInv, Loading
  <2>4. loaded[c] = stored /\ loaded'[c] = [loaded[c] EXCEPT ![1] = 0]
    BY <2>1 DEF SaveInv, StoredInv, ReadInv, RegistryInv, Types, TypeOK
  <2>5. ReadInv'
    BY <2>1, <2>3, <2>4 DEF ReadInv
  <2>6. \A s \in Space : live # s /\ jobs[s] = <<>>
    BY <1>1, <2>2, NoneLoads, LocksExist
  <2>7. \A r \in Part : stored'[r] # Refused => stored'[r] <= changes
    BY <2>1 DEF SaveInv, StoredInv, RegistryInv, Types, TypeOK, Number
  <2>8. StoredInv'
    BY <2>1, <2>5, <2>6, <2>7 DEF StoredInv, spaces, data
  <2>9. SavesInOrder'
    BY <2>1 DEF SaveInv, SavesInOrder, spaces
  <2> QED BY <2>8, <2>9 DEF SaveInv
<1>8. CASE Publishes(c)
  <2>1. /\ at[c] = "loaded" /\ loaded[c][1] # Refused
        /\ loaded' = [loaded EXCEPT ![c] = Fresh] /\ UNCHANGED <<jobs, write, stored, closed, mix>>
    BY <1>8 DEF Publishes, Restored
  <2>2. Holds(c) /\ live = None
    <3>1. at[c] \in Loading
      BY <2>1 DEF Loading
    <3> QED BY <1>1, <3>1, InsideHolds DEF RegistryInv, SpaceInv
  <2>3. \A d \in Visitor : d # c => loaded'[d] = loaded[d]
    BY <2>1
  <2>4. CASE Goes(c, "out", None) /\ UNCHANGED <<spaces, saved, data>>
    BY <1>1, <1>2, <2>1, <2>3, <2>4, ReadStays, SaveStays DEF spaces
  <2>5. CASE ~closed /\ Publish(c)
    <3>1. PICK s \in Space : /\ live' = s /\ saved' = [saved EXCEPT ![s] = loaded[c]]
                            /\ Has(c, s, loaded[c])
      BY <2>5 DEF Publish
    <3>2. loaded[c] \in Texts
      <4>1. loaded[c] \in [Part -> Number \cup {Refused}] /\ \A r \in Part : loaded[c][r] # Refused
        BY <1>1, <2>1 DEF RegistryInv, Types, TypeOK
      <4> QED BY <4>1 DEF Texts
    <3>3. loaded[c] = stored
      BY <2>1 DEF SaveInv, StoredInv, ReadInv
    <3> QED BY <2>1, <2>2, <2>5, <3>1, <3>2, <3>3, HasSave
  <2> QED BY <1>8, <2>4, <2>5 DEF Publishes
<1>9. CASE GivesUp(c)
  <2>1. \A d \in Visitor : d # c => loaded'[d] = loaded[d]
    BY <1>9 DEF GivesUp
  <2> QED BY <1>1, <1>2, <1>9, <2>1, ReadStays, SaveStays DEF GivesUp, spaces, saving
<1> QED BY <1>3, <1>4, <1>5, <1>6, <1>7, <1>8, <1>9 DEF Visits

\* A save goes on at part p: what was written is noted, and the rest as it was.
LEMMA SaveFromSave ==
  ASSUME RegistryInv, ~HubDrops, SaveInv, NEW s \in Space, jobs[s] # <<>>,
         NEW p \in 1 .. NParts + 1, NEW ok \in BOOLEAN, SaveFrom(s, p, ok),
         saved' \in [Space -> Texts], \A r \in Space : r # s => saved'[r] = saved[r],
         \A r \in Part : saved'[s][r] = stored[r] /\ saved'[s][r] <= content[s][r],
         UNCHANGED <<spaces, locks, loaded, stored, data, closed, mix>>
  PROVE  SaveInv'
<1> DEFINE q == Changed(s, p)
           c == Head(jobs[s])
<1>1. q \in p .. NParts + 1 /\ q \in Nat
  BY ChangedIsNext, PartsAssumption
<1>2. /\ jobs \in [Space -> Seq(Caller)] /\ at \in [Caller -> Place]
      /\ of \in [Caller -> Space \cup {None}] /\ content \in [Space -> Texts]
      /\ write \in [Space -> [part : Part \cup {0}, text : Number,
                              thread : {"none", "running", "written", "failed"}, ok : BOOLEAN]]
      /\ \A r \in Part : content[s][r] \in Nat
  BY DEF RegistryInv, Types, TypeOK, Texts, Number
<1>3. jobs[s] \in Seq(Caller) /\ Len(jobs[s]) >= 1 /\ c = jobs[s][1] /\ c \in Caller
  BY <1>2
<1>4. at[c] \in AtSave /\ of[c] = s
  BY <1>3 DEF RegistryInv, JobInv
<1>5. /\ \A r \in Space : jobs[r] # <<>> => r = s
      /\ \A r \in Space : live = r => r = s
      /\ \A d \in Caller : at[d] \notin Loading
  BY NoneLoads, LocksExist DEF SaveInv, SavesInOrder
<1>6. \A r \in Part : content[s][r] <= changes
  BY DEF SaveInv, StoredInv, Kept
<1>7. CASE q <= NParts
  <2>1. /\ write' = [write EXCEPT ![s] =
                      [part |-> q, text |-> content[s][q], thread |-> "running", ok |-> ok]]
        /\ UNCHANGED <<jobs, at, of>>
    BY <1>7 DEF SaveFrom
  <2>2. write'[s].part = q /\ write'[s].text = content[s][q] /\ write'[s].thread = "running"
    BY <1>2, <2>1
  <2>3. Kept(s)'
    BY <1>2, <1>6, <2>2 DEF Kept, data
  <2>4. SavesInOrder'
    BY <2>1 DEF SaveInv, SavesInOrder, spaces
  <2>5. StoredInv'
    BY <1>5, <2>1, <2>3 DEF SaveInv, StoredInv, ReadInv, spaces, data
  <2> QED BY <2>4, <2>5 DEF SaveInv
<1>8. CASE q > NParts
  <2> DEFINE a == AfterSave(c, ok)
             x == IF at[c] = "saving" THEN s ELSE None
  <2>1. /\ write' = [write EXCEPT ![s] = Idle]
        /\ jobs' = [jobs EXCEPT ![s] = Tail(@)]
        /\ Goes(c, a, x)
    BY <1>1, <1>8, PartsAssumption DEF SaveFrom
  <2>2. /\ a \in {"out", "deciding", "stored", "unstored"}
        /\ at[c] = "detaching" => a = "out"
        /\ at[c] = "autosaving" => a = "deciding"
    BY <1>4 DEF AfterSave, AtSave
  <2>3. c = "sweep" /\ at[c] # "saving" => a \in {"out", "deciding"}
    BY <1>4, <2>2 DEF AtSave
  <2> HIDE DEF c, a, x
  <2>4. /\ at'[c] = a /\ of'[c] = x
        /\ \A d \in Caller : d # c => at'[d] = at[d] /\ of'[d] = of[d]
    BY <1>3, <2>1, GoesAt
  <2>5. /\ write'[s].thread = "none"
        /\ \A r \in Space : r # s => jobs'[r] = jobs[r]
        /\ jobs'[s] \in Seq(Caller) /\ Len(jobs'[s]) = Len(jobs[s]) - 1
        /\ \A i \in 1 .. Len(jobs'[s]) : jobs'[s][i] = jobs[s][i + 1] /\ i + 1 \in 1 .. Len(jobs[s])
    BY <1>2, <1>3, <2>1 DEF Idle
  <2>6. Kept(s)'
    BY <1>6, <2>5 DEF Kept, data
  <2>7. ReadInv'
    BY <2>2, <2>4, Names DEF SaveInv, StoredInv, ReadInv
  <2>8. \A r \in Space : jobs'[r] # <<>> => r = s
    BY <1>5, <2>5
  <2>9. StoredInv'
    BY <1>5, <2>6, <2>7, <2>8 DEF SaveInv, StoredInv, spaces, data
  <2>10. \A t \in Tabs : /\ at'[t] # "dropped"
                         /\ at'[t] = "in" => t \in tabs[of'[t]] \/ at'["shutdown"] = "ended"
    <3>1. at[c] # "ended"
      BY <1>4 DEF AtSave
    <3> QED BY <2>2, <2>4, <3>1, Names DEF SaveInv, SavesInOrder
  <2>11. \A r \in Space : jobs'[r] # <<>> =>
           live = r \/ (live = None /\ closed /\ \A d \in Caller : at'[d] \notin Loading)
    <3>1. \A d \in Caller : at'[d] \notin Loading
      BY <1>5, <2>2, <2>4 DEF Loading
    <3> QED BY <2>8, <3>1 DEF SaveInv, SavesInOrder
  <2>12. ASSUME at'["sweep"] = "saving"
         PROVE  \A i \in 1 .. Len(jobs'[live]) : jobs'[live][i] = "sweep" => i = Len(jobs'[live])
    <3>1. c # "sweep" /\ at["sweep"] = "saving"
      BY <2>2, <2>4, <2>12, Names
    <3>2. live = s
      <4>1. live \in Space
        BY <3>1, Names DEF RegistryInv, SpaceInv, Types, TypeOK, Ending
      <4> QED BY <1>5, <4>1
    <3>3. ASSUME NEW i \in 1 .. Len(jobs'[s]), jobs'[s][i] = "sweep" PROVE i = Len(jobs'[s])
      <4>1. i + 1 = Len(jobs[s])
        BY SMTT(30), <2>5, <3>1, <3>2, <3>3 DEF SaveInv, SavesInOrder
      <4> QED BY <1>3, <2>5, <4>1
    <3> QED BY <3>2, <3>3
  <2>13. ASSUME at'["sweep"] \in {"stored", "unstored", "closing"} PROVE jobs'[live] = <<>>
    <3>1. CASE c = "sweep"
      <4>1. at["sweep"] = "saving"
        BY <2>2, <2>3, <2>4, <2>13, <3>1
      <4>2. live \in Space
        BY <4>1, Names DEF RegistryInv, SpaceInv, Types, TypeOK, Ending
      <4>3. live = s
        BY <1>5, <4>2
      <4>4. 1 = Len(jobs[s])
        <5>1. 1 \in 1 .. Len(jobs[s]) /\ jobs[s][1] = "sweep"
          BY <1>3, <3>1
        <5>2. \A i \in 1 .. Len(jobs[s]) : jobs[s][i] = "sweep" => i = Len(jobs[s])
          BY <4>1, <4>3 DEF SaveInv, SavesInOrder
        <5> QED BY <5>1, <5>2
      <4> QED BY <2>5, <4>3, <4>4, EmptySeq
    <3>2. CASE c # "sweep"
      <4>1. at["sweep"] \in {"stored", "unstored", "closing"} /\ at["sweep"] \in Ending
        BY <2>4, <2>13, <3>2, Names DEF Ending
      <4>2. live \in Space /\ jobs[live] = <<>>
        BY <4>1, Names DEF RegistryInv, SpaceInv, Types, TypeOK, SaveInv, SavesInOrder
      <4> QED BY <1>5, <4>2
    <3> QED BY <3>1, <3>2
  <2>14. SavesInOrder'
    BY <2>8, <2>10, <2>11, <2>12, <2>13 DEF SavesInOrder, spaces
  <2> QED BY <2>9, <2>14 DEF SaveInv
<1> QED BY <1>1, <1>7, <1>8, PartsAssumption

LEMMA SaveRunsSave ==
  ASSUME RegistryInv, ~HubDrops, SaveInv, NEW s \in Space, SaveRuns(s)
  PROVE  SaveInv'
<1>1. /\ saved \in [Space -> Texts]
      /\ write[s] \in [part : Part \cup {0}, text : Number,
                       thread : {"none", "running", "written", "failed"}, ok : BOOLEAN]
  BY DEF RegistryInv, Types, TypeOK
<1>2. CASE SaveBegins(s)
  <2>1. jobs[s] # <<>> /\ 1 \in 1 .. NParts + 1 /\ write[s].thread = "none"
    BY <1>2, PartsAssumption DEF SaveBegins, Idle
  <2>2. Kept(s)
    BY <2>1 DEF SaveInv, StoredInv
  <2>3. \A r \in Part : saved[s][r] = stored[r] /\ saved[s][r] <= content[s][r]
    BY <2>1, <2>2 DEF Kept
  <2> QED BY <1>1, <1>2, <2>1, <2>3, SaveFromSave DEF SaveBegins
<1>3. CASE SaveGoesOn(s)
  <2>1. write[s].part \in Part /\ jobs[s] # <<>> /\ write[s].thread \in {"written", "failed"}
    BY <1>3 DEF SaveGoesOn, RegistryInv, JobInv
  <2>2. write[s].part + 1 \in 1 .. NParts + 1
    BY <2>1, PartsAssumption DEF Part
  <2>3. Kept(s)
    BY <2>1 DEF SaveInv, StoredInv
  <2>4. /\ saved' \in [Space -> Texts] /\ \A r \in Space : r # s => saved'[r] = saved[r]
        /\ \A r \in Part : saved'[s][r] = stored[r] /\ saved'[s][r] <= content[s][r]
    <3>1. CASE write[s].thread = "written"
      <4> DEFINE u == [saved[s] EXCEPT ![write[s].part] = write[s].text]
      <4>1. u \in Texts
        BY <1>1 DEF Texts
      <4>2. \A r \in Part : u[r] = stored[r] /\ u[r] <= content[s][r]
        BY <1>1, <2>1, <2>3, <3>1 DEF Kept, Texts
      <4>3. saved' = [saved EXCEPT ![s] = u]
        BY <1>3, <3>1 DEF SaveGoesOn
      <4> HIDE DEF u
      <4> QED BY <1>1, <4>1, <4>2, <4>3
    <3>2. CASE write[s].thread = "failed"
      BY <1>1, <1>3, <2>3, <3>2 DEF SaveGoesOn, Kept
    <3> QED BY <2>1, <3>1, <3>2
  <2>5. (write[s].ok /\ write[s].thread = "written") \in BOOLEAN
    OBVIOUS
  <2> QED BY <1>3, <2>1, <2>2, <2>4, <2>5, SaveFromSave DEF SaveGoesOn
<1> QED BY <1>2, <1>3 DEF SaveRuns

LEMMA ThreadSave ==
  ASSUME RegistryInv, ~HubDrops, SaveInv, NEW s \in Space, Written(s) \/ WriteFails(s)
  PROVE  SaveInv'
<1>1. /\ write[s].thread = "running"
      /\ UNCHANGED <<spaces, locks, callers, saved, jobs, data, closed, mix>>
  BY DEF Written, WriteFails
<1>2. /\ write[s].part \in Part /\ jobs[s] # <<>> /\ Kept(s)
  BY <1>1 DEF RegistryInv, JobInv, SaveInv, StoredInv
<1>3. /\ \A r \in Space : live = r \/ jobs[r] # <<>> => r = s
      /\ \A d \in Caller : at[d] \notin Loading
  BY <1>2, NoneLoads, LocksExist DEF SaveInv, SavesInOrder
<1>4. /\ write \in [Space -> [part : Part \cup {0}, text : Number,
                              thread : {"none", "running", "written", "failed"}, ok : BOOLEAN]]
      /\ stored \in [Part -> Number \cup {Refused}]
  BY DEF RegistryInv, Types, TypeOK
<1>5. Kept(s)' /\ \A r \in Part : stored'[r] # Refused => stored'[r] <= changes'
  <2>1. CASE Written(s)
    <3>1. /\ stored' = [stored EXCEPT ![write[s].part] = write[s].text]
          /\ write'[s].thread = "written" /\ write'[s].part = write[s].part /\ write'[s].text = write[s].text
      BY <1>4, <2>1 DEF Written
    <3>2. /\ stored'[write[s].part] = write[s].text
          /\ \A r \in Part : r # write[s].part => stored'[r] = stored[r]
      BY <1>2, <1>4, <3>1
    <3>3. write[s].text <= changes
      <4>1. /\ write[s].text \in Nat /\ content[s][write[s].part] \in Nat /\ changes \in Nat
        BY <1>2, <1>4 DEF RegistryInv, Types, TypeOK, Texts, Number
      <4> QED BY <1>1, <1>2, <4>1 DEF Kept
    <3> QED BY <1>1, <1>2, <3>1, <3>2, <3>3 DEF Kept, data, SaveInv, StoredInv
  <2>2. CASE WriteFails(s)
    <3>1. /\ UNCHANGED stored
          /\ write'[s].thread = "failed" /\ write'[s].part = write[s].part /\ write'[s].text = write[s].text
      BY <1>4, <2>2 DEF WriteFails
    <3> QED BY <1>1, <1>2, <3>1 DEF Kept, data, SaveInv, StoredInv
  <2> QED BY <2>1, <2>2
<1>6. ReadInv'
  BY <1>1, <1>3, Names DEF ReadInv, Loading, callers
<1>7. StoredInv'
  BY <1>1, <1>3, <1>5, <1>6 DEF StoredInv, spaces
<1>8. SavesInOrder'
  BY <1>1 DEF SaveInv, SavesInOrder, spaces, callers
<1> QED BY <1>7, <1>8 DEF SaveInv

LEMMA ChangesSave ==
  ASSUME RegistryInv, ~HubDrops, SaveInv, NEW s \in Space, NEW p \in Part, Changes(s, p)
  PROVE  SaveInv'
<1>1. /\ session[s] = "open" /\ changes' = changes + 1
      /\ content' = [content EXCEPT ![s][p] = changes + 1]
      /\ UNCHANGED <<spaces, locks, callers, saving, closed, mix>>
  BY DEF Changes
<1>2. live = s
  BY <1>1 DEF RegistryInv, SpaceInv
<1>3. \A r \in Space : live = r \/ jobs[r] # <<>> => r = s
  BY <1>2, LocksExist DEF SaveInv, SavesInOrder
<1>4. /\ changes \in Nat
      /\ \A r \in Part : content[s][r] \in Nat /\ saved[s][r] \in Nat
      /\ write[s].text \in Nat
      /\ \A r \in Part : stored[r] \in Nat
  BY SMTT(30), ChangesAssumption DEF RegistryInv, Types, TypeOK, Texts, Number, Refused
<1>5. content'[s][p] = changes + 1 /\ \A r \in Part : r # p => content'[s][r] = content[s][r]
  BY <1>1 DEF RegistryInv, Types, TypeOK, Texts
<1>6. Kept(s)'
  <2>1. Kept(s)
    BY <1>2 DEF SaveInv, StoredInv
  <2>2. UNCHANGED <<saved, write, stored>>
    BY <1>1 DEF saving
  <2>3. ASSUME NEW r \in Part
        PROVE  /\ saved[s][r] <= content'[s][r] /\ content'[s][r] <= changes'
               /\ write[s].thread # "none" /\ write[s].part = r =>
                    saved[s][r] <= write[s].text /\ write[s].text <= content'[s][r]
    <3>1. /\ saved[s][r] <= content[s][r] /\ content[s][r] <= changes
          /\ write[s].thread # "none" /\ write[s].part = r =>
               saved[s][r] <= write[s].text /\ write[s].text <= content[s][r]
      BY <2>1 DEF Kept
    <3>2. content[s][r] <= content'[s][r] /\ content'[s][r] <= changes' /\ content'[s][r] \in Nat
      <4>1. CASE r = p
        BY <1>1, <1>4, <1>5, <3>1, <4>1
      <4>2. CASE r # p
        BY <1>1, <1>4, <1>5, <3>1, <4>2
      <4> QED BY <4>1, <4>2
    <3> QED BY <1>4, <3>1, <3>2
  <2> QED BY <2>1, <2>2, <2>3 DEF Kept
<1>7. \A r \in Part : stored[r] # Refused => stored[r] <= changes'
  BY <1>1, <1>4 DEF SaveInv, StoredInv
<1>8. StoredInv'
  BY <1>1, <1>3, <1>6, <1>7 DEF SaveInv, StoredInv, ReadInv, callers, saving, spaces
<1>9. SavesInOrder'
  BY <1>1 DEF SaveInv, SavesInOrder, spaces, callers, saving
<1> QED BY <1>8, <1>9 DEF SaveInv

LEMMA DetachesSave ==
  ASSUME RegistryInv, ~HubDrops, SaveInv, NEW t \in Tabs, Detaches(t)
  PROVE  SaveInv'
<1> DEFINE s == of[t]
<1>1. /\ at[t] \in {"in", "dropped"} /\ tabs' = [tabs EXCEPT ![s] = @ \ {t}]
      /\ UNCHANGED <<live, session, locks, loaded, saved, write, stored, data, closed, mix>>
  BY DEF Detaches
<1>2. at[t] = "in" /\ (t \in tabs[s] \/ at["shutdown"] = "ended")
  BY <1>1 DEF SaveInv, SavesInOrder
<1>3. t \in Caller /\ t # "sweep" /\ t # "shutdown" /\ at[t] \notin AtSave
  BY <1>2, Names DEF AtSave
<1>4. s \in Space
  BY <1>2, <1>3 DEF RegistryInv, Types, TypeOK
<1>5. \A d \in Tabs : d # t => \A r \in Space : d \in tabs[r] => d \in tabs'[r]
  BY <1>1 DEF RegistryInv, Types, TypeOK
<1>6. CASE live = s /\ Goes(t, "detaching", s) /\ AskSave(t, s)
  <2>1. "detaching" \in AtSave
    BY DEF AtSave
  <2>2. at["sweep"] \notin Ending
    BY <1>2, <1>4, <1>6, LocksExist, Names DEF RegistryInv, SpaceInv, ShutdownInv
  <2> QED BY <1>1, <1>3, <1>4, <1>5, <1>6, <2>1, <2>2, SaveAsked
<1>7. CASE Goes(t, "out", None) /\ UNCHANGED jobs
  <2>1. /\ at'[t] = "out" /\ \A d \in Caller : d # t => at'[d] = at[d] /\ of'[d] = of[d]
    BY <1>3, <1>7, GoesAt
  <2>2. ReadInv'
    BY <1>1, <2>1, Names DEF SaveInv, StoredInv, ReadInv
  <2>3. StoredInv'
    BY <1>1, <1>7, <2>2 DEF SaveInv, StoredInv, Kept, data
  <2>4. ASSUME NEW d \in Tabs
        PROVE  /\ at'[d] # "dropped"
               /\ at'[d] = "in" => d \in tabs'[of'[d]] \/ at'["shutdown"] = "ended"
    <3>1. CASE d = t
      BY <2>1, <3>1
    <3>2. CASE d # t
      <4>1. at'[d] = at[d] /\ of'[d] = of[d] /\ at'["shutdown"] = at["shutdown"]
        BY <1>3, <2>1, <3>2, Names
      <4>2. at[d] = "in" => of[d] \in Space
        BY Names DEF RegistryInv, Types, TypeOK
      <4> QED BY <1>5, <3>2, <4>1, <4>2 DEF SaveInv, SavesInOrder
    <3> QED BY <3>1, <3>2
  <2>5. \A d \in Caller : at'[d] \in Loading => at[d] \in Loading
    BY <2>1 DEF Loading
  <2>6. SavesInOrder'
    BY <1>1, <1>3, <1>7, <2>1, <2>4, <2>5, Names DEF SaveInv, SavesInOrder
  <2> QED BY <2>3, <2>6 DEF SaveInv
<1> QED BY <1>6, <1>7 DEF Detaches

LEMMA DropsSave ==
  ASSUME RegistryInv, ~HubDrops, SaveInv, NEW c \in {"sweep", "shutdown"}, Drops(c)
  PROVE  SaveInv'
<1> DEFINE p == IF c = "sweep" THEN "out" ELSE "ended"
<1>1. /\ at[c] = "closing" /\ live' = (IF live = of[c] THEN None ELSE live)
      /\ tabs' = [tabs EXCEPT ![of[c]] = {}] /\ Goes(c, p, None)
      /\ UNCHANGED <<loaded, saving, data, closed, mix>>
  BY DEF Drops
<1>2. c \in Caller /\ at[c] \in Ending
  BY <1>1, Names DEF Ending
<1>3. of[c] = live /\ live \in Space /\ live' = None
  BY <1>1, <1>2 DEF RegistryInv, SpaceInv, Types, TypeOK
<1>4. (c = "sweep" => p = "out") /\ (c = "shutdown" => p = "ended") /\ p \in {"out", "ended"}
  BY Names
<1> HIDE DEF p
<1>5. /\ at'[c] = p /\ \A d \in Caller : d # c => at'[d] = at[d] /\ of'[d] = of[d]
  BY <1>1, <1>2, GoesAt
<1>6. \A d \in Caller : at'[d] \notin Loading
  BY <1>3, <1>4, <1>5, LocksExist DEF RegistryInv, SpaceInv, Loading
<1>7. \A s \in Space : jobs[s] # <<>> => s = live /\ c # "sweep"
  BY <1>1, <1>3, LocksExist DEF SaveInv, SavesInOrder
<1>8. SavesInOrder'
  <2>1. ASSUME NEW t \in Tabs
        PROVE  /\ at'[t] # "dropped"
               /\ at'[t] = "in" => t \in tabs'[of'[t]] \/ at'["shutdown"] = "ended"
    <3>1. at'[t] = at[t] /\ of'[t] = of[t]
      BY <1>5, Names
    <3>2. CASE c = "shutdown"
      BY <1>4, <1>5, <3>1, <3>2 DEF SaveInv, SavesInOrder
    <3>3. CASE c = "sweep"
      <4>1. at["shutdown"] # "ended"
        BY <1>1, <3>3 DEF RegistryInv, ShutdownInv
      <4>2. at[t] = "in" => of[t] \in Space
        BY Names DEF RegistryInv, Types, TypeOK
      <4>3. \A s \in Space : tabs[s] = {}
        BY <1>2, <1>3, <3>3 DEF RegistryInv, SpaceInv
      <4> QED BY <3>1, <4>1, <4>2, <4>3 DEF SaveInv, SavesInOrder
    <3> QED BY <3>2, <3>3
  <2>2. \A s \in Space : jobs'[s] # <<>> =>
          live' = s \/ (live' = None /\ closed' /\ \A d \in Caller : at'[d] \notin Loading)
    <3>1. c = "shutdown" => closed
      BY <1>1 DEF RegistryInv, ShutdownInv
    <3> QED BY <1>1, <1>3, <1>6, <1>7, <3>1 DEF saving
  <2>3. at'["sweep"] \notin {"saving", "stored", "unstored", "closing"}
    <3>1. c = "shutdown" => at["sweep"] = "ended"
      BY <1>1 DEF RegistryInv, ShutdownInv
    <3> QED BY <1>4, <1>5, <3>1, Names
  <2> QED BY <1>1, <1>7, <2>1, <2>2, <2>3 DEF SavesInOrder, saving
<1>9. StoredInv'
  <2>1. ReadInv'
    BY <1>6, Names DEF ReadInv, Loading
  <2>2. live' \notin Space
    BY <1>3, LocksExist
  <2> QED BY <1>1, <2>1, <2>2 DEF SaveInv, StoredInv, Kept, saving, data
<1> QED BY <1>8, <1>9 DEF SaveInv

LEMMA SweepSave ==
  ASSUME RegistryInv, ~HubDrops, SaveInv, PassBegins \/ PeriodicTask
  PROVE  SaveInv'
<1>1. "sweep" \in Caller /\ "sweep" \notin Visitor /\ "sweep" # "shutdown"
  BY Names
<1>2. "out" \notin Loading /\ "queued" \notin Loading /\ "ended" \notin Loading /\ "closing" \notin Loading
  BY DEF Loading
<1>3. \A t \in Tabs, s \in Space : UNCHANGED tabs => (t \in tabs[s] => t \in tabs'[s])
  OBVIOUS
<1>4. CASE PassBegins
  <2>1. /\ live \in Space /\ "autosaving" \in AtSave /\ at["sweep"] = "out"
        /\ at["sweep"] \notin AtSave \cup Ending
    BY <1>4 DEF PassBegins, RegistryInv, Types, TypeOK, AtSave, Ending
  <2> QED BY <1>1, <1>3, <1>4, <2>1, SaveAsked DEF PassBegins, spaces
<1>5. CASE ReleaseLooks /\ AskSave("sweep", of["sweep"])
  <2>1. /\ at["sweep"] = "queued" /\ StillIdle(of["sweep"]) /\ Goes("sweep", "saving", of["sweep"])
        /\ UNCHANGED <<spaces, loaded, saved, write, stored, data, closed, mix>>
    <3>1. at["sweep"] = "queued" /\ "sweep" \in Caller
      BY <1>1, <1>5 DEF ReleaseLooks
    <3>2. of["sweep"] \in Space
      BY <3>1 DEF RegistryInv, ShutdownInv, Types, TypeOK
    <3>3. jobs'[of["sweep"]] = Append(jobs[of["sweep"]], "sweep") /\ jobs[of["sweep"]] \in Seq(Caller)
      BY <1>5, <3>2 DEF AskSave, RegistryInv, Types, TypeOK
    <3>4. jobs' # jobs
      BY <1>1, <3>3
    <3> QED BY <1>5, <3>4 DEF ReleaseLooks
  <2>2. /\ live = of["sweep"] /\ live \in Space /\ "saving" \in AtSave
        /\ at["sweep"] \notin AtSave \cup Ending
    BY <1>1, <2>1 DEF StillIdle, RegistryInv, Types, TypeOK, ShutdownInv, AtSave, Ending
  <2> QED BY <1>1, <1>3, <1>5, <2>1, <2>2, SaveAsked DEF spaces
<1>6. ASSUME PassEnds, UNCHANGED <<spaces, loaded, saving, data, closed, mix>>
      PROVE  SaveInv'
  BY <1>1, <1>2, <1>6, ReadStays, SaveStays DEF PassEnds, spaces, saving
<1>7. CASE ReleaseGivesUp
  BY <1>6, <1>7 DEF ReleaseGivesUp
<1>8. CASE SweepEnds
  BY <1>1, <1>2, <1>8, ReadStays, SaveStays DEF SweepEnds, spaces, saving
<1>9. CASE Decides
  <2>1. \E x : Goes("sweep", "queued", x) \/ Goes("sweep", "out", x)
    BY <1>9 DEF Decides
  <2>2. PICK x : Goes("sweep", "queued", x) \/ Goes("sweep", "out", x)
    BY <2>1
  <2> QED BY <1>1, <1>2, <1>9, <2>2, ReadStays, SaveStays DEF Decides, spaces, saving
<1>10. CASE Closes("sweep")
  BY <1>1, <1>2, <1>10, ReadStays, SaveStays DEF Closes, MayClose, saving
<1>11. CASE Drops("sweep")
  BY <1>11, DropsSave
<1>12. CASE ReleaseLooks /\ PassEnds /\ UNCHANGED jobs
  BY <1>6, <1>12 DEF ReleaseLooks, saving
<1> QED BY <1>4, <1>5, <1>7, <1>8, <1>9, <1>10, <1>11, <1>12 DEF PeriodicTask, ReleaseLooks

LEMMA ShutdownSave ==
  ASSUME RegistryInv, ~HubDrops, SaveInv, ShutdownBegins \/ ShutdownRuns
  PROVE  SaveInv'
<1>1. "shutdown" \in Caller /\ "shutdown" \notin Visitor /\ "sweep" # "shutdown"
  BY Names
<1>2. \A p \in {"stopping", "queued", "ended", "closing"} : p \notin Loading
  BY DEF Loading
<1>3. CASE ShutdownBegins
  <2>1. at["shutdown"] # "ended"
    BY <1>3 DEF ShutdownBegins, RegistryInv, ShutdownInv
  <2> QED BY <1>1, <1>2, <1>3, <2>1, ReadStays, SaveStays DEF ShutdownBegins, spaces, saving
<1>4. CASE ShutdownLists
  <2>1. \E x : Goes("shutdown", "queued", x) \/ Goes("shutdown", "ended", x)
    BY <1>4 DEF ShutdownLists
  <2>2. PICK x : Goes("shutdown", "queued", x) \/ Goes("shutdown", "ended", x)
    BY <2>1
  <2> QED BY <1>1, <1>2, <1>4, <2>2, ReadStays, SaveStays DEF ShutdownLists, spaces, saving
<1>5. CASE ShutdownSaves
  <2>1. /\ live = of["shutdown"] /\ live \in Space /\ "saving" \in AtSave /\ at["shutdown"] = "queued"
        /\ at["shutdown"] \notin AtSave /\ at["sweep"] \notin Ending
    BY <1>1, <1>5 DEF ShutdownSaves, RegistryInv, Types, TypeOK, ShutdownInv, AtSave, Ending
  <2> QED BY <1>1, <1>5, <2>1, SaveAsked DEF ShutdownSaves, spaces
<1>6. CASE Closes("shutdown")
  BY <1>1, <1>2, <1>6, ReadStays, SaveStays DEF Closes, MayClose, saving
<1>7. CASE Drops("shutdown")
  BY <1>7, DropsSave
<1> QED BY <1>3, <1>4, <1>5, <1>6, <1>7 DEF ShutdownRuns

LEMMA SaveKept == RegistryInv /\ SaveInv /\ [Next]_vars => SaveInv'
<1> SUFFICES ASSUME RegistryInv, SaveInv, [Next]_vars PROVE SaveInv'
  OBVIOUS
<1>1. mix' = mix
  <2>1. CASE Next
    <3>1. ASSUME NEW c \in Visitor, Arrives(c) \/ Visits(c) \/ GivesUp(c) PROVE mix' = mix
      BY <3>1 DEF Arrives, Visits, GivesUp, Finds, Creates, Loads, LoadsPreferences, SetsAside, Publishes
    <3>2. ASSUME NEW t \in Tabs, Dropped(t) \/ Detaches(t) PROVE mix' = mix
      BY <3>2 DEF Dropped, Detaches
    <3>3. ASSUME NEW s \in Space, SaveRuns(s) \/ Written(s) \/ WriteFails(s) PROVE mix' = mix
      BY <3>3 DEF SaveRuns, SaveBegins, SaveGoesOn, Written, WriteFails
    <3>4. ASSUME NEW s \in Space, NEW p \in Part, Changes(s, p) PROVE mix' = mix
      BY <3>4 DEF Changes
    <3>5. ASSUME PassBegins \/ PeriodicTask PROVE mix' = mix
      BY <3>5 DEF PassBegins, PeriodicTask, SweepEnds, Decides, ReleaseLooks, ReleaseGivesUp, Closes, Drops
    <3>6. ASSUME ShutdownBegins \/ ShutdownRuns PROVE mix' = mix
      BY <3>6 DEF ShutdownBegins, ShutdownRuns, ShutdownLists, ShutdownSaves, Closes, Drops
    <3> QED BY <2>1, <3>1, <3>2, <3>3, <3>4, <3>5, <3>6 DEF Next
  <2> QED BY <2>1 DEF vars
<1>2. CASE HubDrops
  BY <1>1, <1>2 DEF SaveInv, HubDrops
<1>3. CASE ~HubDrops
  <2>1. CASE Next
    <3>1. ASSUME NEW c \in Visitor, Arrives(c) \/ Visits(c) \/ GivesUp(c) PROVE SaveInv'
      BY <1>3, <3>1, VisitorSave
    <3>2. ASSUME NEW t \in Tabs, Dropped(t) \/ Detaches(t) PROVE SaveInv'
      BY <1>3, <3>2, DetachesSave DEF Dropped
    <3>3. ASSUME NEW s \in Space, SaveRuns(s) \/ Written(s) \/ WriteFails(s) PROVE SaveInv'
      BY <1>3, <3>3, SaveRunsSave, ThreadSave
    <3>4. ASSUME NEW s \in Space, NEW p \in Part, Changes(s, p) PROVE SaveInv'
      BY <1>3, <3>4, ChangesSave
    <3>5. ASSUME PassBegins \/ PeriodicTask PROVE SaveInv'
      BY <1>3, <3>5, SweepSave
    <3>6. ASSUME ShutdownBegins \/ ShutdownRuns PROVE SaveInv'
      BY <1>3, <3>6, ShutdownSave
    <3> QED BY <2>1, <3>1, <3>2, <3>3, <3>4, <3>5, <3>6 DEF Next
  <2>2. CASE UNCHANGED vars
    BY <2>2 DEF vars, SaveInv, SavesInOrder, StoredInv, ReadInv, Kept, HubDrops, spaces, locks, callers,
                saving, data
  <2> QED BY <2>1, <2>2
<1> QED BY <1>2, <1>3

LEMMA SaveInit == Init => SaveInv
<1> SUFFICES ASSUME Init, ~HubDrops PROVE SavesInOrder /\ StoredInv
  BY DEF SaveInv
<1>1. 1 \in Part /\ \A p \in Part : Fresh[p] = 0
  BY PartsAssumption DEF Part, Fresh
<1>2. \A p \in Part : stored[p] # Refused => stored[p] = 0
  BY <1>1 DEF Init, Fresh
<1>3. SavesInOrder
  BY Names, LocksExist DEF Init, SavesInOrder, Loading
<1>4. ReadInv
  BY Names DEF Init, ReadInv
<1> QED BY <1>2, <1>3, <1>4, LocksExist DEF Init, StoredInv

LEMMA SavesHold == Spec => [](RegistryInv /\ SaveInv)
<1>1. Init => RegistryInv /\ SaveInv
  BY RegistryInit, SaveInit
<1>2. (RegistryInv /\ SaveInv) /\ [Next]_vars => (RegistryInv /\ SaveInv)'
  BY RegistryKept, SaveKept
<1> QED BY <1>1, <1>2, PTL DEF Spec

\* As long as no hub drops a tab, what the next save compares with (saved_text) is what the
\* storage holds, whatever spaces came and went and whatever write failed (_save_now, _create).
THEOREM BaselineStored == Spec => []BaselineIsStored
<1>1. RegistryInv /\ SaveInv => BaselineIsStored
  <2> SUFFICES ASSUME RegistryInv, SaveInv, live # None, Quiet, ~HubDrops PROVE saved[live] = stored
    BY DEF BaselineIsStored
  <2>1. live \in Space
    BY DEF RegistryInv, Types, TypeOK
  <2>2. write[live].thread = "none"
    BY <2>1 DEF Quiet, Idle
  <2>3. \A p \in Part : saved[live][p] = stored[p]
    BY <2>1, <2>2 DEF SaveInv, StoredInv, Kept
  <2>4. saved[live] \in [Part -> Number] /\ stored \in [Part -> Number \cup {Refused}]
    BY <2>1 DEF RegistryInv, Types, TypeOK, Texts
  <2> QED BY <2>3, <2>4
<1> QED BY <1>1, SavesHold, PTL

\* As long as no hub drops a tab, a stored snapshot is never overwritten by an older one: the
\* saves of a space are serialised (_save), and a successor is loaded after them (release_idle).
THEOREM NewerKept == Spec => NewerStaysUndropped
<1> DEFINE Newer == ~HubDrops => \A p \in Part : stored[p] # Refused => stored'[p] >= stored[p]
<1>1. RegistryInv /\ SaveInv /\ [Next]_vars => [Newer]_vars
  <2> SUFFICES ASSUME RegistryInv, SaveInv, Next, ~HubDrops, NEW p \in Part, stored[p] # Refused
               PROVE  stored'[p] >= stored[p]
    OBVIOUS
  <2>1. stored \in [Part -> Number \cup {Refused}] /\ stored[p] \in Nat
    BY DEF RegistryInv, Types, TypeOK, Number
  <2>2. ASSUME NEW s \in Space, Written(s) PROVE stored'[p] >= stored[p]
    <3>1. /\ write[s].thread = "running" /\ stored' = [stored EXCEPT ![write[s].part] = write[s].text]
      BY <2>2 DEF Written
    <3>2. Kept(s)
      BY <3>1 DEF RegistryInv, JobInv, SaveInv, StoredInv
    <3>3. write[s].part = p => stored[p] <= write[s].text /\ write[s].text \in Nat
      <4>1. write[s].text \in Nat
        BY DEF RegistryInv, Types, TypeOK, Number
      <4> QED BY <3>1, <3>2, <4>1 DEF Kept
    <3> QED BY <2>1, <3>1, <3>3
  <2>3. ASSUME NEW c \in Visitor, SetsAside(c) PROVE stored'[p] >= stored[p]
    <3>1. stored' = [stored EXCEPT ![1] = 0] /\ at[c] = "loaded" /\ loaded[c][1] = Refused
      BY <2>3 DEF SetsAside
    <3>2. stored[1] = Refused
      BY <3>1 DEF SaveInv, StoredInv, ReadInv
    <3> QED BY <2>1, <3>1, <3>2
  <2>4. ASSUME UNCHANGED stored PROVE stored'[p] >= stored[p]
    BY <2>1, <2>4
  <2>5. ASSUME NEW c \in Visitor, Arrives(c) \/ Visits(c) \/ GivesUp(c) PROVE SetsAside(c) \/ UNCHANGED stored
    BY <2>5 DEF Arrives, Visits, GivesUp, Finds, Creates, Loads, LoadsPreferences, Publishes, saving
  <2>6. ASSUME NEW t \in Tabs, Dropped(t) \/ Detaches(t) PROVE UNCHANGED stored
    BY <2>6 DEF Dropped, Detaches, saving
  <2>7. ASSUME NEW s \in Space, SaveRuns(s) \/ WriteFails(s) PROVE UNCHANGED stored
    BY <2>7 DEF SaveRuns, SaveBegins, SaveGoesOn, WriteFails
  <2>8. ASSUME NEW s \in Space, NEW q \in Part, Changes(s, q) PROVE UNCHANGED stored
    BY <2>8 DEF Changes, saving
  <2>9. ASSUME PassBegins \/ PeriodicTask PROVE UNCHANGED stored
    BY <2>9 DEF PassBegins, PeriodicTask, SweepEnds, Decides, ReleaseLooks, ReleaseGivesUp, Closes, Drops,
                saving
  <2>10. ASSUME ShutdownBegins \/ ShutdownRuns PROVE UNCHANGED stored
    BY <2>10 DEF ShutdownBegins, ShutdownRuns, ShutdownLists, ShutdownSaves, Closes, Drops, saving
  <2> QED BY <2>2, <2>3, <2>4, <2>5, <2>6, <2>7, <2>8, <2>9, <2>10 DEF Next
<1>2. Spec => [][Newer]_vars
  BY <1>1, SavesHold, PTL DEF Spec
<1> QED BY <1>2 DEF NewerStaysUndropped
=============================================================================
