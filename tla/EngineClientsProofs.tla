------------------------ MODULE EngineClientsProofs ------------------------
(***************************************************************************)
(* Theorems of the engine clients: the GTP client's mirror is the engine's *)
(* board, what a call is given was answered to it, and what was left stays *)
(* left, for any settings, positions and vertices, any bounds on undo,     *)
(* attempts and lines under way, any number of query ids and job tokens.   *)
(***************************************************************************)
EXTENDS EngineClients, SequenceTheorems, WellFoundedInduction, TLAPS

-----------------------------------------------------------------------------
(* The inductive invariant of the GTP client.                              *)

Boards     == [key : Keys \cup {NoKey}, moves : Seq(Vertices)]
Positioned == {"genmove", "genmove_analyze", "start", "final_score"}
Phases     == {"none", "name", "list", "param", "sync", "clear", "rules", "setup", "main"}
JobType    == [op : Ops \cup {"none", "connect"}, phase : Phases, pos : Boards, tried : Nat]
LineType   == [kind : {"reply", "alien", "report", "end", "move"}, ok : BOOLEAN,
               word : Vertices \cup {"resign", "junk", "none"}, fresh : BOOLEAN]
Words      == Ops \cup (Phases \ {"main"}) \cup {"undo", "play", "quit", "interrupt", "connect"}
SentType   == [word : Words, move : Vertices \cup Keys \cup {NoKey, "none"}, fresh : BOOLEAN]

GtpFields ==
  /\ skills \in Skills
  /\ mirror \in Boards
  /\ job \in JobType
  /\ lock \in Callers \cup {"none"} /\ stopLock \in Callers \cup {"none"}
  /\ stream \in {"none", "reading", "ended"}
  /\ slot \in BOOLEAN
  /\ lines \in Seq(LineType)
  /\ outbox \in Seq(SentType)
  /\ engine \in {"idle", "analysing", "searching"}
  /\ strayed \in BOOLEAN

\* Who holds a lock is where the lock is held; the stream runs while the slot or a stop knows
\* of it, and never beside a command.
LocksInv ==
  /\ lock = "caller" <=> at \in {"asking", "reading"}
  /\ lock = "closer" <=> closer = "asking"
  /\ \A p \in Callers : stopLock = p <=> At(p) = "stopping"
  /\ lock # "none" => ~slot /\ stopLock = "none"
  /\ slot => stopLock = "none"
  /\ stream # "none" <=> slot \/ stopLock # "none"

\* What a call is about, and what its phase says of the mirror.
JobInv ==
  /\ \/ job = NoJob
     \/ job.op = "connect" /\ job.phase \in {"name", "list"}
     \/ job.op \in {"raw", "stop"} /\ job.phase = "main"
     \/ /\ job.op \in Positioned /\ job.pos.key \in Keys
        /\ job.phase \in {"param", "sync", "clear", "rules", "setup", "main"}
  /\ job.op = "raw" \/ job.phase \in {"clear", "rules", "setup"} => mirror = NoBoard
  /\ job.op \in Positioned /\ job.phase = "main" =>
       mirror = job.pos /\ at \in {"asking", "reading"}
  /\ at = "idle" => job = NoJob
  /\ at # "idle" => job # NoJob
  /\ at = "asking" => NextCommand("caller").phase = job.phase /\ job.op # "stop"
  /\ at = "reading" => job.op = "genmove_analyze" /\ job.phase = "main"

TrueBoard == ~strayed /\ mirror.key # NoKey => board = mirror

\* Nothing is asked: what the engine has not read are interrupts, what came is of an analysis.
Unasked ==
  /\ \A i \in 1 .. Len(outbox) : outbox[i].word = "interrupt"
  /\ \A i \in 1 .. Len(lines) : lines[i].kind \in {"report", "end"}
  /\ engine # "searching"
  /\ TrueBoard

\* The command is the last the engine has to read.
InOutbox(c) ==
  /\ outbox # <<>>
  /\ outbox[Len(outbox)] = [word |-> c.word, move |-> c.move, fresh |-> TRUE]
  /\ \A i \in 1 .. Len(outbox) - 1 : outbox[i].word = "interrupt"
  /\ \A i \in 1 .. Len(lines) : lines[i].kind \in {"report", "end"}
  /\ engine # "searching"
  /\ TrueBoard

\* After line r the engine searches, or its move is the last line.
SearchAfter(r) ==
  /\ \A i \in r + 1 .. Len(lines) : i < Len(lines) => lines[i].kind = "report"
  /\ engine # "analysing"
  /\ engine = "searching" =>
       (Len(lines) > r => lines[Len(lines)].kind = "report") /\ TrueBoard
  /\ engine = "idle" =>
       /\ Len(lines) > r /\ lines[Len(lines)].kind = "move"
       /\ lines[Len(lines)].word # "none"
       /\ ~strayed => lines[Len(lines)].word # "junk"
       /\ ~strayed /\ mirror.key # NoKey => board = Played(lines[Len(lines)].word)

\* What the reply at r says of the engine's board.
ReplyTells(c, r) ==
  /\ lines[r].kind = "alien" => ~lines[r].ok
  /\ ~lines[r].ok => TrueBoard
  /\ lines[r].ok /\ c.word = "genmove" =>
       /\ lines[r].word # "none"
       /\ ~strayed => lines[r].word # "junk"
       /\ ~strayed /\ mirror.key # NoKey => board = Played(lines[r].word)
  /\ lines[r].ok /\ c.word \notin {"genmove", "genmove_analyze"} =>
       (~strayed /\ Recorded(c).key # NoKey => board = Recorded(c))

\* The reply has come, the first since the command that is no line of an analysis.
InLines(c) ==
  /\ outbox = <<>>
  /\ \E r \in 1 .. Len(lines) :
       /\ lines[r].kind \in {"reply", "alien"} /\ lines[r].fresh
       /\ \A i \in 1 .. r - 1 : lines[i].kind \in {"report", "end"}
       /\ ReplyTells(c, r)
       /\ IF lines[r].ok /\ c.word = "genmove_analyze"
          THEN SearchAfter(r)
          ELSE /\ \A i \in r + 1 .. Len(lines) : lines[i].kind \in {"report", "end"}
               /\ engine # "searching"

WireInv ==
  /\ failure = "none" /\ lock = "none" => Unasked
  /\ \A p \in Callers :
       At(p) = "asking" => InOutbox(NextCommand(p)) \/ InLines(NextCommand(p))
  /\ at = "reading" => outbox = <<>> /\ SearchAfter(0)

GtpInv == LocksInv /\ JobInv /\ WireInv

-----------------------------------------------------------------------------
(* The inductive invariants of the other two clients.                      *)

\* The other protocols' variables rest.
AtRest ==
  /\ protocol # "gtp" => mirror = NoBoard /\ job.phase = "name" /\ lines = <<>> /\ stream = "none"
  /\ protocol # "handol" =>
       pending = 0 /\ \A c \in Channels : link[c] # "up" /\ surface[c] # "stale"
  /\ protocol # "analysis" => handlers = {} /\ live = 0

HandolInv ==
  /\ current # 0 => sought = current
  /\ failure # "none" => pending = 0 /\ current = 0
  /\ ask = "connect" => closer = "idle"
  /\ retired <=> closer = "done"
  /\ retired => \A c \in Channels : link[c] # "up"
  /\ \A c \in Channels : surface[c] # "stale"

AnalysisInv ==
  /\ queries \in Seq([id : QueryIds, terminate : BOOLEAN])
  /\ answers \subseteq [id : QueryIds, kind : {"report", "final", "error"}]
  /\ handlers = {live} \ {0}
  /\ live # 0 => live = wanted
  /\ failure # "none" => live = 0
  /\ at = "stopping" => live = 0

LeftInv ==
  /\ heard # "left"
  /\ closer = "done" => failure = "closed" /\ ~reader

ClientsInv ==
  /\ BaseType /\ GtpFields /\ HandolType /\ AnalysisType
  /\ AtRest /\ LeftInv
  /\ protocol = "gtp" => GtpInv
  /\ protocol = "handol" => HandolInv
  /\ protocol = "analysis" => AnalysisInv
-----------------------------------------------------------------------------
(* Lemmas: least numbers, common prefixes, synchronised boards.            *)

LEMMA Least ==
  ASSUME NEW T \in SUBSET Nat, T # {}
  PROVE  \E x \in T : \A y \in T : x <= y
<1> DEFINE R == OpToRel(<, Nat)
<1>1. IsWellFoundedOn(R, Nat)
  BY NatLessThanWellFounded
<1>2. ASSUME NEW x \in Nat, NEW y \in Nat, ~(<<y, x>> \in R) PROVE x <= y
  BY <1>2 DEF OpToRel
<1> HIDE DEF R
<1>3. PICK x \in T : \A y \in T : ~(<<y, x>> \in R)
  BY <1>1, WFMin
<1>4. \A y \in T : x <= y
  BY <1>2, <1>3
<1> QED
  BY <1>4

LEMMA PrefixIs ==
  ASSUME NEW S, NEW s \in Seq(S), NEW t \in Seq(S), IsPrefix(s, t)
  PROVE  Len(s) <= Len(t) /\ \A i \in 1 .. Len(s) : s[i] = t[i]
<1>1. SubSeq(s, 1, Len(s)) = SubSeq(t, 1, Len(s)) /\ Len(s) <= Len(t)
  BY DEF IsPrefix
<1>2. \A i \in 1 .. Len(s) : SubSeq(s, 1, Len(s))[i] = s[i] /\ SubSeq(t, 1, Len(s))[i] = t[i]
  BY <1>1, SubSeqProperties
<1> QED
  BY <1>1, <1>2

\* What sync compares: the moves two games share, from the start.
LEMMA SharedIs ==
  ASSUME NEW S, NEW a \in Seq(S), NEW b \in Seq(S)
  PROVE  /\ Shared(a, b) \in Nat /\ Shared(a, b) <= Len(a) /\ Shared(a, b) <= Len(b)
         /\ \A i \in 1 .. Shared(a, b) : a[i] = b[i]
<1> DEFINE C == CommonPrefixes({a, b})
<1>1. ASSUME NEW p \in C
      PROVE  p \in Seq(S) /\ IsPrefix(p, a) /\ IsPrefix(p, b)
  <2>1. PICK s \in {a, b}, l \in Nat : l \in 0 .. Len(s) /\ p = SubSeq(s, 1, l)
    BY LenProperties DEF CommonPrefixes, Prefixes
  <2>2. p \in Seq(S)
    BY <2>1, SubSeqProperties, LenProperties
  <2> QED
    BY <2>2 DEF CommonPrefixes
<1>2. <<>> \in C
  <2>1. <<>> = SubSeq(a, 1, 0) /\ <<>> = SubSeq(b, 1, 0) /\ Len(a) \in Nat /\ Len(b) \in Nat
    BY SubSeqProperties, LenProperties, EmptySeq
  <2>2. IsPrefix(<<>>, a) /\ IsPrefix(<<>>, b)
    <3>1. Len(<<>>) = 0 /\ SubSeq(<<>>, 1, 0) = <<>>
      OBVIOUS
    <3> QED
      BY <2>1, <3>1 DEF IsPrefix
  <2>3. <<>> \in Prefixes(a)
    BY <2>1 DEF Prefixes
  <2> QED
    BY <2>2, <2>3 DEF CommonPrefixes
<1> HIDE DEF C
<1>3. \A p \in C : Len(p) \in Nat /\ Len(p) <= Len(a)
  BY <1>1, PrefixIs, LenProperties
<1>4. PICK m \in C : \A p \in C : Len(p) <= Len(m)
  <2> DEFINE T == {Len(a) - Len(p) : p \in C}
  <2>1. T \in SUBSET Nat /\ T # {}
    BY <1>2, <1>3, LenProperties
  <2>2. PICK x \in T : \A y \in T : x <= y
    BY <2>1, Least
  <2>3. PICK m \in C : x = Len(a) - Len(m)
    BY <2>2
  <2>4. ASSUME NEW p \in C PROVE Len(p) <= Len(m)
    <3>1. Len(a) - Len(m) <= Len(a) - Len(p)
      BY <2>2, <2>3
    <3> QED
      BY <3>1, <1>3, LenProperties
  <2> QED
    BY <2>4
<1>5. LongestCommonPrefix({a, b}) \in C
  BY <1>4 DEF LongestCommonPrefix, C
<1> DEFINE q == LongestCommonPrefix({a, b})
<1>6. q \in Seq(S) /\ IsPrefix(q, a) /\ IsPrefix(q, b)
  BY <1>1, <1>5
<1>7. Shared(a, b) = Len(q)
  BY DEF Shared
<1> HIDE DEF q
<1>8. Len(q) \in Nat
  BY <1>6, LenProperties
<1>9. Len(q) <= Len(a) /\ \A i \in 1 .. Len(q) : q[i] = a[i]
  BY <1>6, PrefixIs
<1>10. Len(q) <= Len(b) /\ \A i \in 1 .. Len(q) : q[i] = b[i]
  BY <1>6, PrefixIs
<1> QED
  BY <1>7, <1>8, <1>9, <1>10

\* A synchronised mirror is the position of the call.
LEMMA SyncedIs ==
  ASSUME mirror \in Boards, job \in JobType, Synced
  PROVE  mirror = job.pos
<1>1. /\ mirror.moves \in Seq(Vertices) /\ job.pos.moves \in Seq(Vertices)
      /\ mirror = [key |-> mirror.key, moves |-> mirror.moves]
      /\ job.pos = [key |-> job.pos.key, moves |-> job.pos.moves]
  BY DEF Boards, JobType
<1> DEFINE n == Shared(mirror.moves, job.pos.moves)
<1>2. /\ n \in Nat /\ n <= Len(mirror.moves) /\ n <= Len(job.pos.moves)
      /\ \A i \in 1 .. n : mirror.moves[i] = job.pos.moves[i]
  BY <1>1, SharedIs
<1>3. Len(mirror.moves) - n <= 0 /\ Len(mirror.moves) >= Len(job.pos.moves)
      /\ mirror.key = job.pos.key
  BY DEF Synced, Extra, NeedsReset
<1> HIDE DEF n
<1>4. Len(mirror.moves) = n /\ Len(job.pos.moves) = n
  BY <1>1, <1>2, <1>3, LenProperties
<1>5. mirror.moves = job.pos.moves
  BY <1>1, <1>2, <1>4, SeqEqual
<1> QED
  BY <1>1, <1>3, <1>5

\* The command a sync sends can be sent: there is a move to take back, or one to play.
LEMMA SyncIs ==
  ASSUME mirror \in Boards, job \in JobType, ~Synced, ~NeedsReset(mirror, job.pos)
  PROVE  /\ mirror.key = job.pos.key
         /\ Extra(mirror, job.pos) > 0 => mirror.moves # <<>>
         /\ ~(Extra(mirror, job.pos) > 0) =>
              Len(mirror.moves) + 1 \in 1 .. Len(job.pos.moves)
<1>1. mirror.moves \in Seq(Vertices) /\ job.pos.moves \in Seq(Vertices)
  BY DEF Boards, JobType
<1> DEFINE n == Shared(mirror.moves, job.pos.moves)
<1>2. n \in Nat /\ n <= Len(mirror.moves) /\ Len(mirror.moves) \in Nat /\ Len(job.pos.moves) \in Nat
  BY <1>1, SharedIs, LenProperties
<1>3. Extra(mirror, job.pos) = Len(mirror.moves) - n
  BY DEF Extra
<1> HIDE DEF n
<1>4. mirror.key = job.pos.key
  BY DEF NeedsReset
<1>5. ~(Extra(mirror, job.pos) > 0) => Len(mirror.moves) < Len(job.pos.moves)
  BY <1>2, <1>3 DEF Synced
<1>6. mirror.moves = <<>> => Len(mirror.moves) = 0
  BY EmptySeq
<1> QED
  BY <1>2, <1>3, <1>4, <1>5, <1>6

-----------------------------------------------------------------------------
(* What becomes of the connection: it never gets better.                   *)

ConnType ==
  /\ failure \in {"none", "unusable", "closed"}
  /\ closing \in BOOLEAN
  /\ report \in {"none", "scheduled", "delivered", "dropped"}
  /\ sock \in {"up", "broken", "down"}
  /\ peer \in BOOLEAN /\ reader \in BOOLEAN

Worsens ==
  /\ ConnType'
  /\ failure # "none" => failure' # "none"
  /\ failure = "closed" => failure' = "closed"
  /\ reader' => reader

LEMMA ConnSteps ==
  ASSUME ConnType
  PROVE  /\ Unusable /\ UNCHANGED wire => Worsens /\ failure' # "none"
         /\ Unusable /\ reader' = FALSE /\ UNCHANGED <<sock, peer>> => Worsens /\ failure' # "none"
         /\ SendFails => Worsens /\ failure' # "none"
         /\ TornDown => Worsens /\ failure' = "closed" /\ ~reader'
         /\ Lost /\ UNCHANGED wire => Worsens /\ failure' = "closed"
         /\ UNCHANGED <<conn, wire>> => Worsens
         /\ HangsUp \/ ReaderEnds \/ Report => Worsens
         /\ closing' = TRUE /\ UNCHANGED <<failure, report, wire>> => Worsens
<1> USE DEF ConnType, Worsens, conn, wire
<1>1. Unusable /\ UNCHANGED wire => Worsens /\ failure' # "none"
  BY DEF Unusable, Worse
<1>2. TornDown => Worsens /\ failure' = "closed" /\ ~reader'
  BY DEF TornDown
<1>3. Lost /\ UNCHANGED wire => Worsens /\ failure' = "closed"
  BY DEF Lost, Worse
<1>4. UNCHANGED <<conn, wire>> => Worsens
  OBVIOUS
<1>5. SendFails => Worsens /\ failure' # "none"
  <2>1. Stalls => Worsens /\ failure' # "none"
    BY DEF Stalls, Unusable, Worse, CanSend
  <2>2. WriteLost => Worsens /\ failure' # "none"
    BY <1>3 DEF WriteLost
  <2>3. WriteBroken => Worsens /\ failure' # "none"
    BY <1>1 DEF WriteBroken
  <2>4. Refused => Worsens /\ failure' # "none"
    BY DEF Refused
  <2> QED
    BY <2>1, <2>2, <2>3, <2>4 DEF SendFails
<1>6. HangsUp => Worsens
  <2>1. HangsUp => UNCHANGED <<failure, closing, report, sock, reader>> /\ peer' = FALSE
    BY DEF HangsUp
  <2> QED
    BY <2>1
<1>7. ReaderEnds => Worsens
  BY DEF ReaderEnds, Lost, Unusable, Worse
<1>8. Report => Worsens
  BY DEF Report
<1>9. Unusable /\ reader' = FALSE /\ UNCHANGED <<sock, peer>> => Worsens /\ failure' # "none"
  BY DEF Unusable, Worse
<1>10. closing' = TRUE /\ UNCHANGED <<failure, report, wire>> => Worsens
  OBVIOUS
<1> HIDE DEF Worsens
<1> QED
  BY <1>1, <1>2, <1>3, <1>4, <1>5, <1>6, <1>7, <1>8, <1>9, <1>10

-----------------------------------------------------------------------------
(* The GTP client's steps: their types.                                    *)

SeatType ==
  /\ at \in {"idle", "ready", "stopping", "asking", "reading"}
  /\ closer \in {"idle", "ready", "stopping", "asking", "tearing", "done"}

\* Changing the marks or the order of what was sent or came keeps the types.
LEMMA LinesStay ==
  ASSUME lines \in Seq(LineType), outbox \in Seq(SentType)
  PROVE  /\ lines # <<>> => Tail(lines) \in Seq(LineType) /\ Head(lines) \in LineType
         /\ outbox # <<>> => Tail(outbox) \in Seq(SentType) /\ Head(outbox) \in SentType
<1> QED
  BY HeadTailProperties

LEMMA StaleIs ==
  ASSUME NEW s
  PROVE  /\ s \in Seq(LineType) =>
              /\ Stale(s) \in Seq(LineType) /\ Len(Stale(s)) = Len(s)
              /\ \A i \in 1 .. Len(s) : Stale(s)[i] = [s[i] EXCEPT !.fresh = FALSE]
         /\ s \in Seq(SentType) =>
              /\ Stale(s) \in Seq(SentType) /\ Len(Stale(s)) = Len(s)
              /\ \A i \in 1 .. Len(s) : Stale(s)[i] = [s[i] EXCEPT !.fresh = FALSE]
<1>1. ASSUME s \in Seq(LineType)
      PROVE  /\ Stale(s) \in Seq(LineType) /\ Len(Stale(s)) = Len(s)
             /\ \A i \in 1 .. Len(s) : Stale(s)[i] = [s[i] EXCEPT !.fresh = FALSE]
  <2>1. Len(s) \in Nat /\ DOMAIN s = 1 .. Len(s) /\ \A i \in 1 .. Len(s) : s[i] \in LineType
    BY <1>1, LenProperties, ElementOfSeq
  <2>2. \A l \in LineType : [l EXCEPT !.fresh = FALSE] \in LineType
    BY DEF LineType
  <2>3. Stale(s) = [i \in 1 .. Len(s) |-> [s[i] EXCEPT !.fresh = FALSE]]
    BY <2>1 DEF Stale
  <2>4. \A i \in 1 .. Len(s) : [s[i] EXCEPT !.fresh = FALSE] \in LineType
    BY <2>1, <2>2
  <2> QED
    BY <2>1, <2>3, <2>4
<1>2. ASSUME s \in Seq(SentType)
      PROVE  /\ Stale(s) \in Seq(SentType) /\ Len(Stale(s)) = Len(s)
             /\ \A i \in 1 .. Len(s) : Stale(s)[i] = [s[i] EXCEPT !.fresh = FALSE]
  <2>1. Len(s) \in Nat /\ DOMAIN s = 1 .. Len(s) /\ \A i \in 1 .. Len(s) : s[i] \in SentType
    BY <1>2, LenProperties, ElementOfSeq
  <2>2. \A l \in SentType : [l EXCEPT !.fresh = FALSE] \in SentType
    BY DEF SentType
  <2>3. Stale(s) = [i \in 1 .. Len(s) |-> [s[i] EXCEPT !.fresh = FALSE]]
    BY <2>1 DEF Stale
  <2>4. \A i \in 1 .. Len(s) : [s[i] EXCEPT !.fresh = FALSE] \in SentType
    BY <2>1, <2>2
  <2> QED
    BY <2>1, <2>3, <2>4
<1> QED
  BY <1>1, <1>2

-----------------------------------------------------------------------------
(* Commands and replies.                                                   *)

LEMMA NoBoardIs == NoBoard \in Boards /\ NoBoard.key = NoKey /\ NoJob \in JobType
<1>1. <<>> \in Seq(Vertices)
  BY EmptySeq
<1> QED
  BY <1>1 DEF NoBoard, NoJob, Boards, JobType, Phases, Ops

LEMMA CommandIs ==
  ASSUME mirror \in Boards, job \in JobType, NEW p \in Callers
  PROVE  /\ NextCommand(p).word \in Words \ {"interrupt"}
         /\ NextCommand(p).move \in Vertices \cup Keys \cup {NoKey, "none"}
         /\ NextCommand(p).phase \in Phases
<1> USE DEF Words, Phases, Ops, Cmd
<1>0. job.op \in Ops \cup {"none", "connect"} /\ job.phase \in Phases /\ job.pos \in Boards
  BY DEF JobType
<1>1. CASE p = "closer"
  BY <1>1 DEF NextCommand
<1>2. CASE p = "caller" /\ job.phase = "sync" /\ ~Synced
  <2>1. NextCommand(p) = SyncCommand
    BY <1>2 DEF NextCommand
  <2>2. CASE NeedsReset(mirror, job.pos)
    BY <2>1, <2>2 DEF SyncCommand
  <2>3. CASE ~NeedsReset(mirror, job.pos) /\ Extra(mirror, job.pos) > 0
    BY <2>1, <2>3 DEF SyncCommand
  <2>4. CASE ~NeedsReset(mirror, job.pos) /\ ~(Extra(mirror, job.pos) > 0)
    <3>1. Len(mirror.moves) + 1 \in 1 .. Len(job.pos.moves)
      BY <1>2, <2>4, SyncIs
    <3>2. job.pos.moves \in Seq(Vertices)
      BY <1>0 DEF Boards
    <3>3. job.pos.moves[Len(mirror.moves) + 1] \in Vertices
      BY <3>1, <3>2, ElementOfSeq
    <3> QED
      BY <2>1, <2>4, <3>3 DEF SyncCommand
  <2> QED
    BY <2>2, <2>3, <2>4
<1>3. CASE p = "caller" /\ ~(job.phase = "sync" /\ ~Synced)
  <2>1. job.pos.key \in Keys \cup {NoKey}
    BY <1>0 DEF Boards
  <2>2. NextCommand(p) \in {Cmd(job.phase, "none", job.phase), Cmd("clear", "none", "clear"),
                            Cmd("setup", job.pos.key, "setup"), Cmd(job.op, "none", "main")}
    BY <1>3 DEF NextCommand
  <2>3. NextCommand(p) = Cmd(job.phase, "none", job.phase) => job.phase # "main"
    BY <1>3, <1>0 DEF NextCommand
  <2> QED
    BY <1>0, <2>1, <2>2, <2>3
<1> QED
  BY <1>1, <1>2, <1>3 DEF Callers

\* The command a call is about stays the one it sent, until the reply.
LEMMA CommandStays ==
  ASSUME mirror \in Boards, job \in JobType, skills' = skills,
         mirror' = IF NextCommand("caller").word = "clear" THEN NoBoard ELSE mirror,
         job' = [job EXCEPT !.phase = NextCommand("caller").phase]
  PROVE  NextCommand("caller")' = NextCommand("caller")
<1> DEFINE c == NextCommand("caller")
<1>0. /\ job' = [op |-> job.op, phase |-> c.phase, pos |-> job.pos, tried |-> job.tried]
      /\ job.phase \in Phases /\ job.op \in Ops \cup {"none", "connect"}
  BY DEF JobType
<1>1. CASE job.phase \in {"name", "list", "param", "rules"}
  <2>1. c = Cmd(job.phase, "none", job.phase)
    BY <1>1 DEF NextCommand
  <2>2. job'.phase = job.phase
    BY <1>0, <2>1 DEF Cmd
  <2> QED
    BY <1>1, <2>1, <2>2 DEF NextCommand
<1>2. CASE job.phase = "clear"
  <2>1. c = Cmd("clear", "none", "clear")
    BY <1>2 DEF NextCommand
  <2>2. job'.phase = "clear"
    BY <1>0, <2>1 DEF Cmd
  <2> QED
    BY <2>1, <2>2 DEF NextCommand
<1>3. CASE job.phase = "setup"
  <2>1. c = Cmd("setup", job.pos.key, "setup")
    BY <1>3 DEF NextCommand
  <2>2. job'.phase = "setup" /\ job'.pos = job.pos
    BY <1>0, <2>1 DEF Cmd
  <2> QED
    BY <2>1, <2>2 DEF NextCommand
<1>4. CASE job.phase = "sync" /\ ~Synced
  <2>1. c = SyncCommand
    BY <1>4 DEF NextCommand
  <2>2. CASE NeedsReset(mirror, job.pos)
    <3>1. c = Cmd("clear", "none", "clear")
      BY <2>1, <2>2 DEF SyncCommand
    <3>2. job'.phase = "clear"
      BY <1>0, <3>1 DEF Cmd
    <3> QED
      BY <3>1, <3>2 DEF NextCommand
  <2>3. CASE ~NeedsReset(mirror, job.pos)
    <3>1. c.phase = "sync" /\ c.word # "clear"
      BY <2>1, <2>3 DEF SyncCommand, Cmd
    <3>2. job'.phase = job.phase /\ job'.pos = job.pos /\ mirror' = mirror
      BY <1>0, <1>4, <3>1
    <3>3. Synced' <=> Synced
      BY <3>2 DEF Synced, NeedsReset, Extra, Shared
    <3>4. SyncCommand' = SyncCommand
      <4>1. NeedsReset(mirror, job.pos)' <=> NeedsReset(mirror, job.pos)
        BY <3>2 DEF NeedsReset, Extra, Shared
      <4>2. Extra(mirror, job.pos)' = Extra(mirror, job.pos)
        BY <3>2 DEF Extra, Shared
      <4>3. job.pos.moves[Len(mirror.moves) + 1]' = job.pos.moves[Len(mirror.moves) + 1]
        BY <3>2
      <4> QED
        BY <4>1, <4>2, <4>3 DEF SyncCommand
    <3> QED
      BY <1>4, <3>2, <3>3, <3>4 DEF NextCommand
  <2> QED
    BY <2>2, <2>3
<1>5. CASE /\ job.phase \notin {"name", "list", "param", "rules", "clear", "setup"}
           /\ ~(job.phase = "sync" /\ ~Synced)
  <2>1. c = Cmd(job.op, "none", "main")
    BY <1>5 DEF NextCommand
  <2>2. job'.phase = "main" /\ job'.op = job.op
    BY <1>0, <2>1 DEF Cmd
  <2> QED
    BY <2>1, <2>2 DEF NextCommand
<1> QED
  BY <1>1, <1>2, <1>3, <1>4, <1>5

\* A reply at the head of the lines is the reply to the command that is waited for.
LEMMA HeadReply ==
  ASSUME lines \in Seq(LineType), WireInv, NEW p \in Callers, Reply(p)
  PROVE  LET c == NextCommand(p) IN
         /\ outbox = <<>> /\ Head(lines) = lines[1] /\ 1 \in 1 .. Len(lines)
         /\ ReplyTells(c, 1)
         /\ IF lines[1].ok /\ c.word = "genmove_analyze"
            THEN SearchAfter(1)
            ELSE /\ \A i \in 2 .. Len(lines) : lines[i].kind \in {"report", "end"}
                 /\ engine # "searching"
<1> DEFINE c == NextCommand(p)
<1>1. At(p) = "asking" /\ lines # <<>> /\ Head(lines).kind = "reply"
  BY DEF Reply, Asking
<1>2. Head(lines) = lines[1] /\ Len(lines) \in Nat /\ 1 \in 1 .. Len(lines)
  BY <1>1, EmptySeq, HeadTailProperties, LenProperties
<1>3. InOutbox(c) \/ InLines(c)
  BY <1>1 DEF WireInv
<1> HIDE DEF c
<1>4. ~InOutbox(c)
  BY <1>1, <1>2 DEF InOutbox
<1>5. PICK r \in 1 .. Len(lines) :
        /\ lines[r].kind \in {"reply", "alien"} /\ lines[r].fresh
        /\ \A i \in 1 .. r - 1 : lines[i].kind \in {"report", "end"}
        /\ ReplyTells(c, r)
        /\ IF lines[r].ok /\ c.word = "genmove_analyze"
           THEN SearchAfter(r)
           ELSE /\ \A i \in r + 1 .. Len(lines) : lines[i].kind \in {"report", "end"}
                /\ engine # "searching"
  BY <1>3, <1>4 DEF InLines
<1>6. r = 1
  <2> SUFFICES ASSUME r # 1 PROVE FALSE
    OBVIOUS
  <2>1. 1 \in 1 .. r - 1
    BY <1>2, <1>5
  <2> QED
    BY <2>1, <1>1, <1>2, <1>5
<1>7. outbox = <<>>
  BY <1>3, <1>4 DEF InLines
<1> QED
  BY <1>2, <1>5, <1>6, <1>7 DEF c


-----------------------------------------------------------------------------
(* The GTP client's steps: connection, locks, jobs and types.              *)

Books == SeatType /\ GtpFields /\ LocksInv /\ JobInv

\* With what does not change, the command of a call is the same.
LEMMA SameCommand ==
  ASSUME mirror' = mirror, job' = job, skills' = skills
  PROVE  \A p \in Callers : NextCommand(p)' = NextCommand(p)
<1>1. NextCommand("caller")' = NextCommand("caller")
  <2>1. Synced' <=> Synced
    BY DEF Synced, NeedsReset, Extra, Shared
  <2>2. SyncCommand' = SyncCommand
    <3>1. NeedsReset(mirror, job.pos)' <=> NeedsReset(mirror, job.pos)
      BY DEF NeedsReset, Extra, Shared
    <3>2. Extra(mirror, job.pos)' = Extra(mirror, job.pos)
      BY DEF Extra, Shared
    <3>3. job.pos.moves[Len(mirror.moves) + 1]' = job.pos.moves[Len(mirror.moves) + 1]
      OBVIOUS
    <3> QED
      BY <3>1, <3>2, <3>3 DEF SyncCommand
  <2> QED
    BY <2>1, <2>2 DEF NextCommand
<1>2. NextCommand("closer")' = NextCommand("closer")
  BY DEF NextCommand
<1> QED
  BY <1>1, <1>2 DEF Callers

LEMMA BooksStop ==
  ASSUME ConnType, Books, NEW p \in Callers, Stop(p)
  PROVE  Worsens /\ Books'
<1> USE DEF Books
<1>1. Worsens
  BY ConnSteps DEF Stop, Leaves, conn, wire
<1>2. SeatType' /\ LocksInv'
  BY DEF Stop, LocksInv, SeatType, At, GoTo, Fails, Unlock, CallEnds, Kept, Callers, GtpFields, locks, theirs
<1>3. GtpFields'
  <2>1. outbox' \in Seq(SentType)
    <3>1. [word |-> "interrupt", move |-> "none", fresh |-> TRUE] \in SentType
      BY DEF SentType, Words
    <3> QED
      BY SMTT(30), <3>1, AppendProperties DEF Stop, GtpFields
  <2>2. skills' = skills /\ mirror' = mirror /\ job' = job /\ lines' = lines /\ lock' = lock
        /\ engine' = engine /\ strayed' = strayed
    BY DEF Stop, Kept
  <2>3. stopLock' \in Callers \cup {"none"} /\ stream' \in {"none", "reading", "ended"}
        /\ slot' \in BOOLEAN
    BY DEF Stop, GtpFields
  <2> QED
    BY <2>1, <2>2, <2>3 DEF GtpFields
<1>4. JobInv'
  BY SameCommand, NoBoardIs DEF Stop, JobInv, LocksInv, SeatType, GtpFields, At, GoTo, Fails, Unlock, CallEnds, Forgotten, NoJob, Kept, Callers, locks, theirs
<1> QED
  BY <1>1, <1>2, <1>3, <1>4

LEMMA BooksStopEnds ==
  ASSUME ConnType, Books, NEW p \in Callers, StopEnds(p)
  PROVE  Worsens /\ Books'
<1> USE DEF Books
<1>1. Worsens
  BY ConnSteps DEF StopEnds, Leaves, conn, wire
<1>2. SeatType' /\ LocksInv'
  BY DEF StopEnds, LocksInv, SeatType, At, GoTo, Fails, Unlock, CallEnds, Kept, Callers, GtpFields, locks, theirs
<1>3. GtpFields'
  BY NoBoardIs, LinesStay DEF StopEnds, GtpFields, GoTo, At, Fails, Unlock, CallEnds, Forgotten, Kept, theirs, locks, Callers
<1>4. JobInv'
  BY SameCommand, NoBoardIs DEF StopEnds, JobInv, LocksInv, SeatType, GtpFields, At, GoTo, Fails, Unlock, CallEnds, Forgotten, NoJob, Kept, Callers, locks, theirs
<1> QED
  BY <1>1, <1>2, <1>3, <1>4

LEMMA BooksTimesOut ==
  ASSUME ConnType, Books, NEW p \in Callers, TimesOut(p)
  PROVE  Worsens /\ Books'
<1> USE DEF Books
<1>1. Worsens
  BY ConnSteps DEF TimesOut, Asking, Leaves, conn, wire
<1>2. SeatType' /\ LocksInv'
  BY DEF TimesOut, LocksInv, SeatType, At, GoTo, Fails, Unlock, CallEnds, Kept, Callers, GtpFields, locks, Asking, theirs
<1>3. GtpFields'
  BY NoBoardIs, LinesStay DEF TimesOut, GtpFields, GoTo, At, Fails, Unlock, CallEnds, Forgotten, Kept, theirs, locks, Callers, Asking
<1>4. JobInv'
  BY SameCommand, NoBoardIs DEF TimesOut, JobInv, LocksInv, SeatType, GtpFields, At, GoTo, Fails, Unlock, CallEnds, Forgotten, NoJob, Kept, Callers, locks, theirs, Asking
<1> QED
  BY <1>1, <1>2, <1>3, <1>4

LEMMA BooksBroken ==
  ASSUME ConnType, Books, NEW p \in Callers, Broken(p)
  PROVE  Worsens /\ Books'
<1> USE DEF Books
<1>1. Worsens
  BY ConnSteps DEF Broken, Asking, Leaves, conn, wire
<1>2. SeatType' /\ LocksInv'
  BY DEF Broken, LocksInv, SeatType, At, GoTo, Fails, Unlock, CallEnds, Kept, Callers, GtpFields, locks, Asking, theirs
<1>3. GtpFields'
  BY NoBoardIs, LinesStay DEF Broken, GtpFields, GoTo, At, Fails, Unlock, CallEnds, Forgotten, Kept, theirs, locks, Callers, Asking
<1>4. JobInv'
  BY SameCommand, NoBoardIs DEF Broken, JobInv, LocksInv, SeatType, GtpFields, At, GoTo, Fails, Unlock, CallEnds, Forgotten, NoJob, Kept, Callers, locks, theirs, Asking
<1> QED
  BY <1>1, <1>2, <1>3, <1>4

LEMMA BooksMismatch ==
  ASSUME ConnType, Books, NEW p \in Callers, Mismatch(p)
  PROVE  Worsens /\ Books'
<1> USE DEF Books
<1>1. Worsens
  BY ConnSteps DEF Mismatch, Asking, Leaves, conn, wire
<1>2. SeatType' /\ LocksInv'
  BY DEF Mismatch, LocksInv, SeatType, At, GoTo, Fails, Unlock, CallEnds, Kept, Callers, GtpFields, locks, Asking, theirs
<1>3. GtpFields'
  BY NoBoardIs, LinesStay DEF Mismatch, GtpFields, GoTo, At, Fails, Unlock, CallEnds, Forgotten, Kept, theirs, locks, Callers, Asking
<1>4. JobInv'
  BY SameCommand, NoBoardIs DEF Mismatch, JobInv, LocksInv, SeatType, GtpFields, At, GoTo, Fails, Unlock, CallEnds, Forgotten, NoJob, Kept, Callers, locks, theirs, Asking
<1> QED
  BY <1>1, <1>2, <1>3, <1>4

LEMMA BooksRejected ==
  ASSUME ConnType, Books, NEW p \in Callers, Rejected(p)
  PROVE  Worsens /\ Books'
<1> USE DEF Books
<1>1. Worsens
  BY ConnSteps DEF Rejected, Reply, Asking, Leaves, conn, wire
<1>2. SeatType' /\ LocksInv'
  BY DEF Rejected, LocksInv, SeatType, At, GoTo, Fails, Unlock, CallEnds, Kept, Callers, GtpFields, locks, Reply, Asking, theirs
<1>3. GtpFields'
  BY NoBoardIs, LinesStay DEF Rejected, GtpFields, GoTo, At, Fails, Unlock, CallEnds, Forgotten, Kept, theirs, locks, Callers, Reply, Asking
<1>4. JobInv'
  BY SameCommand, NoBoardIs DEF Rejected, JobInv, LocksInv, SeatType, GtpFields, At, GoTo, Fails, Unlock, CallEnds, Forgotten, NoJob, Kept, Callers, locks, theirs, Reply, Asking
<1> QED
  BY <1>1, <1>2, <1>3, <1>4

LEMMA BooksSkip ==
  ASSUME ConnType, Books, NEW p \in Callers, Skip(p)
  PROVE  Worsens /\ Books'
<1> USE DEF Books
<1>1. Worsens
  BY ConnSteps DEF Skip, Asking, Leaves, conn, wire
<1>2. SeatType' /\ LocksInv'
  BY DEF Skip, LocksInv, SeatType, At, GoTo, Fails, Unlock, CallEnds, Kept, Callers, GtpFields, locks, Asking, theirs
<1>3. GtpFields'
  BY NoBoardIs, LinesStay DEF Skip, GtpFields, GoTo, At, Fails, Unlock, CallEnds, Forgotten, Kept, theirs, locks, Callers, Asking
<1>4. JobInv'
  BY SameCommand, NoBoardIs DEF Skip, JobInv, LocksInv, SeatType, GtpFields, At, GoTo, Fails, Unlock, CallEnds, Forgotten, NoJob, Kept, Callers, locks, theirs, Asking
<1> QED
  BY <1>1, <1>2, <1>3, <1>4

LEMMA BooksStopReturns ==
  ASSUME ConnType, Books, StopReturns
  PROVE  Worsens /\ Books'
<1> USE DEF Books
<1>1. Worsens
  BY ConnSteps DEF StopReturns, Leaves, conn, wire
<1>2. SeatType' /\ LocksInv'
  BY DEF StopReturns, LocksInv, SeatType, At, GoTo, Fails, Unlock, CallEnds, Kept, Callers, GtpFields, locks, theirs
<1>3. GtpFields'
  BY NoBoardIs, LinesStay DEF StopReturns, GtpFields, GoTo, At, Fails, Unlock, CallEnds, Forgotten, Kept, theirs, locks, Callers
<1>4. JobInv'
  BY SameCommand, NoBoardIs DEF StopReturns, JobInv, LocksInv, SeatType, GtpFields, At, GoTo, Fails, Unlock, CallEnds, Forgotten, NoJob, Kept, Callers, locks, theirs
<1> QED
  BY <1>1, <1>2, <1>3, <1>4

LEMMA BooksCancelled ==
  ASSUME ConnType, Books, Cancelled
  PROVE  Worsens /\ Books'
<1> USE DEF Books
<1>1. Worsens
  BY ConnSteps DEF Cancelled, Leaves, conn, wire
<1>2. SeatType' /\ LocksInv'
  BY DEF Cancelled, LocksInv, SeatType, At, GoTo, Fails, Unlock, CallEnds, Kept, Callers, GtpFields, locks, theirs
<1>3. GtpFields'
  BY NoBoardIs, LinesStay DEF Cancelled, GtpFields, GoTo, At, Fails, Unlock, CallEnds, Forgotten, Kept, theirs, locks, Callers
<1>4. JobInv'
  BY SameCommand, NoBoardIs DEF Cancelled, JobInv, LocksInv, SeatType, GtpFields, At, GoTo, Fails, Unlock, CallEnds, Forgotten, NoJob, Kept, Callers, locks, theirs
<1> QED
  BY <1>1, <1>2, <1>3, <1>4

LEMMA BooksStreamReads ==
  ASSUME ConnType, Books, StreamReads
  PROVE  Worsens /\ Books'
<1> USE DEF Books
<1>1. Worsens
  BY ConnSteps DEF StreamReads, Leaves, conn, wire
<1>2. SeatType' /\ LocksInv'
  BY DEF StreamReads, LocksInv, SeatType, At, GoTo, Fails, Unlock, CallEnds, Kept, Callers, GtpFields, locks, theirs
<1>3. GtpFields'
  BY NoBoardIs, LinesStay DEF StreamReads, GtpFields, GoTo, At, Fails, Unlock, CallEnds, Forgotten, Kept, theirs, locks, Callers
<1>4. JobInv'
  BY SameCommand, NoBoardIs DEF StreamReads, JobInv, LocksInv, SeatType, GtpFields, At, GoTo, Fails, Unlock, CallEnds, Forgotten, NoJob, Kept, Callers, locks, theirs
<1> QED
  BY <1>1, <1>2, <1>3, <1>4

LEMMA BooksStreamFails ==
  ASSUME ConnType, Books, StreamFails
  PROVE  Worsens /\ Books'
<1> USE DEF Books
<1>1. Worsens
  BY ConnSteps DEF StreamFails, baseVars, conn, wire, Leaves, conn, wire
<1>2. SeatType' /\ LocksInv'
  BY DEF StreamFails, LocksInv, SeatType, At, GoTo, Fails, Unlock, CallEnds, Kept, Callers, GtpFields, locks, baseVars, conn, wire, theirs
<1>3. GtpFields'
  BY NoBoardIs, LinesStay DEF StreamFails, GtpFields, GoTo, At, Fails, Unlock, CallEnds, Forgotten, Kept, theirs, locks, Callers, baseVars, conn, wire
<1>4. JobInv'
  BY SameCommand, NoBoardIs DEF StreamFails, JobInv, LocksInv, SeatType, GtpFields, At, GoTo, Fails, Unlock, CallEnds, Forgotten, NoJob, Kept, Callers, locks, theirs, baseVars, conn, wire
<1> QED
  BY <1>1, <1>2, <1>3, <1>4

LEMMA BooksCloseStarts ==
  ASSUME ConnType, Books, CloseStarts
  PROVE  Worsens /\ Books'
<1> USE DEF Books
<1>1. Worsens
  BY ConnSteps DEF CloseStarts, Leaves, conn, wire
<1>2. SeatType' /\ LocksInv'
  BY DEF CloseStarts, LocksInv, SeatType, At, GoTo, Fails, Unlock, CallEnds, Kept, Callers, GtpFields, locks, theirs
<1>3. GtpFields'
  BY NoBoardIs, LinesStay DEF CloseStarts, GtpFields, GoTo, At, Fails, Unlock, CallEnds, Forgotten, Kept, theirs, locks, Callers
<1>4. JobInv'
  BY SameCommand, NoBoardIs DEF CloseStarts, JobInv, LocksInv, SeatType, GtpFields, At, GoTo, Fails, Unlock, CallEnds, Forgotten, NoJob, Kept, Callers, locks, theirs
<1> QED
  BY <1>1, <1>2, <1>3, <1>4

LEMMA BooksQuits ==
  ASSUME ConnType, Books, Quits
  PROVE  Worsens /\ Books'
<1> USE DEF Books
<1>1. Worsens
  BY ConnSteps DEF Quits, SkipsQuit, QuitAnswered, Reply, Asking, Leaves, conn, wire
<1>2. SeatType' /\ LocksInv'
  BY DEF Quits, LocksInv, SeatType, At, GoTo, Fails, Unlock, CallEnds, Kept, Callers, GtpFields, locks, SkipsQuit, QuitAnswered, Reply, Asking, theirs
<1>3. GtpFields'
  BY NoBoardIs, LinesStay DEF Quits, GtpFields, GoTo, At, Fails, Unlock, CallEnds, Forgotten, Kept, theirs, locks, Callers, SkipsQuit, QuitAnswered, Reply, Asking
<1>4. JobInv'
  BY SameCommand, NoBoardIs DEF Quits, JobInv, LocksInv, SeatType, GtpFields, At, GoTo, Fails, Unlock, CallEnds, Forgotten, NoJob, Kept, Callers, locks, theirs, SkipsQuit, QuitAnswered, Reply, Asking
<1> QED
  BY <1>1, <1>2, <1>3, <1>4

LEMMA BooksCloses ==
  ASSUME ConnType, Books, Closes
  PROVE  Worsens /\ Books'
<1> USE DEF Books
<1>1. Worsens
  BY ConnSteps DEF Closes, Leaves, conn, wire
<1>2. SeatType' /\ LocksInv'
  BY DEF Closes, LocksInv, SeatType, At, GoTo, Fails, Unlock, CallEnds, Kept, Callers, GtpFields, locks, theirs
<1>3. GtpFields'
  BY NoBoardIs, LinesStay DEF Closes, GtpFields, GoTo, At, Fails, Unlock, CallEnds, Forgotten, Kept, theirs, locks, Callers
<1>4. JobInv'
  BY SameCommand, NoBoardIs DEF Closes, JobInv, LocksInv, SeatType, GtpFields, At, GoTo, Fails, Unlock, CallEnds, Forgotten, NoJob, Kept, Callers, locks, theirs
<1> QED
  BY <1>1, <1>2, <1>3, <1>4

LEMMA BooksCloseCutShort ==
  ASSUME ConnType, Books, CloseCutShort
  PROVE  Worsens /\ Books'
<1> USE DEF Books
<1>1. Worsens
  BY ConnSteps DEF CloseCutShort, Leaves, conn, wire
<1>2. SeatType' /\ LocksInv'
  BY DEF CloseCutShort, LocksInv, SeatType, At, GoTo, Fails, Unlock, CallEnds, Kept, Callers, GtpFields, locks, theirs
<1>3. GtpFields'
  BY NoBoardIs, LinesStay DEF CloseCutShort, GtpFields, GoTo, At, Fails, Unlock, CallEnds, Forgotten, Kept, theirs, locks, Callers
<1>4. JobInv'
  BY SameCommand, NoBoardIs DEF CloseCutShort, JobInv, LocksInv, SeatType, GtpFields, At, GoTo, Fails, Unlock, CallEnds, Forgotten, NoJob, Kept, Callers, locks, theirs
<1> QED
  BY <1>1, <1>2, <1>3, <1>4

LEMMA BooksBegin ==
  ASSUME ConnType, Books, Begin
  PROVE  Worsens /\ Books'
<1> USE DEF Books
<1>1. Worsens
  BY ConnSteps DEF Begin, Ops, FirstPhase, Positioned, Phases, JobType, Leaves, conn, wire
<1>2. SeatType' /\ LocksInv'
  BY DEF Begin, LocksInv, SeatType, At, GoTo, Fails, Unlock, CallEnds, Kept, Callers, GtpFields, locks, Ops, FirstPhase, Positioned, Phases, JobType, theirs
<1>3. /\ job'.op \in Ops
      /\ job'.phase = (CASE job'.op \in {"genmove", "genmove_analyze", "start"} ->
                         (IF "param" \in skills THEN "param" ELSE "sync")
                         [] job'.op = "final_score" -> "sync"
                         [] OTHER -> "main")
      /\ job' \in JobType /\ job'.pos.key \in Keys
      /\ mirror' \in {mirror, NoBoard} /\ (job'.op = "raw" => mirror' = NoBoard)
  <2>1. PICK op \in Ops, pos \in Positions, how \in Ops :
          /\ job' = [op |-> how, phase |-> FirstPhase(how), pos |-> pos, tried |-> 0]
          /\ mirror' = IF op = "raw" THEN NoBoard ELSE mirror
          /\ how = "raw" => op = "raw"
    <3>1. PICK op \in Ops, pos \in Positions :
            LET how == CASE op = "genmove_analyze" /\ op \notin skills -> "genmove"
                         [] op = "start" /\ "analyze" \notin skills -> "stop"
                         [] OTHER -> op
            IN /\ job' = [op |-> how, phase |-> FirstPhase(how), pos |-> pos, tried |-> 0]
               /\ mirror' = IF op = "raw" THEN NoBoard ELSE mirror
      BY DEF Begin
    <3> DEFINE how == CASE op = "genmove_analyze" /\ op \notin skills -> "genmove"
                        [] op = "start" /\ "analyze" \notin skills -> "stop"
                        [] OTHER -> op
    <3>2. how \in Ops /\ (how = "raw" => op = "raw")
      BY DEF Ops
    <3>3. job' = [op |-> how, phase |-> FirstPhase(how), pos |-> pos, tried |-> 0]
      BY <3>1
    <3> HIDE DEF how
    <3> QED
      BY <3>1, <3>2, <3>3
  <2>2. FirstPhase(how) \in {"param", "sync", "main"}
    BY DEF FirstPhase, Ops
  <2>3. pos.key \in Keys /\ pos.moves \in Seq(Vertices) /\ pos = [key |-> pos.key, moves |-> pos.moves]
    BY PositionsAssumption
  <2>4. pos \in Boards
    BY <2>3 DEF Boards
  <2>5. job' \in JobType
    BY <2>1, <2>2, <2>4 DEF JobType, Phases
  <2> QED
    BY <2>1, <2>3, <2>5 DEF FirstPhase
<1>5. GtpFields'
  BY <1>3, NoBoardIs DEF Begin, GtpFields, locks, theirs
<1>4. JobInv'
  <2>1. at' = "ready" /\ at = "idle" /\ job = NoJob
    BY DEF Begin, JobInv
  <2>2. job' # NoJob
    BY <1>3 DEF NoJob, Ops
  <2> QED
    BY <2>1, <2>2, <1>3 DEF JobInv, Ops, Positioned
<1> QED
  BY <1>1, <1>2, <1>4, <1>5

\* What the engine sends.
LEMMA LineIs ==
  /\ \A c \in SentType, k \in {"reply", "alien", "report", "end", "move"}, ok \in BOOLEAN,
        w \in Vertices \cup {"resign", "junk", "none"} : Line(c, k, ok, w) \in LineType
  /\ \A k \in {"reply", "alien", "report", "end", "move"},
        w \in Vertices \cup {"resign", "junk", "none"} :
          Line([fresh |-> TRUE], k, TRUE, w) \in LineType
BY DEF Line, LineType, SentType

LEMMA ArrivesIs ==
  ASSUME lines \in Seq(LineType), NEW l \in LineType, Arrives(l)
  PROVE  /\ lines' \in Seq(LineType) /\ Len(lines') = Len(lines) + 1
         /\ lines'[Len(lines) + 1] = l
         /\ \A i \in 1 .. Len(lines) : lines'[i] = lines[i]
BY AppendProperties DEF Arrives

LEMMA BooksEngine ==
  ASSUME ConnType, Books, Engine
  PROVE  Worsens /\ Books'
<1> USE DEF Books
<1>1. Worsens
  BY ConnSteps DEF Engine, baseVars, conn, wire, Leaves, conn, wire
<1>2. SeatType' /\ LocksInv'
  BY DEF Engine, LocksInv, SeatType, At, GoTo, Fails, Unlock, CallEnds, Kept, Callers, GtpFields, locks, baseVars, conn, wire, theirs
<1>3. GtpFields'
  <2> USE LinesStay, LineIs DEF GtpFields
  <2> DEFINE moved == lines' \in Seq(LineType) /\ outbox' \in Seq(SentType)
                      /\ engine' \in {"idle", "analysing", "searching"} /\ strayed' \in BOOLEAN
  <2>1. \A l \in LineType : Arrives(l) => lines' \in Seq(LineType)
    BY ArrivesIs
  <2>2. ASSUME NEW k \in {"reply", "move"},
               (\E c \in SentType : EngineMoves(c, k)) \/ EngineMoves([fresh |-> TRUE], k)
        PROVE  lines' \in Seq(LineType) /\ strayed' \in BOOLEAN
    <3>1. Free \subseteq Vertices
      BY DEF Free
    <3> QED
      BY <2>1, <2>2, <3>1 DEF EngineMoves
  <2>3. ASSUME EngineStops PROVE moved
    BY <2>1, <2>3 DEF EngineStops
  <2>4. ASSUME EngineStreams PROVE moved
    BY <2>1, <2>2, <2>4 DEF EngineStreams
  <2>5. ASSUME EngineAnswers PROVE moved
    <3> DEFINE c == Head(outbox)
    <3>1. c \in SentType /\ outbox' \in Seq(SentType) /\ outbox' = Tail(outbox)
      BY <2>5 DEF EngineAnswers
    <3> HIDE DEF c
    <3>2. \/ UNCHANGED <<lines, board, engine, strayed>>
          \/ EngineMoves(c, "reply") /\ engine' = engine
          \/ /\ engine' \in {"analysing", "searching", engine} /\ strayed' = strayed
             /\ Arrives(Line(c, "reply", TRUE, "none"))
          \/ Arrives(Line(c, "reply", FALSE, "none")) /\ UNCHANGED <<engine, strayed>>
          \/ Arrives(Line(c, "alien", FALSE, "none")) /\ UNCHANGED <<engine, strayed>>
      BY <2>5 DEF EngineAnswers, c
    <3> QED
      BY <2>1, <2>2, <3>1, <3>2
  <2>6. moved
    BY <2>3, <2>4, <2>5 DEF Engine
  <2> QED
    BY <2>6 DEF Engine, locks
<1>4. JobInv'
  BY SameCommand, NoBoardIs DEF Engine, JobInv, LocksInv, SeatType, GtpFields, At, GoTo, Fails, Unlock, CallEnds, Forgotten, NoJob, Kept, Callers, locks, theirs, baseVars, conn, wire
<1> QED
  BY <1>1, <1>2, <1>3, <1>4

LEMMA BooksCommand ==
  ASSUME ConnType, Books, NEW p \in Callers, Command(p)
  PROVE  Worsens /\ Books'
<1> USE DEF Books
<1> DEFINE c == NextCommand(p)
<1>0. mirror \in Boards /\ job \in JobType /\ skills' = skills
  BY DEF GtpFields, Command, Kept
<1>1. CASE CanSend /\ Sends(c) /\ lock' = p /\ GoTo(p, "asking") /\ UNCHANGED stopLock
           /\ mirror' = (IF c.word = "clear" THEN NoBoard ELSE mirror)
           /\ job' = (IF p = "caller" THEN [job EXCEPT !.phase = c.phase] ELSE job)
  <2>1. Worsens
    BY <1>1, ConnSteps DEF Sends
  <2>2. c.word \in Words /\ c.move \in Vertices \cup Keys \cup {NoKey, "none"} /\ c.phase \in Phases
    BY <1>0, CommandIs
  <2>3. outbox' \in Seq(SentType) /\ lines' \in Seq(LineType)
    <3>1. [word |-> c.word, move |-> c.move, fresh |-> TRUE] \in SentType
      BY <2>2 DEF SentType
    <3>2. Stale(outbox) \in Seq(SentType) /\ Stale(lines) \in Seq(LineType)
      BY StaleIs DEF GtpFields
    <3> QED
      BY <1>1, <3>1, <3>2, AppendProperties DEF Sends
  <2>4. job' \in JobType
    BY <1>0, <1>1, <2>2 DEF JobType
  <2>5. SeatType' /\ LocksInv'
    BY <1>1 DEF Command, Ready, LocksInv, SeatType, At, GoTo, Callers, GtpFields
  <2>6. GtpFields'
    BY <1>1, <2>3, <2>4, NoBoardIs DEF Command, Ready, GtpFields, Kept
  <2>7. JobInv'
    <3>1. CASE p = "closer"
      <4>1. c.word = "quit"
        BY <3>1 DEF NextCommand, Cmd
      <4>2. mirror' = mirror /\ job' = job /\ at' = at
        BY <1>1, <3>1, <4>1 DEF GoTo
      <4> QED
        BY <1>0, <4>2, SameCommand DEF JobInv, Callers
    <3>2. CASE p = "caller"
      <4>1. job' = [job EXCEPT !.phase = c.phase] /\ at' = "asking" /\ at = "ready" /\ job.op # "stop"
        BY <1>1, <3>2 DEF GoTo, Command, Ready, At
      <4>2. NextCommand("caller")' = c
        BY <1>0, <1>1, <3>2, <4>1, CommandStays
      <4>3. job'.op = job.op /\ job'.pos = job.pos /\ job'.phase = c.phase
        BY <4>1 DEF JobType, GtpFields
      <4>4. job # NoJob => job.op # "none"
        BY DEF JobInv, NoJob, Positioned
      <4>5. job'.op # "none"
        BY <4>1, <4>3, <4>4 DEF JobInv
      <4>6. \/ c.phase = job.phase /\ job.phase \in {"name", "list", "param", "rules"}
            \/ c.phase = "clear" /\ c.word = "clear" /\ job.phase \in {"clear", "sync"}
            \/ c.phase = "setup" /\ job.phase = "setup"
            \/ c.phase = "sync" /\ job.phase = "sync" /\ c.word # "clear"
            \/ c.phase = "main" /\ job.phase = "sync" /\ Synced /\ c.word = job.op
            \/ c.phase = "main" /\ job.phase \in {"main", "none"} /\ c.word = job.op
        <5>1. job.phase \in Phases
          BY <1>0 DEF JobType
        <5>2. CASE job.phase = "sync" /\ ~Synced
          BY <3>2, <5>2 DEF NextCommand, SyncCommand, Cmd
        <5>3. CASE ~(job.phase = "sync" /\ ~Synced)
          BY <3>2, <5>1, <5>3 DEF NextCommand, Cmd, Phases
        <5> QED
          BY <5>2, <5>3
      <4>7. Synced => mirror = job.pos
        BY <1>0, SyncedIs
      <4>8. job.op = "connect" => job.phase \in {"name", "list"}
        BY DEF JobInv, NoJob, Positioned
      <4>9. /\ job.op \in {"raw", "stop"} => job.phase = "main"
            /\ job.op \in Positioned => job.pos.key \in Keys /\ job.phase \in
                                         {"param", "sync", "clear", "rules", "setup"}
            /\ job.op \in {"connect", "raw", "stop"} \cup Positioned
        BY <4>1, <4>5, <4>3 DEF JobInv, NoJob, Positioned
      <4>10. mirror' = NoBoard \/ (mirror' = mirror /\ c.word # "clear")
        BY <1>1
      <4>11. (job'.op = "raw" \/ job'.phase \in {"clear", "rules", "setup"}) => mirror' = NoBoard
        BY <1>1, <4>3, <4>6, <4>10 DEF JobInv
      <4>12. (job'.op \in Positioned /\ job'.phase = "main") => mirror' = job'.pos
        <5>1. ASSUME job'.op \in Positioned, job'.phase = "main" PROVE mirror' = job'.pos
          <6>1. Synced /\ c.word = job.op /\ job.op \in Positioned
            BY <4>3, <4>6, <4>9, <5>1
          <6>2. c.word # "clear"
            BY <6>1 DEF Positioned
          <6> QED
            BY <4>3, <4>7, <4>10, <6>1, <6>2, <1>1
        <5> QED
          BY <5>1
      <4>13. \/ job'.op = "connect" /\ job'.phase \in {"name", "list"}
             \/ job'.op \in {"raw", "stop"} /\ job'.phase = "main"
             \/ /\ job'.op \in Positioned /\ job'.pos.key \in Keys
                /\ job'.phase \in {"param", "sync", "clear", "rules", "setup", "main"}
        BY <4>3, <4>6, <4>8, <4>9
      <4>14. job' # NoJob
        BY <4>5 DEF NoJob
      <4> QED
        BY <4>1, <4>2, <4>3, <4>11, <4>12, <4>13, <4>14 DEF JobInv
    <3> QED
      BY <3>1, <3>2 DEF Callers
  <2> QED
    BY <2>1, <2>5, <2>6, <2>7
<1>2. CASE /\ Leaves(p, SendFails) /\ Fails(p) /\ UNCHANGED <<outbox, lines>>
  <2>1. Worsens
    BY <1>2, ConnSteps DEF Leaves
  <2>2. SeatType' /\ LocksInv'
    BY <1>2 DEF Command, Ready, LocksInv, SeatType, At, Fails, Unlock, CallEnds, Callers, GtpFields
  <2>3. GtpFields'
    BY <1>2, NoBoardIs DEF Command, GtpFields, Fails, Unlock, CallEnds, Forgotten, Kept, Callers
  <2>4. JobInv'
    BY <1>0, <1>2, SameCommand, NoBoardIs DEF JobInv, LocksInv, SeatType, GtpFields, At, Fails,
       Unlock, CallEnds, Forgotten, NoJob, Callers
  <2> QED
    BY <2>1, <2>2, <2>3, <2>4
<1> QED
  BY <1>1, <1>2 DEF Command

LEMMA BooksGoesOn ==
  ASSUME ConnType, Books, GoesOn
  PROVE  Worsens /\ Books'
<1> USE DEF Books
<1> DEFINE c == NextCommand("caller")
<1>0. /\ mirror \in Boards /\ job \in JobType /\ skills' = skills /\ at = "asking"
      /\ job.phase \notin {"list", "main"} /\ c.phase = job.phase
      /\ mirror' = Recorded(c) /\ job' = [job EXCEPT !.phase = NextPhase(c)] /\ at' = "ready"
  BY DEF GtpFields, GoesOn, Kept, Reply, Asking, At, JobInv, InFlight
<1>1. Worsens
  BY ConnSteps DEF GoesOn
<1>2. SeatType' /\ LocksInv'
  BY DEF GoesOn, Reply, Asking, LocksInv, SeatType, At, Callers, GtpFields
<1>3. /\ job.phase = "sync" => ~Synced /\ ~NeedsReset(mirror, job.pos)
      /\ job.phase \in {"clear", "rules", "setup"} => mirror = NoBoard
      /\ job.phase = "name" => job.op = "connect"
      /\ job.phase # "name" => job.op \in Positioned /\ job.pos.key \in Keys
      /\ job.phase \in {"name", "param", "sync", "clear", "rules", "setup"}
  <2>1. job.phase = "sync" => ~Synced
    BY <1>0 DEF NextCommand, Cmd
  <2>2. (job.phase = "sync" /\ NeedsReset(mirror, job.pos)) => c.phase = "clear"
    BY <2>1 DEF NextCommand, SyncCommand, Cmd
  <2> QED
    BY <1>0, <2>1, <2>2 DEF JobInv, NoJob
<1>4. /\ mirror' \in Boards
      /\ job.phase \in {"name", "param", "clear", "rules"} => mirror' = mirror
  <2>1. CASE job.phase \in {"name", "param", "rules"}
    <3>1. c.word = job.phase
      BY <2>1 DEF NextCommand, Cmd
    <3> QED
      BY <1>0, <2>1, <3>1 DEF Recorded
  <2>2. CASE job.phase = "clear"
    <3>1. c.word = "clear"
      BY <2>2 DEF NextCommand, Cmd
    <3> QED
      BY <1>0, <2>2, <3>1 DEF Recorded
  <2>3. CASE job.phase = "setup"
    <3>1. c.word = "setup" /\ c.move = job.pos.key
      BY <2>3 DEF NextCommand, Cmd
    <3>2. mirror' = [key |-> job.pos.key, moves |-> <<>>] /\ <<>> \in Seq(Vertices)
      BY <1>0, <3>1, EmptySeq DEF Recorded
    <3> QED
      BY <1>3, <2>3, <3>2 DEF Boards
  <2>4. CASE job.phase = "sync"
    <3>1. c = SyncCommand /\ mirror.moves \in Seq(Vertices) /\ job.pos.moves \in Seq(Vertices)
      BY <1>0, <1>3, <2>4 DEF NextCommand, JobType, Boards
    <3>2. CASE Extra(mirror, job.pos) > 0
      <4>1. c.word = "undo" /\ mirror.moves # <<>>
        BY <1>0, <1>3, <2>4, <3>1, <3>2, SyncIs DEF SyncCommand, Cmd
      <4>2. Front(mirror.moves) \in Seq(Vertices)
        <5>1. Len(mirror.moves) \in Nat /\ \A i \in 1 .. Len(mirror.moves) - 1 : mirror.moves[i] \in Vertices
          BY <3>1, LenProperties, ElementOfSeq
        <5> QED
          BY <5>1, SubSeqProperties DEF Front
      <4>3. mirror' = [mirror EXCEPT !.moves = Front(mirror.moves)]
        BY <1>0, <4>1 DEF Recorded
      <4> QED
        BY <1>0, <2>4, <4>2, <4>3 DEF Boards
    <3>3. CASE ~(Extra(mirror, job.pos) > 0)
      <4>1. c.word = "play" /\ c.move \in Vertices
        <5>1. Len(mirror.moves) + 1 \in 1 .. Len(job.pos.moves)
          BY <1>0, <1>3, <2>4, <3>3, SyncIs
        <5>2. job.pos.moves[Len(mirror.moves) + 1] \in Vertices
          BY <3>1, <5>1, ElementOfSeq
        <5> QED
          BY <1>3, <2>4, <3>1, <3>3, <5>2 DEF SyncCommand, Cmd
      <4>2. Append(mirror.moves, c.move) \in Seq(Vertices)
        BY <3>1, <4>1, AppendProperties
      <4>3. mirror' = [mirror EXCEPT !.moves = Append(mirror.moves, c.move)]
        BY <1>0, <4>1 DEF Recorded
      <4> QED
        BY <1>0, <2>4, <4>2, <4>3 DEF Boards
    <3> QED
      BY <3>2, <3>3
  <2> QED
    BY <1>3, <2>1, <2>2, <2>3, <2>4
<1>5. /\ NextPhase(c) \in {"list", "rules", "setup", "sync"}
      /\ job.phase = "name" <=> NextPhase(c) = "list"
      /\ NextPhase(c) \in {"rules", "setup"} => job.phase \in {"clear", "rules"}
  BY <1>0, <1>3 DEF NextPhase
<1>6. /\ job'.op = job.op /\ job'.pos = job.pos /\ job'.phase = NextPhase(c)
      /\ job' \in JobType
  BY <1>0, <1>5 DEF JobType, Phases
<1>7. GtpFields'
  BY <1>4, <1>6, LinesStay DEF GoesOn, Reply, GtpFields, Kept, Callers
<1>8. JobInv'
  <2>1. job' # NoJob
    BY <1>3, <1>6 DEF NoJob, Positioned
  <2> QED
    BY <1>0, <1>3, <1>4, <1>5, <1>6, <2>1 DEF JobInv, Positioned
<1> QED
  BY <1>1, <1>2, <1>7, <1>8

LEMMA BooksRetries ==
  ASSUME ConnType, Books, Retries
  PROVE  Worsens /\ Books'
<1> USE DEF Books
<1> DEFINE c == NextCommand("caller")
<1>0. /\ mirror' = mirror /\ job \in JobType /\ skills' = skills /\ at = "asking" /\ at' = at
      /\ job.phase = "main" /\ job' = [job EXCEPT !.tried = @ + 1]
      /\ lines # <<>> /\ lines' = Stale(Tail(lines))
      /\ outbox' = Append(Stale(outbox), [word |-> c.word, move |-> "none", fresh |-> TRUE])
  BY DEF GtpFields, Retries, Kept, Reply, Asking, At, InFlight
<1>1. Worsens
  BY ConnSteps DEF Retries
<1>2. SeatType' /\ LocksInv'
  BY DEF Retries, LocksInv, SeatType, At, Callers, GtpFields, locks
<1>3. /\ job'.op = job.op /\ job'.pos = job.pos /\ job'.phase = job.phase /\ job' \in JobType
  BY <1>0 DEF JobType
<1>4. GtpFields'
  <2>1. [word |-> c.word, move |-> "none", fresh |-> TRUE] \in SentType
    <3>1. c.word \in Words
      BY <1>0, CommandIs DEF GtpFields, Callers
    <3> QED
      BY <3>1 DEF SentType
  <2>2. outbox' \in Seq(SentType)
    BY <1>0, <2>1, StaleIs, AppendProperties DEF GtpFields
  <2>3. lines' \in Seq(LineType)
    BY <1>0, StaleIs, LinesStay DEF GtpFields
  <2> QED
    BY <1>0, <1>3, <2>2, <2>3 DEF Retries, GtpFields, locks
<1>5. JobInv'
  <2>1. c = Cmd(job.op, "none", "main") /\ NextCommand("caller")' = Cmd(job.op, "none", "main")
    BY <1>0, <1>3 DEF NextCommand
  <2>2. job' # NoJob
    BY <1>0, <1>3 DEF NoJob
  <2>3. NextCommand("caller")'.phase = job'.phase
    BY <1>0, <1>3, <2>1 DEF Cmd
  <2> QED
    BY <1>0, <1>3, <2>2, <2>3 DEF JobInv
<1> QED
  BY <1>1, <1>2, <1>4, <1>5

LEMMA BooksConnected ==
  ASSUME ConnType, Books, Connected
  PROVE  Worsens /\ Books'
<1> USE DEF Books
<1>1. Worsens
  BY ConnSteps DEF Connected
<1>2. SeatType' /\ LocksInv'
  BY DEF Connected, Reply, Asking, Unlock, CallEnds, LocksInv, SeatType, At, Callers, GtpFields
<1>3. GtpFields'
  BY NoBoardIs, LinesStay DEF Connected, Reply, Unlock, CallEnds, GtpFields, Kept, Callers
<1>4. JobInv'
  BY NoBoardIs DEF Connected, CallEnds, JobInv, NoJob, Positioned
<1> QED
  BY <1>1, <1>2, <1>3, <1>4

\* A move recorded: the mirror, or the mirror with the vertex.
LEMMA PlayedIs ==
  ASSUME mirror \in Boards, NEW v \in Vertices \cup {"resign"}
  PROVE  Played(v) \in Boards
<1>1. mirror.moves \in Seq(Vertices)
  BY DEF Boards
<1>2. CASE v = "resign" \/ mirror.key = NoKey
  BY <1>2 DEF Played
<1>3. CASE ~(v = "resign" \/ mirror.key = NoKey)
  <2>1. Append(mirror.moves, v) \in Seq(Vertices)
    BY <1>1, <1>3, AppendProperties
  <2>2. Played(v) = [mirror EXCEPT !.moves = Append(mirror.moves, v)]
    BY <1>3 DEF Played
  <2> QED
    BY <2>1, <2>2 DEF Boards
<1> QED
  BY <1>2, <1>3

LEMMA BooksAnswered ==
  ASSUME ConnType, Books, WireInv, Answered
  PROVE  Worsens /\ Books'
<1> USE DEF Books
<1>0. /\ mirror \in Boards /\ job \in JobType /\ at = "asking" /\ job.phase = "main"
      /\ lines # <<>> /\ lines' = Tail(lines) /\ Head(lines) = lines[1] /\ lines[1].ok
      /\ lines[1] \in LineType
  <2>1. Reply("caller")
    BY DEF Answered
  <2>2. Head(lines) = lines[1]
    BY <2>1, HeadReply DEF Callers, GtpFields
  <2> QED
    BY <2>1, <2>2, LinesStay DEF GtpFields, Answered, Reply, Asking, At
<1>1. Worsens
  BY ConnSteps DEF Answered
<1>2. SeatType' /\ LocksInv'
  BY DEF Answered, Reply, Asking, Unlock, CallEnds, LocksInv, SeatType, At, Callers, GtpFields, locks
<1>3. mirror' \in Boards
  <2>1. CASE job.op = "genmove"
    <3>1. NextCommand("caller").word = "genmove"
      BY <1>0, <2>1 DEF NextCommand, Cmd
    <3>2. lines[1].word # "none"
      BY <1>0, <3>1, HeadReply DEF Answered, ReplyTells, Callers, GtpFields
    <3>3. lines[1].word \in Vertices \cup {"resign", "junk"}
      BY <1>0, <3>2 DEF LineType
    <3>4. mirror' = IF lines[1].word = "junk" THEN mirror ELSE Played(lines[1].word)
      BY <1>0, <2>1 DEF Answered
    <3> QED
      BY <1>0, <3>3, <3>4, PlayedIs
  <2>2. CASE job.op # "genmove"
    BY <1>0, <2>2, NoBoardIs DEF Answered, Forgotten
  <2> QED
    BY <2>1, <2>2
<1>4. GtpFields'
  <2>1. job' \in JobType
    BY <1>0, NoBoardIs DEF Answered, CallEnds
  <2>2. /\ stream' \in {"none", "reading", "ended"} /\ slot' \in BOOLEAN
        /\ lock' \in Callers \cup {"none"} /\ stopLock' \in Callers \cup {"none"}
    BY DEF Answered, Unlock, GtpFields, Callers, locks
  <2> QED
    BY <1>0, <1>3, <2>1, <2>2, LinesStay DEF Answered, GtpFields, Kept
<1>5. JobInv'
  <2>1. CASE job.op = "genmove_analyze"
    <3>1. job' = job /\ mirror' = mirror /\ at' = "reading"
      BY <1>0, <2>1 DEF Answered
    <3>2. job # NoJob
      BY <1>0 DEF NoJob
    <3> QED
      BY <1>0, <2>1, <3>1, <3>2 DEF JobInv
  <2>2. CASE job.op # "genmove_analyze"
    <3>1. job' = NoJob /\ at' = "idle"
      BY <2>2 DEF Answered, CallEnds
    <3> QED
      BY <3>1 DEF JobInv, NoJob, Positioned
  <2> QED
    BY <2>1, <2>2
<1> QED
  BY <1>1, <1>2, <1>4, <1>5

LEMMA BooksSearchReads ==
  ASSUME ConnType, Books, SearchReads
  PROVE  Worsens /\ Books'
<1> USE DEF Books
<1>1. Worsens
  BY ConnSteps DEF SearchReads
<1>2. SeatType' /\ LocksInv'
  BY DEF SearchReads, Unlock, CallEnds, LocksInv, SeatType, At, Callers, GtpFields, locks
<1>3. mirror' \in Boards
  <2>1. Head(lines).word \in Vertices \cup {"resign", "junk", "none"}
    BY LinesStay DEF GtpFields, SearchReads, LineType
  <2>2. mirror' \in {mirror, IF Head(lines).word \in {"junk", "none"} THEN mirror
                             ELSE Played(Head(lines).word)}
    BY DEF SearchReads
  <2> QED
    BY <2>1, <2>2, PlayedIs DEF GtpFields
<1>4. GtpFields'
  BY <1>3, NoBoardIs, LinesStay DEF SearchReads, Unlock, CallEnds, GtpFields, Kept, Callers, locks
<1>5. JobInv'
  <2>1. CASE Head(lines).kind \in {"move", "end"}
    <3>1. job' = NoJob /\ at' = "idle"
      BY <2>1 DEF SearchReads, CallEnds
    <3> QED
      BY <3>1 DEF JobInv, NoJob, Positioned
  <2>2. CASE Head(lines).kind \notin {"move", "end"}
    <3>1. job' = job /\ at' = at /\ mirror' = mirror /\ skills' = skills
      BY <2>2 DEF SearchReads, Kept
    <3> QED
      BY <3>1, SameCommand DEF JobInv, Callers
  <2> QED
    BY <2>1, <2>2
<1> QED
  BY <1>1, <1>2, <1>4, <1>5

LEMMA BooksOther ==
  ASSUME ConnType, Books, Report \/ HangsUp \/ Reading, UNCHANGED gtpVars
  PROVE  Worsens /\ Books'
<1>1. Worsens
  BY ConnSteps DEF Reading
<1>2. UNCHANGED <<at, closer>>
  BY DEF Report, HangsUp, Reading, ReaderEnds, Lost, Unusable
<1>3. UNCHANGED <<skills, mirror, job, lock, stopLock, stream, slot, lines, outbox, engine, strayed>>
  BY DEF gtpVars
<1>4. SeatType' /\ LocksInv' /\ GtpFields'
  BY <1>2, <1>3 DEF Books, SeatType, LocksInv, GtpFields, At
<1>5. JobInv'
  BY <1>2, <1>3, SameCommand DEF Books, JobInv, Callers
<1> QED
  BY <1>1, <1>4, <1>5 DEF Books

LEMMA BooksStep ==
  ASSUME ConnType, Books, WireInv, GtpNext
  PROVE  Worsens /\ Books'
<1>1. ASSUME NEW p \in Callers, GtpCall(p) PROVE Worsens /\ Books'
  BY <1>1, BooksStop, BooksStopEnds, BooksCommand, BooksSkip, BooksMismatch, BooksRejected,
     BooksTimesOut, BooksBroken DEF GtpCall
<1>2. ASSUME GtpCaller PROVE Worsens /\ Books'
  BY <1>1, <1>2, BooksStopReturns, BooksGoesOn, BooksRetries, BooksConnected, BooksAnswered,
     BooksSearchReads DEF GtpCaller, Callers
<1>3. ASSUME GtpCloser PROVE Worsens /\ Books'
  BY <1>1, <1>3, BooksQuits, BooksCloses DEF GtpCloser, Callers
<1>4. ASSUME GtpTasks PROVE Worsens /\ Books'
  BY <1>4, BooksStreamReads, BooksStreamFails DEF GtpTasks
<1>5. ASSUME GtpWorld PROVE Worsens /\ Books'
  BY <1>5, BooksBegin, BooksCancelled, BooksCloseStarts, BooksCloseCutShort, BooksEngine DEF GtpWorld
<1> QED
  BY <1>2, <1>3, <1>4, <1>5, BooksOther DEF GtpNext

-----------------------------------------------------------------------------
(* The GTP client's steps: what is asked, and the engine's board.          *)

\* A step that leaves no command in flight owes only that nothing is asked.
LEMMA WireFree ==
  ASSUME LocksInv', lock' = "none", failure' = "none" => Unasked'
  PROVE  WireInv'
BY DEF LocksInv, WireInv, At, Callers

\* A step that leaves the lines, the engine and the command in flight alone.
LEMMA WireQuiet ==
  ASSUME Books, WireInv, LocksInv', UNCHANGED theirs, lock' = lock, skills' = skills,
         mirror' \in {mirror, NoBoard}, failure' = "none" => failure = "none",
         lock = "caller" => mirror' = mirror /\ job' = job /\ at' = at
  PROVE  WireInv'
<1> USE DEF Books
<1>0. UNCHANGED <<lines, outbox, board, engine, strayed>>
  BY DEF theirs
<1>1. TrueBoard => TrueBoard'
  BY <1>0, NoBoardIs DEF TrueBoard
<1>2. failure' = "none" /\ lock' = "none" => Unasked'
  <2>1. Unasked => Unasked'
    BY <1>0, <1>1 DEF Unasked
  <2> QED
    BY <2>1 DEF WireInv
<1>3. ASSUME lock = "caller", NEW r \in Nat
      PROVE  /\ InOutbox(NextCommand("caller")) => InOutbox(NextCommand("caller"))'
             /\ InLines(NextCommand("caller")) => InLines(NextCommand("caller"))'
             /\ SearchAfter(r) => SearchAfter(r)'
  <2>1. NextCommand("caller")' = NextCommand("caller")
    BY <1>3, SameCommand DEF Callers
  <2>2. mirror' = mirror
    BY <1>3
  <2>3. ASSUME NEW i \in Nat, SearchAfter(i) PROVE SearchAfter(i)'
    BY <1>0, <1>1, <2>2, <2>3 DEF SearchAfter, Played
  <2>4. ASSUME NEW i \in Nat, ReplyTells(NextCommand("caller"), i)
        PROVE  ReplyTells(NextCommand("caller"), i)'
    BY <1>0, <1>1, <2>1, <2>2, <2>4 DEF ReplyTells, Played, Recorded
  <2>5. InOutbox(NextCommand("caller")) => InOutbox(NextCommand("caller"))'
    BY <1>0, <1>1, <2>1 DEF InOutbox
  <2>6. InLines(NextCommand("caller")) => InLines(NextCommand("caller"))'
    BY <1>0, <2>1, <2>3, <2>4 DEF InLines
  <2> QED
    BY <2>3, <2>5, <2>6
<1>4. /\ InOutbox(NextCommand("closer")) => InOutbox(NextCommand("closer"))'
      /\ InLines(NextCommand("closer")) => InLines(NextCommand("closer"))'
  <2>1. NextCommand("closer")' = NextCommand("closer") /\ NextCommand("closer").word = "quit"
    BY DEF NextCommand, Cmd
  <2>4. ASSUME NEW i \in Nat, ReplyTells(NextCommand("closer"), i)
        PROVE  ReplyTells(NextCommand("closer"), i)'
    BY <1>0, <1>1, <2>1, <2>4, NoBoardIs DEF ReplyTells, Recorded
  <2>5. InOutbox(NextCommand("closer")) => InOutbox(NextCommand("closer"))'
    BY <1>0, <1>1, <2>1 DEF InOutbox
  <2>6. InLines(NextCommand("closer")) => InLines(NextCommand("closer"))'
    BY <1>0, <2>1, <2>4 DEF InLines
  <2> QED
    BY <2>5, <2>6
<1>5. ASSUME NEW p \in Callers, At(p)' = "asking"
      PROVE  InOutbox(NextCommand(p))' \/ InLines(NextCommand(p))'
  <2>1. CASE p = "caller"
    <3>1. lock = "caller" /\ at' = "asking"
      BY <1>5, <2>1 DEF LocksInv, At
    <3>2. At("caller") = "asking"
      BY <3>1 DEF At
    <3> QED
      BY <1>3, <2>1, <3>1, <3>2 DEF WireInv, Callers
  <2>2. CASE p = "closer"
    <3>1. At("closer") = "asking"
      BY <1>5, <2>2 DEF LocksInv, At
    <3> QED
      BY <1>4, <2>2, <3>1 DEF WireInv, Callers
  <2> QED
    BY <2>1, <2>2 DEF Callers
<1>6. at' = "reading" => outbox' = <<>> /\ SearchAfter(0)'
  <2>1. ASSUME at' = "reading" PROVE outbox' = <<>> /\ SearchAfter(0)'
    <3>1. lock = "caller" /\ at = "reading"
      BY <2>1 DEF LocksInv
    <3> QED
      BY <1>0, <1>3, <3>1 DEF WireInv
  <2> QED
    BY <2>1
<1> QED
  BY <1>2, <1>5, <1>6 DEF WireInv

\* Reading a line of an analysis leaves nothing asked.
LEMMA UnaskedTail ==
  ASSUME lines \in Seq(LineType), Unasked, lines # <<>>, lines' = Tail(lines),
         UNCHANGED <<outbox, board, engine, strayed>>, mirror' \in {mirror, NoBoard}
  PROVE  Unasked'
<1>1. Len(lines') = Len(lines) - 1 /\ \A i \in 1 .. Len(lines') : lines'[i] = lines[i + 1]
  BY HeadTailProperties
<1>2. Len(lines) \in Nat
  BY LenProperties
<1>3. TrueBoard'
  BY NoBoardIs DEF Unasked, TrueBoard
<1> QED
  BY <1>1, <1>2, <1>3 DEF Unasked

\* After the reply to a command that is no search, nothing is asked, whatever mirror the board
\* is said to be.
LEMMA UnaskedAfterReply ==
  ASSUME Books, WireInv, NEW p \in Callers, Reply(p), lines' = Tail(lines),
         UNCHANGED <<outbox, board, engine, strayed>>,
         ~(Head(lines).ok /\ NextCommand(p).word = "genmove_analyze"), TrueBoard'
  PROVE  Unasked'
<1>1. /\ outbox = <<>> /\ Head(lines) = lines[1]
      /\ \A i \in 2 .. Len(lines) : lines[i].kind \in {"report", "end"}
      /\ engine # "searching"
  BY HeadReply DEF Books, GtpFields
<1>2. lines # <<>> /\ lines \in Seq(LineType)
  BY DEF Reply, Books, GtpFields
<1>3. Len(lines') = Len(lines) - 1 /\ \A i \in 1 .. Len(lines') : lines'[i] = lines[i + 1]
  BY <1>2, HeadTailProperties
<1>4. Len(lines) \in Nat /\ Len(outbox') = 0
  BY <1>1, <1>2, LenProperties
<1> QED
  BY <1>1, <1>3, <1>4 DEF Unasked

\* A step of the caller or the close that leaves the engine and the lines alone.
LEMMA WireCalls ==
  ASSUME ConnType, Books, Books', Worsens, WireInv,
         \/ Begin \/ StopReturns \/ StreamFails \/ CloseStarts \/ Closes \/ Cancelled
         \/ CloseCutShort
         \/ \E p \in Callers : StopEnds(p) \/ TimesOut(p) \/ Broken(p)
  PROVE  WireInv'
<1> USE DEF Books
<1>0. /\ failure' = "none" => failure = "none"
      /\ at \in {"asking", "reading"} <=> lock = "caller"
      /\ closer = "asking" <=> lock = "closer"
  BY DEF Worsens, LocksInv
<1>1. CASE Begin
  <2>1. UNCHANGED <<theirs, lock, skills>> /\ mirror' \in {mirror, NoBoard} /\ at = "idle"
    BY <1>1 DEF Begin, locks
  <2> QED
    BY <1>0, <2>1, WireQuiet DEF theirs
<1>2. CASE StopReturns
  <2>1. UNCHANGED <<theirs, lock, skills>> /\ mirror' = mirror /\ at = "ready"
    BY <1>2 DEF StopReturns, locks, Kept
  <2> QED
    BY <1>0, <2>1, WireQuiet
<1>3. CASE StreamFails
  <2>1. UNCHANGED <<theirs, lock, skills, mirror, job, at>>
    BY <1>3 DEF StreamFails, locks, baseVars
  <2> QED
    BY <1>0, <2>1, WireQuiet
<1>4. CASE CloseStarts \/ Closes
  <2>1. UNCHANGED <<theirs, lock, skills, mirror, job, at>>
    BY <1>4 DEF CloseStarts, Closes, locks, Kept
  <2> QED
    BY <1>0, <2>1, WireQuiet
<1>5. CASE Cancelled
  <2>1. UNCHANGED <<theirs, skills>> /\ mirror' \in {mirror, NoBoard}
        /\ lock' = IF lock = "caller" THEN "none" ELSE lock
    BY <1>5 DEF Cancelled, Kept, Fails, Unlock, Forgotten
  <2>2. CASE lock = "caller"
    <3>1. failure' # "none"
      BY <1>0, <1>5, <2>2, ConnSteps DEF Cancelled, Leaves
    <3> QED
      BY <2>1, <2>2, <3>1, WireFree
  <2>3. CASE lock # "caller"
    BY <1>0, <2>1, <2>3, WireQuiet
  <2> QED
    BY <2>2, <2>3
<1>6. CASE CloseCutShort
  <2>1. UNCHANGED <<theirs, skills, mirror, job, at>> /\ failure' = "closed"
        /\ lock' = IF lock = "closer" THEN "none" ELSE lock
    BY <1>6 DEF CloseCutShort, Kept, Unlock, TornDown
  <2>2. CASE lock = "closer"
    BY <2>1, <2>2, WireFree
  <2>3. CASE lock # "closer"
    BY <1>0, <2>1, <2>3, WireQuiet
  <2> QED
    BY <2>2, <2>3
<1>7. ASSUME NEW p \in Callers, StopEnds(p) PROVE WireInv'
  <2>1. UNCHANGED <<theirs, lock, skills, mirror, job>> /\ At(p) = "stopping"
    BY <1>7 DEF StopEnds, Kept
  <2>2. lock = "caller" => at' = at
    BY <1>0, <1>7, <2>1 DEF StopEnds, GoTo, At
  <2> QED
    BY <1>0, <2>1, <2>2, WireQuiet
<1>8. ASSUME NEW p \in Callers, TimesOut(p) \/ Broken(p) PROVE WireInv'
  <2>1. lock = p
    BY <1>0, <1>8 DEF TimesOut, Broken, Asking, At, Callers
  <2>2. lock' = "none"
    BY <1>8, <2>1 DEF TimesOut, Broken, Fails, Unlock
  <2>3. failure' # "none"
    BY <1>8, ConnSteps DEF TimesOut, Broken, Leaves, Worsens, conn
  <2> QED
    BY <2>2, <2>3, WireFree
<1> QED
  BY <1>1, <1>2, <1>3, <1>4, <1>5, <1>6, <1>7, <1>8

LEMMA WireStop ==
  ASSUME Books, Books', Worsens, WireInv, NEW p \in Callers, Stop(p)
  PROVE  WireInv'
<1> USE DEF Books
<1>1. lock = "none" /\ lock' = "none" /\ UNCHANGED <<lines, board, engine, strayed, mirror>>
  BY DEF Stop, LocksInv, Kept
<1>2. ASSUME failure' = "none" PROVE Unasked'
  <2>1. Unasked
    BY <1>1, <1>2 DEF WireInv, Worsens
  <2>2. \A i \in 1 .. Len(outbox') : outbox'[i].word = "interrupt"
    <3>1. CASE outbox' = outbox
      BY <2>1, <3>1 DEF Unasked
    <3>2. CASE outbox' = Append(outbox, [word |-> "interrupt", move |-> "none", fresh |-> TRUE])
      <4> DEFINE l == [word |-> "interrupt", move |-> "none", fresh |-> TRUE]
      <4>1. l \in SentType
        BY DEF SentType, Words
      <4>2. /\ Len(outbox') = Len(outbox) + 1 /\ outbox'[Len(outbox) + 1] = l
            /\ \A i \in 1 .. Len(outbox) : outbox'[i] = outbox[i]
        BY <3>2, <4>1, AppendProperties DEF GtpFields
      <4>3. Len(outbox) \in Nat
        BY LenProperties DEF GtpFields
      <4> QED
        BY <2>1, <4>2, <4>3 DEF Unasked
    <3> QED
      BY <3>1, <3>2 DEF Stop
  <2> QED
    BY <1>1, <2>1, <2>2 DEF Unasked, TrueBoard
<1> QED
  BY <1>1, <1>2, WireFree

LEMMA WireCommand ==
  ASSUME ConnType, Books, Books', Worsens, WireInv, NEW p \in Callers, Command(p)
  PROVE  WireInv'
<1> USE DEF Books
<1> DEFINE c == NextCommand(p)
<1>0. lock = "none" /\ mirror \in Boards /\ job \in JobType /\ skills' = skills
      /\ UNCHANGED <<board, engine, strayed>>
  BY DEF Command, Ready, GtpFields, Kept
<1>1. CASE CanSend /\ Sends(c) /\ lock' = p /\ GoTo(p, "asking") /\ UNCHANGED stopLock
           /\ mirror' = (IF c.word = "clear" THEN NoBoard ELSE mirror)
           /\ job' = (IF p = "caller" THEN [job EXCEPT !.phase = c.phase] ELSE job)
  <2>1. Unasked
    BY <1>0, <1>1 DEF WireInv, CanSend
  <2>2. NextCommand(p)' = c
    <3>1. CASE p = "caller"
      BY <1>0, <1>1, <3>1, CommandStays
    <3>2. CASE p = "closer"
      BY <3>2 DEF NextCommand
    <3> QED
      BY <3>1, <3>2 DEF Callers
  <2>3. c.word \in Words /\ c.move \in Vertices \cup Keys \cup {NoKey, "none"}
    BY <1>0, CommandIs
  <2> DEFINE l == [word |-> c.word, move |-> c.move, fresh |-> TRUE]
  <2>4. l \in SentType
    BY <2>3 DEF SentType
  <2>5. /\ Stale(outbox) \in Seq(SentType) /\ Len(Stale(outbox)) = Len(outbox)
        /\ \A i \in 1 .. Len(outbox) : Stale(outbox)[i] = [outbox[i] EXCEPT !.fresh = FALSE]
        /\ Len(Stale(lines)) = Len(lines)
        /\ \A i \in 1 .. Len(lines) : Stale(lines)[i] = [lines[i] EXCEPT !.fresh = FALSE]
        /\ Len(outbox) \in Nat /\ Len(lines) \in Nat
    BY StaleIs, LenProperties DEF GtpFields
  <2>6. outbox' = Append(Stale(outbox), l) /\ lines' = Stale(lines)
    BY <1>1 DEF Sends
  <2> HIDE DEF l
  <2>7. /\ outbox' # <<>> /\ Len(outbox') = Len(outbox) + 1 /\ outbox'[Len(outbox')] = l
        /\ \A i \in 1 .. Len(outbox) : outbox'[i] = Stale(outbox)[i]
    BY <2>4, <2>5, <2>6, AppendProperties
  <2>8. \A i \in 1 .. Len(outbox) : outbox'[i].word = "interrupt"
    <3> SUFFICES ASSUME NEW i \in 1 .. Len(outbox) PROVE outbox'[i].word = "interrupt"
      OBVIOUS
    <3>1. outbox[i] \in SentType /\ outbox[i].word = "interrupt"
      BY <2>1, ElementOfSeq DEF Unasked, GtpFields
    <3>2. [outbox[i] EXCEPT !.fresh = FALSE].word = "interrupt"
      BY <3>1 DEF SentType
    <3> QED
      BY <2>5, <2>7, <3>2
  <2>9. \A i \in 1 .. Len(lines') : lines'[i].kind \in {"report", "end"}
    <3> SUFFICES ASSUME NEW i \in 1 .. Len(lines) PROVE lines'[i].kind \in {"report", "end"}
      BY <2>5, <2>6
    <3>1. lines[i] \in LineType /\ lines[i].kind \in {"report", "end"}
      BY <2>1, ElementOfSeq DEF Unasked, GtpFields
    <3>2. [lines[i] EXCEPT !.fresh = FALSE].kind = lines[i].kind
      BY <3>1 DEF LineType
    <3> QED
      BY <2>5, <2>6, <3>1, <3>2
  <2>10. engine' # "searching" /\ TrueBoard'
    BY <1>0, <1>1, <2>1, NoBoardIs DEF Unasked, TrueBoard
  <2>11. InOutbox(NextCommand(p))'
    BY <2>2, <2>5, <2>7, <2>8, <2>9, <2>10 DEF InOutbox, l
  <2>12. /\ lock' # "none"
         /\ \A q \in Callers : At(q)' = "asking" => q = p
         /\ at' # "reading"
    <3>1. lock' = p /\ (p = "caller" => at' = "asking")
      BY <1>1 DEF GoTo
    <3> QED
      BY <3>1 DEF LocksInv, At, Callers
  <2> QED
    BY <2>11, <2>12 DEF WireInv
<1>2. CASE Leaves(p, SendFails) /\ Fails(p) /\ UNCHANGED <<outbox, lines>>
  <2>1. failure' # "none"
    BY <1>2, ConnSteps DEF Leaves
  <2>2. lock' = "none"
    BY <1>0, <1>2 DEF Fails, Unlock
  <2> QED
    BY <2>1, <2>2, WireFree
<1> QED
  BY <1>1, <1>2 DEF Command

LEMMA WireSkip ==
  ASSUME Books, Books', Worsens, WireInv, NEW p \in Callers, Skip(p)
  PROVE  WireInv'
<1> USE DEF Books
<1> DEFINE c == NextCommand(p)
<1>1. /\ At(p) = "asking" /\ lines # <<>> /\ lines' = Tail(lines)
      /\ Head(lines).kind \notin {"reply", "alien"} /\ lines \in Seq(LineType)
      /\ UNCHANGED <<mirror, job, at, lock, stopLock, closer, outbox, board, engine, strayed, skills>>
  BY DEF Skip, Asking, GtpFields, Kept, locks
<1>2. lock = p /\ (\A q \in Callers : At(q) = "asking" => q = p) /\ at # "reading"
      /\ \A q \in Callers : At(q)' = At(q)
  BY <1>1 DEF LocksInv, At, Callers
<1>3. NextCommand(p)' = c
  BY <1>1, SameCommand
<1>4. /\ Head(lines) = lines[1] /\ Len(lines') = Len(lines) - 1 /\ Len(lines) \in Nat \ {0}
      /\ \A i \in 1 .. Len(lines') : lines'[i] = lines[i + 1]
  BY <1>1, HeadTailProperties, EmptySeq
<1>5. InOutbox(c) \/ InLines(c)
  BY <1>1 DEF WireInv
<1>6. TrueBoard => TrueBoard'
  BY <1>1 DEF TrueBoard
<1> HIDE DEF c
<1>7. ASSUME InOutbox(c) PROVE InOutbox(NextCommand(p))'
  BY <1>1, <1>3, <1>4, <1>6, <1>7 DEF InOutbox
<1>8. ASSUME InLines(c) PROVE InLines(NextCommand(p))'
  <2>1. PICK r \in 1 .. Len(lines) :
        /\ lines[r].kind \in {"reply", "alien"} /\ lines[r].fresh
        /\ \A i \in 1 .. r - 1 : lines[i].kind \in {"report", "end"}
        /\ ReplyTells(c, r)
        /\ IF lines[r].ok /\ c.word = "genmove_analyze"
           THEN SearchAfter(r)
           ELSE /\ \A i \in r + 1 .. Len(lines) : lines[i].kind \in {"report", "end"}
                /\ engine # "searching"
    BY <1>8 DEF InLines
  <2>2. r # 1 /\ r - 1 \in 1 .. Len(lines') /\ lines'[r - 1] = lines[r]
    BY <1>1, <1>4, <2>1
  <2>3. ReplyTells(NextCommand(p), r - 1)'
    <3>1. Recorded(NextCommand(p))' = Recorded(c)
      BY <1>1, <1>3 DEF Recorded
    <3>2. \A v : Played(v)' = Played(v)
      BY <1>1 DEF Played
    <3> QED
      BY <1>1, <1>3, <1>6, <2>1, <2>2, <3>1, <3>2 DEF ReplyTells
  <2>4. SearchAfter(r) => SearchAfter(r - 1)'
    <3>1. \A v : Played(v)' = Played(v)
      BY <1>1 DEF Played
    <3>2. ASSUME SearchAfter(r) PROVE SearchAfter(r - 1)'
      <4>1. \A i \in r .. Len(lines') : lines'[i] = lines[i + 1]
        BY <1>4, <2>1
      <4>2. Len(lines) > r => lines'[Len(lines')] = lines[Len(lines)]
        BY <1>4, <2>1
      <4>3. Len(lines') > r - 1 <=> Len(lines) > r
        BY <1>4, <2>1
      <4>4. \A i \in (r - 1) + 1 .. Len(lines') : i < Len(lines') => lines'[i].kind = "report"
        BY <1>4, <2>1, <3>2, <4>1 DEF SearchAfter
      <4> QED
        BY <1>1, <1>6, <3>1, <3>2, <4>2, <4>3, <4>4 DEF SearchAfter
    <3> QED
      BY <3>2
  <2>5. (\A i \in r + 1 .. Len(lines) : lines[i].kind \in {"report", "end"}) =>
          \A i \in (r - 1) + 1 .. Len(lines') : lines'[i].kind \in {"report", "end"}
    BY <1>4, <2>1
  <2>6. \A i \in 1 .. (r - 1) - 1 : lines'[i].kind \in {"report", "end"}
    BY <1>4, <2>1
  <2>7. outbox' = <<>>
    BY <1>1, <1>8 DEF InLines
  <2>8. IF lines'[r - 1].ok /\ NextCommand(p)'.word = "genmove_analyze"
        THEN SearchAfter(r - 1)'
        ELSE /\ \A i \in (r - 1) + 1 .. Len(lines') : lines'[i].kind \in {"report", "end"}
             /\ engine' # "searching"
    BY <1>1, <1>3, <2>1, <2>2, <2>4, <2>5
  <2> QED
    BY <2>1, <2>2, <2>3, <2>6, <2>7, <2>8 DEF InLines
<1>9. InOutbox(NextCommand(p))' \/ InLines(NextCommand(p))'
  BY <1>5, <1>7, <1>8
<1>10. \A q \in Callers : At(q)' = "asking" => q = p
  BY <1>2
<1>11. lock' # "none" /\ at' # "reading"
  BY <1>1, <1>2 DEF Callers
<1> QED
  BY <1>9, <1>10, <1>11 DEF WireInv

LEMMA WireMismatch ==
  ASSUME ConnType, Books, Books', WireInv, NEW p \in Callers, Mismatch(p)
  PROVE  WireInv'
<1>1. lock = p
  BY DEF Books, LocksInv, Mismatch, Asking, At, Callers
<1>2. lock' = "none"
  BY <1>1 DEF Mismatch, Fails, Unlock
<1>3. failure' # "none"
  BY ConnSteps DEF Mismatch, Leaves
<1> QED
  BY <1>2, <1>3, WireFree DEF Books

\* The reader of a stream takes a line while nothing is asked, or of a failed connection.
LEMMA WireStreamReads ==
  ASSUME Books, Books', Worsens, WireInv, StreamReads
  PROVE  WireInv'
<1>1. lock = "none" /\ lock' = "none"
  BY DEF Books, LocksInv, StreamReads, locks
<1>2. lines # <<>> /\ lines' = Tail(lines) /\ lines \in Seq(LineType)
      /\ UNCHANGED <<outbox, board, engine, strayed, mirror, failure>>
  BY DEF StreamReads, Books, GtpFields, conn
<1>3. failure' = "none" => Unasked'
  BY <1>1, <1>2, UnaskedTail DEF WireInv
<1> QED
  BY <1>1, <1>3, WireFree DEF Books

LEMMA WireQuits ==
  ASSUME Books, Books', Worsens, WireInv, Quits
  PROVE  WireInv'
<1>0. UNCHANGED <<outbox, board, engine, strayed, mirror, job, at, skills, failure>>
  BY DEF Quits, Kept, conn
<1>1. CASE SkipsQuit
  <2>1. UNCHANGED <<theirs, lock>>
    BY <1>0, <1>1 DEF SkipsQuit, theirs
  <2> QED
    BY <1>0, <2>1, WireQuiet DEF Books, Worsens
<1>2. CASE QuitAnswered
  <2>1. Reply("closer") /\ lock' = "none" /\ lines' = Tail(lines) /\ Head(lines).ok
    BY <1>2 DEF QuitAnswered
  <2>2. NextCommand("closer").word = "quit"
    BY DEF NextCommand, Cmd
  <2>3. TrueBoard'
    <3>1. ReplyTells(NextCommand("closer"), 1) /\ lines[1].ok
      BY <2>1, HeadReply DEF Books, GtpFields, Callers
    <3>2. Recorded(NextCommand("closer")) = mirror
      BY <2>2 DEF Recorded
    <3> QED
      BY <1>0, <2>2, <3>1, <3>2 DEF ReplyTells, TrueBoard
  <2>4. Unasked'
    BY <1>0, <2>1, <2>2, <2>3, UnaskedAfterReply DEF Callers
  <2> QED
    BY <2>1, <2>4, WireFree DEF Books
<1> QED
  BY <1>1, <1>2 DEF Quits

LEMMA WireRejected ==
  ASSUME Books, Books', WireInv, NEW p \in Callers, Rejected(p)
  PROVE  WireInv'
<1>1. Reply(p) /\ ~Head(lines).ok /\ lines' = Tail(lines)
      /\ UNCHANGED <<outbox, board, engine, strayed>> /\ mirror' \in {mirror, NoBoard}
  BY DEF Rejected, Fails, Forgotten, Callers
<1>2. lock' = "none"
  BY <1>1 DEF Books, LocksInv, Reply, Rejected, Asking, At, Fails, Unlock, Callers
<1>3. TrueBoard'
  <2>1. TrueBoard
    BY <1>1, HeadReply DEF ReplyTells, Books, GtpFields
  <2> QED
    BY <1>1, <2>1, NoBoardIs DEF TrueBoard
<1>4. Unasked'
  BY <1>1, <1>3, UnaskedAfterReply
<1> QED
  BY <1>2, <1>4, WireFree DEF Books

LEMMA WireGoesOn ==
  ASSUME Books, Books', WireInv, GoesOn
  PROVE  WireInv'
<1> DEFINE c == NextCommand("caller")
<1>1. /\ Reply("caller") /\ lines' = Tail(lines) /\ lock' = "none"
      /\ UNCHANGED <<outbox, board, engine, strayed>>
      /\ mirror' = Recorded(c) /\ job.phase \notin {"list", "main"}
      /\ Head(lines).ok \/ job.phase \in {"name", "param", "rules"}
      /\ c.phase = job.phase
  BY DEF GoesOn, InFlight, Optional, Books, JobInv, Reply, Asking, At
<1>2. c.word \notin {"genmove", "genmove_analyze"}
      /\ (job.phase \in {"name", "param", "rules"} => c.word = job.phase)
  <2>1. CASE job.phase = "sync"
    BY <1>1, <2>1 DEF NextCommand, SyncCommand, Cmd
  <2>2. CASE job.phase \in {"name", "param", "rules", "clear", "setup"}
    BY <2>2 DEF NextCommand, Cmd
  <2>3. CASE job.phase \notin {"sync", "name", "param", "rules", "clear", "setup"}
    <3>1. c.phase = "main"
      BY <1>1, <2>3 DEF NextCommand, Cmd
    <3> QED
      BY <1>1, <3>1
  <2> QED
    BY <2>1, <2>2, <2>3
<1>3. ReplyTells(c, 1) /\ Head(lines) = lines[1]
  BY <1>1, HeadReply DEF Books, GtpFields, Callers
<1>4. TrueBoard'
  <2>1. CASE lines[1].ok
    BY <1>1, <1>2, <1>3, <2>1 DEF ReplyTells, TrueBoard
  <2>2. CASE ~lines[1].ok
    <3>1. TrueBoard /\ mirror' = mirror
      BY <1>1, <1>2, <1>3, <2>2 DEF ReplyTells, Recorded
    <3> QED
      BY <1>1, <3>1 DEF TrueBoard
  <2> QED
    BY <2>1, <2>2
<1>5. Unasked'
  BY <1>1, <1>2, <1>4, UnaskedAfterReply DEF Callers
<1> QED
  BY <1>1, <1>5, WireFree DEF Books

LEMMA WireConnected ==
  ASSUME Books, Books', WireInv, Connected
  PROVE  WireInv'
<1> DEFINE c == NextCommand("caller")
<1>1. /\ Reply("caller") /\ lines' = Tail(lines) /\ job.phase = "list"
      /\ UNCHANGED <<outbox, board, engine, strayed, mirror>>
  BY DEF Connected
<1>2. lock' = "none"
  BY <1>1 DEF Books, LocksInv, Reply, Connected, Asking, At, Unlock, Callers
<1>3. c.word = "list"
  BY <1>1 DEF NextCommand, Cmd
<1>4. TrueBoard'
  <2>1. ReplyTells(c, 1)
    BY <1>1, HeadReply DEF Books, GtpFields, Callers
  <2>2. Recorded(c) = mirror
    BY <1>3 DEF Recorded
  <2> QED
    BY <1>1, <1>3, <2>1, <2>2 DEF ReplyTells, TrueBoard
<1>5. Unasked'
  BY <1>1, <1>3, <1>4, UnaskedAfterReply DEF Callers
<1> QED
  BY <1>2, <1>5, WireFree DEF Books

LEMMA WireRetries ==
  ASSUME Books, Books', WireInv, Retries
  PROVE  WireInv'
<1> USE DEF Books
<1> DEFINE c == NextCommand("caller")
<1>1. /\ Reply("caller") /\ ~Head(lines).ok /\ at = "asking" /\ at' = at /\ lock' = lock /\ closer' = closer
      /\ job.phase = "main" /\ job'.phase = "main" /\ job'.op = job.op
      /\ UNCHANGED <<mirror, board, engine, strayed>>
      /\ lines' = Stale(Tail(lines))
      /\ outbox' = Append(Stale(outbox), [word |-> c.word, move |-> "none", fresh |-> TRUE])
  BY DEF Retries, InFlight, Reply, Asking, At, locks, GtpFields, JobType
<1>2. c = Cmd(job.op, "none", "main") /\ NextCommand("caller")' = c
  BY <1>1 DEF NextCommand
<1>3. /\ outbox = <<>> /\ Head(lines) = lines[1] /\ ReplyTells(c, 1)
      /\ \A i \in 2 .. Len(lines) : lines[i].kind \in {"report", "end"}
      /\ engine # "searching"
  BY <1>1, HeadReply DEF GtpFields, Callers
<1>4. lines # <<>> /\ Tail(lines) \in Seq(LineType) /\ Len(Tail(lines)) = Len(lines) - 1
      /\ Len(lines) \in Nat /\ \A i \in 1 .. Len(Tail(lines)) : Tail(lines)[i] = lines[i + 1]
  BY <1>1, HeadTailProperties, LenProperties DEF Reply, GtpFields
<1>5. /\ Len(lines') = Len(lines) - 1
      /\ \A i \in 1 .. Len(lines') : lines'[i] = [Tail(lines)[i] EXCEPT !.fresh = FALSE]
  BY <1>1, <1>4, StaleIs
<1>6. \A i \in 1 .. Len(lines') : lines'[i].kind \in {"report", "end"}
  <2> SUFFICES ASSUME NEW i \in 1 .. Len(lines') PROVE lines'[i].kind \in {"report", "end"}
    OBVIOUS
  <2>1. Tail(lines)[i] \in LineType /\ Tail(lines)[i].kind \in {"report", "end"}
    <3>1. i \in 1 .. Len(Tail(lines)) /\ i + 1 \in 2 .. Len(lines)
      BY <1>4, <1>5
    <3> QED
      BY <1>3, <1>4, <3>1, ElementOfSeq
  <2>2. [Tail(lines)[i] EXCEPT !.fresh = FALSE].kind = Tail(lines)[i].kind
    BY <2>1 DEF LineType
  <2> QED
    BY <1>5, <2>1, <2>2
<1> DEFINE l == [word |-> c.word, move |-> "none", fresh |-> TRUE]
<1>7. /\ outbox' # <<>> /\ Len(outbox') = 1 /\ outbox'[1] = l
  <2>1. l \in SentType
    <3>1. c.word \in Words
      BY CommandIs DEF GtpFields, Callers
    <3> QED
      BY <3>1 DEF SentType
  <2>2. Stale(outbox) \in Seq(SentType) /\ Len(Stale(outbox)) = 0
    BY <1>3, StaleIs, EmptySeq DEF GtpFields
  <2> HIDE DEF l, c
  <2> QED
    BY <1>1, <2>1, <2>2, AppendProperties DEF l, c
<1>8. TrueBoard'
  BY <1>1, <1>3 DEF ReplyTells, TrueBoard
<1>9. InOutbox(NextCommand("caller"))'
  <2>1. c.move = "none"
    BY <1>2 DEF Cmd
  <2>2. NextCommand("caller")'.move = "none" /\ NextCommand("caller")'.word = c.word
    BY <1>2, <2>1
  <2> HIDE DEF c
  <2>3. outbox'[Len(outbox')] = [word |-> NextCommand("caller")'.word,
                                move |-> NextCommand("caller")'.move, fresh |-> TRUE]
    BY <1>7, <2>2
  <2>4. \A i \in 1 .. Len(outbox') - 1 : outbox'[i].word = "interrupt"
    BY <1>7
  <2> QED
    BY <1>1, <1>3, <1>6, <1>7, <1>8, <2>3, <2>4 DEF InOutbox
<1>10. lock' # "none" /\ at' # "reading" /\ \A q \in Callers : At(q)' = "asking" => q = "caller"
  BY <1>1 DEF LocksInv, At, Callers
<1> QED
  BY <1>9, <1>10 DEF WireInv

LEMMA WireAnswered ==
  ASSUME Books, Books', WireInv, Answered
  PROVE  WireInv'
<1> USE DEF Books
<1> DEFINE c == NextCommand("caller")
<1>1. /\ Reply("caller") /\ Head(lines).ok /\ at = "asking" /\ job.phase = "main"
      /\ lines' = Tail(lines) /\ UNCHANGED <<outbox, board, engine, strayed>>
  BY DEF Answered, Reply, Asking, At
<1>2. c.word = job.op
  BY <1>1 DEF NextCommand, Cmd
<1>3. /\ outbox = <<>> /\ Head(lines) = lines[1] /\ ReplyTells(c, 1)
      /\ (c.word = "genmove_analyze" => SearchAfter(1))
  BY <1>1, HeadReply DEF GtpFields, Callers
<1>4. lines # <<>> /\ Len(lines') = Len(lines) - 1
      /\ Len(lines) \in Nat \ {0} /\ \A i \in 1 .. Len(lines') : lines'[i] = lines[i + 1]
  BY <1>1, HeadTailProperties, LenProperties, EmptySeq DEF Reply, GtpFields
<1>5. CASE job.op = "genmove_analyze"
  <2>1. mirror' = mirror /\ lock' = lock /\ at' = "reading" /\ closer' = closer
    BY <1>5 DEF Answered, locks
  <2>2. SearchAfter(0)'
    <3>1. \A v : Played(v)' = Played(v)
      BY <2>1 DEF Played
    <3>2. TrueBoard => TrueBoard'
      BY <1>1, <2>1 DEF TrueBoard
    <3>3. SearchAfter(1)
      BY <1>2, <1>3, <1>5
    <3>4. Len(lines) > 1 => lines'[Len(lines')] = lines[Len(lines)]
      BY <1>4
    <3>5. \A i \in 0 + 1 .. Len(lines') : i < Len(lines') => lines'[i].kind = "report"
      <4>1. \A i \in 2 .. Len(lines) : i < Len(lines) => lines[i].kind = "report"
        BY <3>3 DEF SearchAfter
      <4> QED
        BY <1>4, <4>1
    <3>6. Len(lines') > 0 <=> Len(lines) > 1
      BY <1>4
    <3> QED
      BY <1>1, <2>1, <3>1, <3>2, <3>3, <3>4, <3>5, <3>6 DEF SearchAfter
  <2>3. lock' # "none" /\ \A q \in Callers : At(q)' # "asking"
    BY <1>1, <2>1 DEF LocksInv, At, Callers
  <2> QED
    BY <1>1, <1>3, <2>2, <2>3 DEF WireInv
<1>6. CASE job.op # "genmove_analyze"
  <2>1. lock' = "none"
    BY <1>1, <1>6 DEF Answered, Unlock, LocksInv
  <2>2. TrueBoard'
    <3>1. CASE job.op = "genmove"
      <4>1. mirror' = IF lines[1].word = "junk" THEN mirror ELSE Played(lines[1].word)
        BY <1>3, <3>1 DEF Answered
      <4>2. ~strayed => lines[1].word # "junk" /\ (mirror.key # NoKey => board = Played(lines[1].word))
        BY <1>1, <1>2, <1>3, <3>1 DEF ReplyTells
      <4>3. mirror.key = NoKey => Played(lines[1].word).key = NoKey
        BY DEF Played
      <4> QED
        BY <1>1, <4>1, <4>2, <4>3 DEF TrueBoard
    <3>2. CASE job.op # "genmove"
      <4>1. mirror' \in {mirror, NoBoard}
        BY <1>6, <3>2 DEF Answered, Forgotten
      <4>2. ~strayed /\ Recorded(c).key # NoKey => board = Recorded(c)
        BY <1>1, <1>2, <1>3, <1>6, <3>2 DEF ReplyTells
      <4>3. Recorded(c) = mirror
        <5>1. job.op \in {"start", "final_score", "raw", "stop", "none", "connect"}
          BY <1>6, <3>2 DEF GtpFields, JobType, Ops
        <5> QED
          BY <1>2, <5>1 DEF Recorded
      <4> QED
        BY <1>1, <4>1, <4>2, <4>3, NoBoardIs DEF TrueBoard
    <3> QED
      BY <3>1, <3>2
  <2>3. Unasked'
    BY <1>1, <1>2, <1>6, <2>2, UnaskedAfterReply DEF Callers
  <2> QED
    BY <2>1, <2>3, WireFree
<1> QED
  BY <1>5, <1>6

LEMMA WireSearchReads ==
  ASSUME Books, Books', Worsens, WireInv, SearchReads
  PROVE  WireInv'
<1> USE DEF Books
<1>1. /\ at = "reading" /\ lines # <<>> /\ lines' = Tail(lines) /\ lock = "caller"
      /\ UNCHANGED <<outbox, board, engine, strayed, failure>>
  BY DEF SearchReads, LocksInv, conn
<1>2. outbox = <<>> /\ SearchAfter(0)
  BY <1>1 DEF WireInv
<1>3. /\ Len(lines') = Len(lines) - 1 /\ Head(lines) = lines[1]
      /\ Len(lines) \in Nat \ {0} /\ \A i \in 1 .. Len(lines') : lines'[i] = lines[i + 1]
  BY <1>1, HeadTailProperties, LenProperties, EmptySeq DEF GtpFields
<1>4. CASE Head(lines).kind \in {"move", "end"}
  <2>1. /\ mirror' = IF lines[1].word \in {"junk", "none"} THEN mirror ELSE Played(lines[1].word)
        /\ lock' = "none"
    BY <1>1, <1>3, <1>4 DEF SearchReads, Unlock
  <2>2. Len(lines) = 1 /\ lines[1].kind = "move" /\ engine = "idle"
    <3>1. Len(lines) > 1 => lines[1].kind = "report"
      BY <1>2, <1>3 DEF SearchAfter
    <3>2. Len(lines) = 1
      BY <1>3, <1>4, <3>1
    <3>3. engine # "searching"
      BY <1>2, <1>3, <1>4, <3>2 DEF SearchAfter
    <3>4. engine = "idle"
      BY <1>2, <3>3 DEF SearchAfter, GtpFields
    <3> QED
      BY <1>2, <3>2, <3>4 DEF SearchAfter
  <2>3. TrueBoard'
    <3>1. ~strayed => lines[1].word \notin {"junk", "none"}
                      /\ (mirror.key # NoKey => board = Played(lines[1].word))
      BY <1>2, <2>2 DEF SearchAfter
    <3>2. mirror.key = NoKey => Played(lines[1].word).key = NoKey
      BY DEF Played
    <3> QED
      BY <1>1, <2>1, <3>1, <3>2 DEF TrueBoard
  <2>4. Unasked'
    <3>1. Len(lines') = 0 /\ Len(outbox') = 0
      BY <1>1, <1>2, <1>3, <2>2, EmptySeq
    <3> QED
      BY <1>1, <2>2, <2>3, <3>1 DEF Unasked
  <2> QED
    BY <2>1, <2>4, WireFree
<1>5. CASE Head(lines).kind \notin {"move", "end"}
  <2>1. mirror' = mirror /\ lock' = lock /\ at' = at /\ closer' = closer
    BY <1>5 DEF SearchReads, locks
  <2>2. SearchAfter(0)'
    <3>1. \A v : Played(v)' = Played(v)
      BY <2>1 DEF Played
    <3>2. TrueBoard => TrueBoard'
      BY <1>1, <2>1 DEF TrueBoard
    <3>3. Len(lines) > 1 => lines'[Len(lines')] = lines[Len(lines)]
      BY <1>3
    <3>4. \A i \in 0 + 1 .. Len(lines') : i < Len(lines') => lines'[i].kind = "report"
      <4>1. \A i \in 1 .. Len(lines) : i < Len(lines) => lines[i].kind = "report"
        BY <1>2 DEF SearchAfter
      <4> QED
        BY <1>3, <4>1
    <3>5. engine = "idle" => Len(lines) > 1
      BY <1>2, <1>3, <1>5 DEF SearchAfter
    <3>6. Len(lines') > 0 <=> Len(lines) > 1
      BY <1>3
    <3> QED
      BY <1>1, <1>2, <2>1, <3>1, <3>2, <3>3, <3>4, <3>5, <3>6 DEF SearchAfter
  <2>3. lock' # "none" /\ \A q \in Callers : At(q)' # "asking"
    BY <1>1, <2>1 DEF LocksInv, At, Callers
  <2> QED
    BY <1>1, <1>2, <2>2, <2>3 DEF WireInv
<1> QED
  BY <1>4, <1>5

\* A line of an analysis comes while nothing is asked, or before or after a reply.
LEMMA ArrivesStays ==
  ASSUME lines \in Seq(LineType), NEW k \in {"report", "end"},
         Arrives(Line([fresh |-> TRUE], k, TRUE, "none"))
  PROVE  /\ Len(lines') = Len(lines) + 1 /\ Len(lines) \in Nat
         /\ lines'[Len(lines) + 1].kind = k /\ lines'[Len(lines) + 1].word = "none"
         /\ \A i \in 1 .. Len(lines) : lines'[i] = lines[i]
<1>1. Line([fresh |-> TRUE], k, TRUE, "none") \in LineType
  BY LineIs
<1>2. Line([fresh |-> TRUE], k, TRUE, "none").kind = k /\ Line([fresh |-> TRUE], k, TRUE, "none").word = "none"
  BY DEF Line
<1> QED
  BY <1>1, <1>2, ArrivesIs, LenProperties

\* What the engine's steps leave alone.
LEMMA EngineKeeps ==
  ASSUME Engine
  PROVE  /\ UNCHANGED <<mirror, job, skills, lock, at, closer, failure>>
         /\ \A q \in Callers : At(q)' = At(q) /\ NextCommand(q)' = NextCommand(q)
         /\ \A v : Played(v)' = Played(v)
         /\ \A q \in Callers : Recorded(NextCommand(q))' = Recorded(NextCommand(q))
<1>1. UNCHANGED <<mirror, job, skills, lock, at, closer, failure>>
  BY DEF Engine, locks, baseVars, conn
<1>2. \A q \in Callers : At(q)' = At(q) /\ NextCommand(q)' = NextCommand(q)
  BY <1>1, SameCommand DEF At
<1> QED
  BY <1>1, <1>2 DEF Played, Recorded

\* A line of an analysis, the board as it was: the engine reports, or its analysis ends.
LEMMA WireReport ==
  ASSUME Books, Books', WireInv, Engine, NEW k \in {"report", "end"},
         Arrives(Line([fresh |-> TRUE], k, TRUE, "none")),
         UNCHANGED <<outbox, board, strayed>>,
         k = "report" => engine' = engine,
         k = "end" => engine = "analysing" /\ engine' = "idle",
         engine # "idle"
  PROVE  WireInv'
<1> USE DEF Books
<1>1. /\ Len(lines') = Len(lines) + 1 /\ Len(lines) \in Nat
      /\ lines'[Len(lines) + 1].kind = k /\ lines'[Len(lines) + 1].word = "none"
      /\ \A i \in 1 .. Len(lines) : lines'[i] = lines[i]
  BY ArrivesStays DEF GtpFields
<1>2. /\ UNCHANGED <<mirror, job, skills, lock, at, closer, failure>>
      /\ \A q \in Callers : At(q)' = At(q) /\ NextCommand(q)' = NextCommand(q)
      /\ \A v : Played(v)' = Played(v)
      /\ \A q \in Callers : Recorded(NextCommand(q))' = Recorded(NextCommand(q))
  BY EngineKeeps
<1>3. TrueBoard => TrueBoard'
  BY <1>2 DEF TrueBoard
<1>4. (engine # "searching" => engine' # "searching") /\ (engine # "analysing" => engine' = engine /\ k = "report")
  OBVIOUS
<1>5. Unasked => Unasked'
  BY <1>1, <1>3, <1>4 DEF Unasked
<1>6. ASSUME NEW r \in 0 .. Len(lines), SearchAfter(r) PROVE SearchAfter(r)'
  <2>1. engine = "searching" /\ k = "report" /\ engine' = "searching"
    BY <1>4, <1>6 DEF SearchAfter, GtpFields
  <2>2. \A i \in r + 1 .. Len(lines) : lines[i].kind = "report"
    BY <1>1, <1>6, <2>1 DEF SearchAfter
  <2>3. \A i \in r + 1 .. Len(lines') : lines'[i].kind = "report"
    BY <1>1, <2>1, <2>2
  <2>4. TrueBoard'
    BY <1>3, <1>6, <2>1 DEF SearchAfter
  <2> QED
    BY <1>1, <2>1, <2>3, <2>4 DEF SearchAfter
<1>7. ASSUME NEW q \in Callers, InOutbox(NextCommand(q)) PROVE InOutbox(NextCommand(q))'
  <2> DEFINE c == NextCommand(q)
  <2>1. NextCommand(q)' = c
    BY <1>2
  <2> HIDE DEF c
  <2>2. InOutbox(c)
    BY <1>7 DEF c
  <2> QED
    BY <1>1, <1>3, <1>4, <2>1, <2>2 DEF InOutbox
<1>8. ASSUME NEW q \in Callers, InLines(NextCommand(q)) PROVE InLines(NextCommand(q))'
  <2> DEFINE c == NextCommand(q)
  <2>1. NextCommand(q)' = c /\ Recorded(NextCommand(q))' = Recorded(c)
    BY <1>2
  <2> HIDE DEF c
  <2>2. PICK r \in 1 .. Len(lines) :
        /\ lines[r].kind \in {"reply", "alien"} /\ lines[r].fresh
        /\ \A i \in 1 .. r - 1 : lines[i].kind \in {"report", "end"}
        /\ ReplyTells(c, r)
        /\ IF lines[r].ok /\ c.word = "genmove_analyze"
           THEN SearchAfter(r)
           ELSE /\ \A i \in r + 1 .. Len(lines) : lines[i].kind \in {"report", "end"}
                /\ engine # "searching"
    BY <1>8 DEF InLines, c
  <2>3. lines'[r] = lines[r] /\ r \in 1 .. Len(lines')
    BY <1>1, <2>2
  <2>4. ReplyTells(NextCommand(q), r)'
    BY <1>2, <1>3, <2>1, <2>2, <2>3 DEF ReplyTells
  <2>5. CASE lines[r].ok /\ c.word = "genmove_analyze"
    <3>1. SearchAfter(r)'
      BY <1>6, <2>2, <2>5
    <3> QED
      BY SMTT(30), <1>1, <1>8, <2>1, <2>2, <2>3, <2>4, <2>5, <3>1 DEF InLines
  <2>6. CASE ~(lines[r].ok /\ c.word = "genmove_analyze")
    <3>1. \A i \in r + 1 .. Len(lines') : lines'[i].kind \in {"report", "end"}
      BY <1>1, <2>2, <2>6
    <3> QED
      BY <1>1, <1>4, <1>8, <2>1, <2>2, <2>3, <2>4, <2>6, <3>1 DEF InLines
  <2> QED
    BY <2>5, <2>6
<1>9. at' = "reading" => outbox' = <<>> /\ SearchAfter(0)'
  BY <1>1, <1>2, <1>6 DEF WireInv
<1>10. failure' = "none" /\ lock' = "none" => Unasked'
  BY <1>2, <1>5 DEF WireInv
<1>11. \A q \in Callers : At(q)' = "asking" => InOutbox(NextCommand(q))' \/ InLines(NextCommand(q))'
  BY <1>2, <1>7, <1>8 DEF WireInv
<1> QED
  BY <1>9, <1>10, <1>11 DEF WireInv

\* A search ends with the move the engine's board has, unless it strays.
LEMMA MovesTell ==
  ASSUME mirror \in Boards, lines \in Seq(LineType), mirror' = mirror, TrueBoard,
         NEW k \in {"reply", "move"}, NEW c,
         c \in SentType \/ c = [fresh |-> TRUE], EngineMoves(c, k)
  PROVE  LET l == lines'[Len(lines) + 1] IN
         /\ Len(lines') = Len(lines) + 1 /\ Len(lines) \in Nat
         /\ \A i \in 1 .. Len(lines) : lines'[i] = lines[i]
         /\ l.kind = k /\ l.ok /\ l.fresh = c.fresh /\ l.word # "none"
         /\ ~strayed' => l.word # "junk"
         /\ ~strayed' /\ mirror'.key # NoKey => board' = Played(l.word)
<1> DEFINE l(w) == Line(c, k, TRUE, w)
<1>1. Free \subseteq Vertices
  BY DEF Free
<1>2. \A w \in Vertices \cup {"resign", "junk"} :
        /\ l(w) \in LineType /\ l(w).kind = k /\ l(w).ok /\ l(w).fresh = c.fresh /\ l(w).word = w
  <2>1. c.fresh \in BOOLEAN
    <3>1. CASE c \in SentType
      BY <3>1 DEF SentType
    <3>2. CASE c = [fresh |-> TRUE]
      BY <3>2
    <3> QED
      BY <3>1, <3>2
  <2> QED
    BY <2>1 DEF Line, LineType
<1>3. ASSUME NEW w \in Vertices \cup {"resign", "junk"}, Arrives(l(w)),
             w \in Vertices => board' = Moved(w) /\ strayed' = strayed,
             w = "resign" => UNCHANGED <<board, strayed>>,
             w = "junk" => strayed' = TRUE
      PROVE  LET m == lines'[Len(lines) + 1] IN
             /\ Len(lines') = Len(lines) + 1 /\ Len(lines) \in Nat
             /\ \A i \in 1 .. Len(lines) : lines'[i] = lines[i]
             /\ m.kind = k /\ m.ok /\ m.fresh = c.fresh /\ m.word # "none"
             /\ ~strayed' => m.word # "junk"
             /\ ~strayed' /\ mirror'.key # NoKey => board' = Played(m.word)
  <2>1. l(w) \in LineType
    BY <1>2
  <2> HIDE DEF l
  <2>2. /\ Len(lines') = Len(lines) + 1 /\ Len(lines) \in Nat
        /\ \A i \in 1 .. Len(lines) : lines'[i] = lines[i]
        /\ lines'[Len(lines) + 1] = l(w)
    BY <1>3, <2>1, ArrivesIs, LenProperties
  <2>3. /\ l(w).kind = k /\ l(w).ok /\ l(w).fresh = c.fresh /\ l(w).word = w
    BY <1>2
  <2>4. w # "none" /\ (w \in Vertices => w # "junk" /\ w # "resign")
    BY VerticesAssumption
  <2>5. ~strayed' => w # "junk"
    BY <1>3
  <2>6. ASSUME ~strayed', mirror'.key # NoKey PROVE board' = Played(w)
    <3>1. CASE w \in Vertices
      <4>1. board = mirror /\ board' = [board EXCEPT !.moves = Append(@, w)]
        BY <1>3, <2>6, <3>1 DEF TrueBoard, Moved
      <4>2. Played(w) = [mirror EXCEPT !.moves = Append(@, w)]
        BY <2>4, <2>6, <3>1 DEF Played
      <4> QED
        BY <4>1, <4>2
    <3>2. CASE w = "resign"
      BY <1>3, <2>6, <3>2 DEF TrueBoard, Played
    <3>3. CASE w = "junk"
      BY <1>3, <2>6, <3>3
    <3> QED
      BY <3>1, <3>2, <3>3
  <2> QED
    BY <2>2, <2>3, <2>4, <2>5, <2>6
<1>4. \/ \E v \in Free : board' = Moved(v) /\ strayed' = strayed /\ Arrives(l(v))
      \/ Arrives(l("resign")) /\ UNCHANGED <<board, strayed>>
      \/ Arrives(l("junk")) /\ strayed' = TRUE
  BY DEF EngineMoves
<1>5. "resign" \notin Vertices /\ "junk" \notin Vertices
  BY VerticesAssumption
<1> HIDE DEF l
<1>6. CASE \E v \in Free : board' = Moved(v) /\ strayed' = strayed /\ Arrives(l(v))
  <2>1. PICK v \in Free : board' = Moved(v) /\ strayed' = strayed /\ Arrives(l(v))
    BY <1>6
  <2>2. v \in Vertices /\ v # "resign" /\ v # "junk"
    BY <1>1, <1>5
  <2> QED
    BY <1>3, <2>1, <2>2
<1>7. CASE Arrives(l("resign")) /\ UNCHANGED <<board, strayed>>
  BY <1>3, <1>5, <1>7
<1>8. CASE Arrives(l("junk")) /\ strayed' = TRUE
  BY <1>3, <1>5, <1>8
<1> QED
  BY <1>4, <1>6, <1>7, <1>8

\* The search's move.
LEMMA WireMoves ==
  ASSUME Books, Books', WireInv, Engine, engine = "searching", engine' = "idle",
         UNCHANGED outbox, EngineMoves([fresh |-> TRUE], "move")
  PROVE  WireInv'
<1> USE DEF Books
<1>1. /\ UNCHANGED <<mirror, job, skills, lock, at, closer, failure>>
      /\ \A q \in Callers : At(q)' = At(q) /\ NextCommand(q)' = NextCommand(q)
      /\ \A v : Played(v)' = Played(v)
      /\ \A q \in Callers : Recorded(NextCommand(q))' = Recorded(NextCommand(q))
  BY EngineKeeps
<1>2. /\ Len(lines') = Len(lines) + 1 /\ Len(lines) \in Nat
      /\ \A i \in 1 .. Len(lines) : lines'[i] = lines[i]
  <2>1. Free \subseteq Vertices
    BY DEF Free
  <2>2. \E l \in LineType : Arrives(l)
    BY <2>1, LineIs DEF EngineMoves
  <2> QED
    BY <2>2, ArrivesIs, LenProperties DEF GtpFields
<1>3. ASSUME NEW r \in 0 .. Len(lines), SearchAfter(r) PROVE SearchAfter(r)'
  <2>1. TrueBoard
    BY <1>3 DEF SearchAfter
  <2> DEFINE l == lines'[Len(lines) + 1]
  <2>2. /\ l.kind = "move" /\ l.word # "none"
        /\ ~strayed' => l.word # "junk"
        /\ ~strayed' /\ mirror'.key # NoKey => board' = Played(l.word)
    BY <1>1, <2>1, MovesTell DEF GtpFields
  <2>3. \A i \in r + 1 .. Len(lines) : lines[i].kind = "report"
    BY <1>2, <1>3 DEF SearchAfter
  <2>4. \A i \in r + 1 .. Len(lines') : i < Len(lines') => lines'[i].kind = "report"
    BY <1>2, <2>3
  <2>5. lines'[Len(lines')] = l
    BY <1>2
  <2>6. lines'[Len(lines')].word = l.word /\ Len(lines') > r
    BY <1>2, <2>5
  <2>7. ~strayed' /\ mirror'.key # NoKey => board' = Played(lines[Len(lines)].word)'
    <3>1. ~strayed' /\ mirror'.key # NoKey => board' = Played(lines'[Len(lines')].word)
      BY <2>2, <2>6
    <3> QED
      BY <1>1, <3>1 DEF Played
  <2> HIDE DEF l
  <2> QED
    BY <1>2, <2>2, <2>4, <2>5, <2>6, <2>7 DEF SearchAfter
<1>4. ~Unasked
  BY DEF Unasked
<1>5. ASSUME NEW q \in Callers, At(q) = "asking" PROVE InLines(NextCommand(q))'
  <2> DEFINE c == NextCommand(q)
  <2>1. NextCommand(q)' = c /\ Recorded(NextCommand(q))' = Recorded(c)
    BY <1>1
  <2>2. InLines(c)
    BY <1>5 DEF WireInv, InOutbox
  <2> HIDE DEF c
  <2>3. PICK r \in 1 .. Len(lines) :
        /\ lines[r].kind \in {"reply", "alien"} /\ lines[r].fresh
        /\ \A i \in 1 .. r - 1 : lines[i].kind \in {"report", "end"}
        /\ ReplyTells(c, r)
        /\ IF lines[r].ok /\ c.word = "genmove_analyze"
           THEN SearchAfter(r)
           ELSE /\ \A i \in r + 1 .. Len(lines) : lines[i].kind \in {"report", "end"}
                /\ engine # "searching"
    BY <2>2 DEF InLines
  <2>4. lines[r].ok /\ c.word = "genmove_analyze" /\ SearchAfter(r)
    BY <2>3
  <2>5. SearchAfter(r)'
    BY <1>3, <2>3, <2>4
  <2>6. lines'[r] = lines[r] /\ r \in 1 .. Len(lines')
    BY <1>2, <2>3
  <2>7. ReplyTells(NextCommand(q), r)'
    BY <2>1, <2>3, <2>4, <2>6 DEF ReplyTells
  <2>8. \A i \in 1 .. r - 1 : lines'[i].kind \in {"report", "end"}
    BY <1>2, <2>3
  <2>9. outbox' = <<>>
    BY <2>2 DEF InLines
  <2> QED
    BY <2>1, <2>3, <2>4, <2>5, <2>6, <2>7, <2>8, <2>9 DEF InLines
<1>6. at' = "reading" => outbox' = <<>> /\ SearchAfter(0)'
  BY <1>1, <1>2, <1>3 DEF WireInv
<1>7. failure' = "none" /\ lock' = "none" => Unasked'
  BY <1>1, <1>4 DEF WireInv
<1> QED
  BY <1>1, <1>5, <1>6, <1>7 DEF WireInv

\* The engine reads an interrupt, and says nothing.
LEMMA WireInterrupt ==
  ASSUME Books, Books', WireInv, Engine, outbox # <<>>, outbox' = Tail(outbox), Head(outbox).word = "interrupt",
         UNCHANGED <<lines, board, engine, strayed>>
  PROVE  WireInv'
<1> USE DEF Books
<1>1. /\ UNCHANGED <<mirror, job, skills, lock, at, closer, failure>>
      /\ \A q \in Callers : At(q)' = At(q) /\ NextCommand(q)' = NextCommand(q)
  BY EngineKeeps
<1>2. /\ Head(outbox) = outbox[1] /\ Len(outbox') = Len(outbox) - 1 /\ Len(outbox) \in Nat \ {0}
      /\ \A i \in 1 .. Len(outbox') : outbox'[i] = outbox[i + 1]
      /\ outbox' \in Seq(SentType)
  BY HeadTailProperties, EmptySeq DEF GtpFields
<1>3. TrueBoard => TrueBoard'
  BY <1>1 DEF TrueBoard
<1>4. Unasked => Unasked'
  BY <1>2, <1>3 DEF Unasked
<1>5. ASSUME NEW q \in Callers, At(q) = "asking" PROVE InOutbox(NextCommand(q))'
  <2> DEFINE c == NextCommand(q)
  <2>1. InOutbox(c) /\ NextCommand(q)' = c
    BY <1>1, <1>5 DEF WireInv, InLines
  <2>2. c.word # "interrupt"
    BY CommandIs DEF GtpFields
  <2> HIDE DEF c
  <2>3. Len(outbox) > 1
    <3>1. outbox[Len(outbox)].word = c.word
      BY <2>1 DEF InOutbox
    <3> QED
      BY <1>2, <2>2, <3>1
  <2>4. outbox'[Len(outbox')] = outbox[Len(outbox)] /\ Len(outbox') # 0
    BY <1>2, <2>3
  <2>5. \A i \in 1 .. Len(outbox') - 1 : outbox'[i].word = "interrupt"
    BY <1>2, <2>1 DEF InOutbox
  <2>6. outbox' # <<>>
    BY <2>4, EmptySeq
  <2> QED
    BY <1>3, <2>1, <2>4, <2>5, <2>6 DEF InOutbox
<1>6. at # "reading"
  BY DEF WireInv
<1> QED
  BY <1>1, <1>4, <1>5, <1>6 DEF WireInv

\* The board after an accepted command is what the mirror will be.
LEMMA ObeyedIs ==
  ASSUME Books, NEW p \in Callers, At(p) = "asking", TrueBoard, strayed' = strayed,
         mirror' = mirror, board' \in Obeyed(NextCommand(p)),
         NextCommand(p).word # "genmove"
  PROVE  /\ ~strayed' /\ Recorded(NextCommand(p)).key # NoKey => board' = Recorded(NextCommand(p))
         /\ NextCommand(p).word = "genmove_analyze" => TrueBoard'
<1> DEFINE c == NextCommand(p)
<1>1. c.word \in {"clear", "raw"} => mirror = NoBoard
  <2>1. CASE p = "closer"
    BY <2>1 DEF NextCommand, Cmd
  <2>2. CASE p = "caller"
    <3>1. c.phase = job.phase
      BY <2>2 DEF Books, JobInv, At
    <3>2. job.phase = "sync" /\ ~Synced => c.word # "raw"
      BY <2>2 DEF NextCommand, SyncCommand, Cmd
    <3>3. c.word = "clear" => c.phase = "clear"
      <4>1. CASE job.phase = "sync" /\ ~Synced
        BY <2>2, <4>1 DEF NextCommand, SyncCommand, Cmd
      <4>2. CASE ~(job.phase = "sync" /\ ~Synced)
        <5>1. job.op # "clear" /\ job.phase \in Phases
          BY DEF Books, GtpFields, JobType, Ops
        <5> QED
          BY <2>2, <4>2, <5>1 DEF NextCommand, Cmd, Phases
      <4> QED
        BY <4>1, <4>2
    <3>4. c.word = "raw" => job.op = "raw"
      <4>1. job.phase \in Phases
        BY DEF Books, GtpFields, JobType
      <4> QED
        BY <2>2, <3>2, <4>1 DEF NextCommand, Cmd, Phases
    <3> QED
      BY <3>1, <3>3, <3>4 DEF Books, JobInv
  <2> QED
    BY <2>1, <2>2 DEF Callers
<1>2. mirror = [key |-> mirror.key, moves |-> mirror.moves]
  BY DEF Books, GtpFields, Boards
<1> HIDE DEF c
<1>3. TrueBoard' <=> (~strayed /\ mirror.key # NoKey => board' = mirror)
  BY DEF TrueBoard
<1>4. CASE c.word = "setup"
  BY <1>4 DEF Recorded, Obeyed, c
<1>5. CASE c.word = "undo"
  <2>1. Recorded(c) = [mirror EXCEPT !.moves = Front(@)] /\ board' = [board EXCEPT !.moves = Front(@)]
    BY <1>5 DEF Recorded, Obeyed, c
  <2>2. Recorded(c).key = mirror.key
    BY <1>2, <2>1
  <2> QED
    BY <1>5, <2>1, <2>2 DEF TrueBoard, c
<1>6. CASE c.word = "play"
  <2>1. Recorded(c) = [mirror EXCEPT !.moves = Append(@, c.move)]
        /\ board' = [board EXCEPT !.moves = Append(@, c.move)]
    BY <1>6 DEF Recorded, Obeyed, Moved, c
  <2>2. Recorded(c).key = mirror.key
    BY <1>2, <2>1
  <2> QED
    BY <1>6, <2>1, <2>2 DEF TrueBoard, c
<1>7. CASE c.word \in {"clear", "raw"}
  <2>1. Recorded(c) = mirror
    BY <1>7 DEF Recorded
  <2> QED
    BY <1>1, <1>7, <2>1, NoBoardIs DEF c
<1>8. CASE c.word \notin {"setup", "undo", "play", "clear", "raw"}
  <2>1. Recorded(c) = mirror /\ board' = board
    BY <1>8 DEF Recorded, Obeyed, c
  <2> QED
    BY <2>1, <1>3 DEF TrueBoard, c
<1> QED
  BY <1>4, <1>5, <1>6, <1>7, <1>8

\* The engine answers the command in flight.
LEMMA WireReplies ==
  ASSUME Books, Books', WireInv, Engine, EngineAnswers, Head(outbox).word # "interrupt"
  PROVE  WireInv'
<1> USE DEF Books
<1>1. /\ UNCHANGED <<mirror, job, skills, lock, at, closer, failure>>
      /\ \A q \in Callers : At(q)' = At(q) /\ NextCommand(q)' = NextCommand(q)
      /\ \A v : Played(v)' = Played(v)
      /\ \A q \in Callers : Recorded(NextCommand(q))' = Recorded(NextCommand(q))
  BY EngineKeeps
<1>2. outbox # <<>> /\ outbox' = Tail(outbox) /\ engine = "idle"
  BY DEF EngineAnswers
<1>3. /\ Head(outbox) = outbox[1] /\ Len(outbox') = Len(outbox) - 1 /\ Len(outbox) \in Nat \ {0}
      /\ Head(outbox) \in SentType /\ outbox' \in Seq(SentType)
  BY <1>2, HeadTailProperties, EmptySeq DEF GtpFields
<1>4. ~Unasked /\ at # "reading"
  BY <1>2, <1>3 DEF Unasked, WireInv
<1>5. ASSUME NEW q \in Callers, At(q) = "asking" PROVE InLines(NextCommand(q))'
  <2> DEFINE c == NextCommand(q)
               h == Head(outbox)
  <2>1. InOutbox(c) /\ NextCommand(q)' = c /\ Recorded(NextCommand(q))' = Recorded(c)
    BY <1>1, <1>2, <1>5 DEF WireInv, InLines
  <2>2. /\ Len(outbox) = 1 /\ h = [word |-> c.word, move |-> c.move, fresh |-> TRUE]
        /\ TrueBoard /\ \A i \in 1 .. Len(lines) : lines[i].kind \in {"report", "end"}
    <3>1. Len(outbox) # 1 => outbox[1].word = "interrupt"
      <4>1. \A i \in 1 .. Len(outbox) - 1 : outbox[i].word = "interrupt"
        BY <2>1 DEF InOutbox
      <4> QED
        BY <1>3, <4>1
    <3>2. Len(outbox) = 1
      BY <1>3, <3>1
    <3>3. outbox[1] = [word |-> c.word, move |-> c.move, fresh |-> TRUE]
      BY <2>1, <3>2 DEF InOutbox
    <3> QED
      BY <1>3, <2>1, <3>2, <3>3 DEF InOutbox
  <2>3. outbox' = <<>>
    BY <1>3, <2>2, EmptySeq
  <2>4. h.word = c.word /\ h.move = c.move /\ h.fresh
    BY <2>2
  <2>5. PICK n \in Nat : n = Len(lines)
    BY LenProperties DEF GtpFields
  <2> HIDE DEF c, h
  \* it is enough to know the line that came
  <2>6. ASSUME Len(lines') = n + 1, \A i \in 1 .. n : lines'[i] = lines[i],
               lines'[n + 1].kind \in {"reply", "alien"}, lines'[n + 1].fresh,
               ReplyTells(NextCommand(q), n + 1)',
               lines'[n + 1].ok /\ c.word = "genmove_analyze" => engine' = "searching" /\ TrueBoard',
               ~(lines'[n + 1].ok /\ c.word = "genmove_analyze") => engine' # "searching"
        PROVE  InLines(NextCommand(q))'
    <3>1. n + 1 \in 1 .. Len(lines')
      BY <2>6
    <3>2. \A i \in 1 .. (n + 1) - 1 : lines'[i].kind \in {"report", "end"}
      BY <2>2, <2>5, <2>6
    <3>3. lines'[n + 1].ok /\ c.word = "genmove_analyze" => SearchAfter(n + 1)'
      BY <2>5, <2>6 DEF SearchAfter
    <3>4. \A i \in (n + 1) + 1 .. Len(lines') : lines'[i].kind \in {"report", "end"}
      BY <2>5, <2>6
    <3>5. CASE lines'[n + 1].ok /\ c.word = "genmove_analyze"
      BY <2>1, <2>3, <2>6, <3>1, <3>2, <3>3, <3>5 DEF InLines
    <3>6. CASE ~(lines'[n + 1].ok /\ c.word = "genmove_analyze")
      BY <2>1, <2>3, <2>6, <3>1, <3>2, <3>4, <3>6 DEF InLines
    <3> QED
      BY <3>5, <3>6
  \* what any line that answers the command looks like
  <2>7. ASSUME NEW k \in {"reply", "alien"}, NEW ok \in BOOLEAN, Arrives(Line(h, k, ok, "none"))
        PROVE  /\ Len(lines') = n + 1 /\ \A i \in 1 .. n : lines'[i] = lines[i]
               /\ lines'[n + 1].kind = k /\ lines'[n + 1].fresh /\ lines'[n + 1].ok = ok
    <3>1. Line(h, k, ok, "none") \in LineType
      BY <1>3, LineIs DEF h
    <3>2. /\ Line(h, k, ok, "none").kind = k /\ Line(h, k, ok, "none").fresh = h.fresh
          /\ Line(h, k, ok, "none").ok = ok
      BY DEF Line
    <3>3. /\ Len(lines') = n + 1 /\ \A i \in 1 .. n : lines'[i] = lines[i]
          /\ lines'[n + 1] = Line(h, k, ok, "none")
      BY <2>5, <2>7, <3>1, ArrivesIs DEF GtpFields
    <3> QED
      BY <2>4, <3>2, <3>3
  <2>8. \/ h.word = "genmove" /\ EngineMoves(h, "reply") /\ engine' = engine
        \/ /\ h.word # "genmove" /\ board' \in Obeyed(h) /\ strayed' = strayed
           /\ engine' = CASE h.word = "start" -> "analysing"
                          [] h.word = "genmove_analyze" -> "searching"
                          [] OTHER -> engine
           /\ Arrives(Line(h, "reply", TRUE, "none"))
        \/ /\ \E k \in {"reply", "alien"} : Arrives(Line(h, k, FALSE, "none"))
           /\ UNCHANGED <<board, engine, strayed>>
    BY DEF EngineAnswers, h
  <2>9. CASE h.word = "genmove" /\ EngineMoves(h, "reply") /\ engine' = engine
    <3>1. h \in SentType
      BY <1>3 DEF h
    <3>2. /\ Len(lines') = n + 1 /\ \A i \in 1 .. n : lines'[i] = lines[i]
          /\ lines'[n + 1].kind = "reply" /\ lines'[n + 1].ok /\ lines'[n + 1].fresh = h.fresh
          /\ lines'[n + 1].word # "none"
          /\ ~strayed' => lines'[n + 1].word # "junk"
          /\ ~strayed' /\ mirror'.key # NoKey => board' = Played(lines'[n + 1].word)
      BY <1>1, <2>2, <2>5, <2>9, <3>1, MovesTell DEF GtpFields
    <3>3. ~strayed' /\ mirror'.key # NoKey => board' = Played(lines[n + 1].word)'
      BY <1>1, <3>2 DEF Played
    <3>4. ReplyTells(NextCommand(q), n + 1)'
      BY <2>1, <2>4, <2>9, <3>2, <3>3 DEF ReplyTells
    <3> QED
      BY <1>2, <2>4, <2>6, <2>9, <3>2, <3>4
  <2>10. CASE /\ h.word # "genmove" /\ board' \in Obeyed(h) /\ strayed' = strayed
              /\ engine' = CASE h.word = "start" -> "analysing"
                             [] h.word = "genmove_analyze" -> "searching"
                             [] OTHER -> engine
              /\ Arrives(Line(h, "reply", TRUE, "none"))
    <3>1. /\ Len(lines') = n + 1 /\ \A i \in 1 .. n : lines'[i] = lines[i]
          /\ lines'[n + 1].kind = "reply" /\ lines'[n + 1].fresh /\ lines'[n + 1].ok
      BY <2>7, <2>10
    <3>2. board' \in Obeyed(NextCommand(q)) /\ NextCommand(q).word # "genmove"
      BY <2>4, <2>10 DEF Obeyed, c
    <3>3. /\ ~strayed' /\ Recorded(NextCommand(q)).key # NoKey => board' = Recorded(NextCommand(q))
          /\ NextCommand(q).word = "genmove_analyze" => TrueBoard'
      BY <1>1, <1>5, <2>2, <2>10, <3>2, ObeyedIs
    <3>4. /\ ~strayed' /\ Recorded(c).key # NoKey => board' = Recorded(c)
          /\ c.word = "genmove_analyze" => TrueBoard'
      BY <3>3 DEF c
    <3>5. ReplyTells(NextCommand(q), n + 1)'
      BY <2>1, <2>4, <2>10, <3>1, <3>4 DEF ReplyTells
    <3>6. IF c.word = "genmove_analyze" THEN engine' = "searching" ELSE engine' # "searching"
      BY <1>2, <2>4, <2>10
    <3> QED
      BY <2>6, <3>1, <3>4, <3>5, <3>6
  <2>11. CASE /\ \E k \in {"reply", "alien"} : Arrives(Line(h, k, FALSE, "none"))
              /\ UNCHANGED <<board, engine, strayed>>
    <3>1. PICK k \in {"reply", "alien"} : Arrives(Line(h, k, FALSE, "none"))
      BY <2>11
    <3>2. /\ Len(lines') = n + 1 /\ \A i \in 1 .. n : lines'[i] = lines[i]
          /\ lines'[n + 1].kind = k /\ lines'[n + 1].fresh /\ ~lines'[n + 1].ok
      BY <2>7, <3>1
    <3>3. TrueBoard'
      BY <1>1, <2>2, <2>11 DEF TrueBoard
    <3>4. ReplyTells(NextCommand(q), n + 1)'
      BY <3>2, <3>3 DEF ReplyTells
    <3> QED
      BY <1>2, <2>6, <2>11, <3>2, <3>4
  <2> QED
    BY <2>8, <2>9, <2>10, <2>11
<1> QED
  BY <1>1, <1>4, <1>5 DEF WireInv

\* The engine reads, answers, reports, plays and stops.
LEMMA WireEngine ==
  ASSUME Books, Books', WireInv, Engine
  PROVE  WireInv'
<1>1. CASE EngineStops
  BY <1>1, WireReport DEF EngineStops
<1>2. CASE EngineAnswers
  <2>1. CASE Head(outbox).word = "interrupt"
    BY <1>2, <2>1, WireInterrupt DEF EngineAnswers
  <2>2. CASE Head(outbox).word # "interrupt"
    BY <1>2, <2>2, WireReplies
  <2> QED
    BY <2>1, <2>2
<1>3. CASE EngineStreams
  <2>1. CASE /\ Arrives(Line([fresh |-> TRUE], "report", TRUE, "none"))
             /\ UNCHANGED <<board, engine, strayed>>
    BY <1>3, <2>1, WireReport DEF EngineStreams
  <2>2. CASE /\ engine = "analysing"
             /\ engine' = "idle"
             /\ Arrives(Line([fresh |-> TRUE], "end", TRUE, "none"))
             /\ UNCHANGED <<board, strayed>>
    BY <1>3, <2>2, WireReport DEF EngineStreams
  <2>3. CASE /\ engine = "searching"
             /\ engine' = "idle"
             /\ EngineMoves([fresh |-> TRUE], "move")
    BY <1>3, <2>3, WireMoves DEF EngineStreams
  <2> QED
    BY <1>3, <2>1, <2>2, <2>3 DEF EngineStreams
<1> QED
  BY <1>1, <1>2, <1>3 DEF Engine

\* The connection is reported lost, hung up or no longer read.
LEMMA WireOther ==
  ASSUME ConnType, Books, Books', WireInv, Report \/ HangsUp \/ Reading, UNCHANGED gtpVars
  PROVE  WireInv'
<1>1. UNCHANGED <<lines, outbox, board, engine, strayed, lock, skills, mirror, job>>
  BY DEF gtpVars
<1>2. at' = at
  BY DEF Report, HangsUp, Reading, ReaderEnds
<1>3. Worsens
  BY ConnSteps DEF Reading
<1> QED
  BY <1>1, <1>2, <1>3, WireQuiet DEF Books, theirs, Worsens, ConnType

\* Every step of the client keeps its inductive invariant.
LEMMA GtpStep ==
  ASSUME ConnType, SeatType, GtpFields, GtpInv, GtpNext
  PROVE  Worsens /\ Books' /\ GtpInv'
<1>1. Books /\ WireInv
  BY DEF Books, GtpInv
<1>2. Worsens /\ Books'
  BY <1>1, BooksStep
<1>3. WireInv'
  <2>1. CASE \E p \in Callers : GtpCall(p)
    <3>1. PICK p \in Callers : GtpCall(p)
      BY <2>1
    <3>2. CASE Stop(p)
      BY <1>1, <1>2, <3>2, WireStop
    <3>3. CASE StopEnds(p) \/ TimesOut(p) \/ Broken(p)
      BY <1>1, <1>2, <3>3, WireCalls
    <3>4. CASE Command(p)
      BY <1>1, <1>2, <3>4, WireCommand
    <3>5. CASE Skip(p)
      BY <1>1, <1>2, <3>5, WireSkip
    <3>6. CASE Mismatch(p)
      BY <1>1, <1>2, <3>6, WireMismatch
    <3>7. CASE Rejected(p)
      BY <1>1, <1>2, <3>7, WireRejected
    <3> QED
      BY <3>1, <3>2, <3>3, <3>4, <3>5, <3>6, <3>7 DEF GtpCall
  <2>2. CASE Begin \/ StopReturns \/ StreamFails \/ CloseStarts \/ Closes \/ Cancelled
             \/ CloseCutShort
    BY <1>1, <1>2, <2>2, WireCalls
  <2>3. CASE GoesOn
    BY <1>1, <1>2, <2>3, WireGoesOn
  <2>4. CASE Retries
    BY <1>1, <1>2, <2>4, WireRetries
  <2>5. CASE Connected
    BY <1>1, <1>2, <2>5, WireConnected
  <2>6. CASE Answered
    BY <1>1, <1>2, <2>6, WireAnswered
  <2>7. CASE SearchReads
    BY <1>1, <1>2, <2>7, WireSearchReads
  <2>8. CASE Quits
    BY <1>1, <1>2, <2>8, WireQuits
  <2>9. CASE StreamReads
    BY <1>1, <1>2, <2>9, WireStreamReads
  <2>10. CASE Engine
    BY <1>1, <1>2, <2>10, WireEngine
  <2>11. CASE (Report \/ HangsUp \/ Reading) /\ UNCHANGED gtpVars
    BY <1>1, <1>2, <2>11, WireOther
  <2> QED
    BY <2>1, <2>2, <2>3, <2>4, <2>5, <2>6, <2>7, <2>8, <2>9, <2>10, <2>11
       DEF GtpNext, GtpCaller, GtpCloser, GtpTasks, GtpWorld, Callers
<1> QED
  BY <1>2, <1>3 DEF Books, GtpInv

-----------------------------------------------------------------------------
(* What was left stays left.                                               *)

\* What is done stays done.
Settles ==
  /\ failure = "closed" => failure' = "closed"
  /\ ~reader => ~reader'

LEMMA ConnSettles ==
  ASSUME ConnType
  PROVE  /\ Unusable /\ UNCHANGED wire => Settles
         /\ Unusable /\ reader' = FALSE /\ UNCHANGED <<sock, peer>> => Settles
         /\ SendFails => Settles
         /\ TornDown => Settles
         /\ Lost /\ UNCHANGED wire => Settles
         /\ UNCHANGED <<conn, wire>> => Settles
         /\ HangsUp \/ ReaderEnds \/ Report => Settles
         /\ closing' = TRUE /\ UNCHANGED <<failure, report, wire>> => Settles
<1> USE DEF ConnType, Settles, conn, wire
<1>1. Unusable => (failure = "closed" => failure' = "closed")
  BY DEF Unusable, Worse
<1>2. Lost => failure' = "closed"
  BY DEF Lost, Worse
<1>3. Stalls => Settles
  BY <1>1 DEF Stalls
<1>4. WriteLost => Settles
  BY <1>2 DEF WriteLost
<1>5. WriteBroken => Settles
  BY <1>1 DEF WriteBroken
<1>6. SendFails => Settles
  BY <1>3, <1>4, <1>5 DEF SendFails, Refused
<1>7. HangsUp \/ Report => Settles
  BY DEF HangsUp, Report
<1>8. ReaderEnds => Settles
  BY <1>1, <1>2 DEF ReaderEnds
<1> QED
  BY <1>1, <1>2, <1>6, <1>7, <1>8 DEF TornDown

\* A connect or a call that fails: what becomes of the connection.
LEMMA LeavesSettles ==
  ASSUME ConnType, NEW p
  PROVE  /\ Leaves(p, SendFails) => Settles
         /\ Leaves(p, Unusable /\ UNCHANGED wire) => Settles
         /\ Leaves(p, UNCHANGED <<conn, wire>>) => Settles
BY ConnSettles DEF Leaves

LEMMA GtpLeft ==
  ASSUME BaseType, GtpFields, LocksInv, LeftInv, GtpNext
  PROVE  LeftInv' /\ heard' \in {heard, "current"}
<1>1. ConnType
  BY DEF ConnType, BaseType
<1> DEFINE Kind == /\ heard' = heard /\ Settles
                   /\ closer' = "done" => closer = "done" \/ (failure' = "closed" /\ ~reader')
<1>2. Kind => LeftInv' /\ heard' \in {heard, "current"}
  BY DEF LeftInv, Settles
<1> HIDE DEF Kind
<1>3. ASSUME NEW p \in Callers, GtpCall(p) PROVE Kind
  <2>1. Settles
    <3>1. CASE Stop(p)
      BY <1>1, <3>1, ConnSettles DEF Stop
    <3>2. CASE StopEnds(p)
      BY <1>1, <3>2, ConnSettles DEF StopEnds
    <3>3. CASE Command(p)
      BY <1>1, <3>3, ConnSettles, LeavesSettles DEF Command, Sends
    <3>4. CASE Skip(p) \/ Rejected(p)
      BY <1>1, <3>4, ConnSettles DEF Skip, Rejected
    <3>5. CASE Mismatch(p)
      BY <1>1, <3>5, LeavesSettles DEF Mismatch
    <3>6. CASE TimesOut(p)
      BY <1>1, <3>6, LeavesSettles DEF TimesOut
    <3>7. CASE Broken(p)
      BY <1>1, <3>7, LeavesSettles DEF Broken
    <3> QED
      BY <1>3, <3>1, <3>2, <3>3, <3>4, <3>5, <3>6, <3>7 DEF GtpCall
  <2>2. heard' = heard
    BY <1>3 DEF GtpCall, Stop, StopEnds, Command, Skip, Rejected, Mismatch, TimesOut, Broken, Kept
  <2>3. closer' = "done" => closer = "done"
    BY <1>3 DEF GtpCall, Stop, StopEnds, Command, Skip, Rejected, Mismatch, TimesOut, Broken,
                GoTo, Fails, CallEnds, Callers
  <2> QED
    BY <2>1, <2>2, <2>3 DEF Kind
<1>4. ASSUME StopReturns \/ GoesOn \/ Retries \/ Answered \/ SearchReads \/ Begin \/ StreamFails \/ Engine
      PROVE  Kind
  <2>1. UNCHANGED <<conn, wire, heard, closer>>
    BY <1>4 DEF StopReturns, GoesOn, Retries, Answered, SearchReads, Begin, StreamFails, Engine,
                Kept, CallEnds, baseVars
  <2> QED
    BY <1>1, <2>1, ConnSettles DEF Kind
<1>5. ASSUME Connected PROVE Kind
  <2>1. heard' = heard /\ closer' = closer
    BY <1>5 DEF Connected, Kept, CallEnds
  <2>2. Settles
    BY <1>1, <1>5, ConnSettles DEF Connected
  <2> QED
    BY <2>1, <2>2 DEF Kind
<1>6. ASSUME Cancelled PROVE Kind
  <2>1. heard' = heard /\ closer' = closer
    BY <1>6 DEF Cancelled, Kept, Fails, CallEnds
  <2>2. Settles
    <3>1. CASE at \in {"asking", "reading"}
      BY <1>1, <1>6, <3>1, ConnSettles DEF Cancelled, Leaves
    <3>2. CASE at \notin {"asking", "reading"}
      BY <1>1, <1>6, <3>2, ConnSettles DEF Cancelled, Leaves
    <3> QED
      BY <3>1, <3>2
  <2> QED
    BY <2>1, <2>2 DEF Kind
<1>7. ASSUME CloseStarts \/ Quits PROVE Kind
  <2>1. Settles
    BY <1>1, <1>7, ConnSettles DEF CloseStarts, Quits
  <2> QED
    BY <1>7, <2>1 DEF Kind, CloseStarts, Quits, Kept
<1>8. ASSUME Closes \/ CloseCutShort PROVE Kind
  <2>1. Settles
    BY <1>1, <1>8, ConnSettles DEF Closes, CloseCutShort
  <2> QED
    BY <1>8, <2>1 DEF Kind, Closes, CloseCutShort, Kept, TornDown
<1>9. ASSUME (Report \/ HangsUp \/ Reading) /\ UNCHANGED gtpVars PROVE Kind
  <2>1. Settles
    BY <1>1, <1>9, ConnSettles DEF Reading
  <2> QED
    BY <1>9, <2>1 DEF Kind, Report, HangsUp, Reading, ReaderEnds
\* a stream that reads is one that the slot, or a stop, still knows of
<1>10. ASSUME StreamReads PROVE LeftInv' /\ heard' \in {heard, "current"}
  <2>1. slot \/ stopLock # "none"
    BY <1>10 DEF StreamReads, LocksInv
  <2>2. heard' \in {heard, "current"} /\ UNCHANGED <<conn, wire, closer>>
    BY <1>10, <2>1 DEF StreamReads
  <2> QED
    BY <2>2 DEF LeftInv, conn, wire
<1> QED
  BY <1>2, <1>3, <1>4, <1>5, <1>6, <1>7, <1>8, <1>9, <1>10
     DEF GtpNext, GtpCaller, GtpCloser, GtpTasks, GtpWorld, Callers

-----------------------------------------------------------------------------
(* The handol-mux client.                                                  *)

\* A failure that is kept drops the analysis.
Drops ==
  \/ UNCHANGED <<pending, current>> /\ failure' = failure
  \/ pending' = 0 /\ current' = 0

\* A retired channel is not opened, and nothing late is left on a connection.
Links ==
  \A c \in Channels : /\ link'[c] = "up" => link[c] = "up" \/ ~retired
                      /\ surface'[c] = "stale" => surface[c] = "stale"

ChannelType ==
  /\ link \in [Channels -> {"none", "up", "gone"}]
  /\ held \in [Channels -> Requests \cup {"none"}]
  /\ req \in [Requests -> [state : {"none", "waiting", "trying", "opening", "sent", "answered",
                                    "failed"}, losses : 0 .. 1]]
  /\ surface \in [Channels -> {"nothing", "asked", "stale"}]

LEMMA DoneIs ==
  ASSUME ChannelType, NEW r \in Requests, NEW s \in {"waiting", "trying", "opening", "sent",
                                                     "answered", "failed"}
  PROVE  /\ Becomes(r, s) => req' \in [Requests -> [state : {"none", "waiting", "trying", "opening",
                                          "sent", "answered", "failed"}, losses : 0 .. 1]]
         /\ Done(r, s) => /\ req' \in [Requests -> [state : {"none", "waiting", "trying", "opening",
                                          "sent", "answered", "failed"}, losses : 0 .. 1]]
                          /\ held' \in [Channels -> Requests \cup {"none"}]
BY DEF ChannelType, Becomes, Done, Unheld

LEMMA DropIs ==
  ASSUME ChannelType, NEW c \in Channels, Drop(c)
  PROVE  /\ link' \in [Channels -> {"none", "up", "gone"}]
         /\ surface' \in [Channels -> {"nothing", "asked", "stale"}]
         /\ Links
BY DEF ChannelType, Drop, Links

LEMMA LosesIs ==
  ASSUME ConnType, ChannelType, NEW r \in Requests, Loses(r), UNCHANGED wire
  PROVE  ChannelType' /\ ConnType' /\ Settles /\ Drops /\ Links
<1> DEFINE c == Channel(r)
<1>1. c \in Channels
  BY DEF Channel, Channels
<1>2. /\ link' \in [Channels -> {"none", "up", "gone"}]
      /\ surface' \in [Channels -> {"nothing", "asked", "stale"}]
      /\ Links
  BY <1>1, DropIs DEF Loses
<1>3. UNCHANGED conn => ConnType' /\ Settles
  BY ConnSteps, ConnSettles DEF Worsens
<1>4. CASE Done(r, "failed") /\ UNCHANGED <<conn, pending, current>>
  BY <1>2, <1>3, <1>4, DoneIs DEF ChannelType, Drops, conn
<1>5. CASE /\ req' = [req EXCEPT ![r] = [state |-> "trying", losses |-> 1]]
           /\ UNCHANGED <<held, conn, pending, current>>
  <2>1. req' \in [Requests -> [state : {"none", "waiting", "trying", "opening",
                                          "sent", "answered", "failed"}, losses : 0 .. 1]]
    BY <1>5 DEF ChannelType
  <2> QED
    BY <1>2, <1>3, <1>5, <2>1 DEF ChannelType, Drops, conn
<1>6. CASE Done(r, "failed") /\ LossOf(c)
  <2>1. Lost \/ UNCHANGED conn
    BY <1>6 DEF LossOf, Dropping
  <2>2. ConnType' /\ Settles
    BY <1>3, <2>1, ConnSteps, ConnSettles DEF Worsens
  <2>3. Drops
    BY <1>6 DEF LossOf, Dropping, Drops
  <2> QED
    BY <1>2, <1>6, <2>2, <2>3, DoneIs DEF ChannelType
<1> QED
  BY <1>4, <1>5, <1>6 DEF Loses

LEMMA RequestStep ==
  ASSUME ConnType, HandolType, NEW r \in Requests, Request(r)
  PROVE  HandolType' /\ ConnType' /\ Settles /\ Drops /\ Links
<1> DEFINE c == Channel(r)
<1>1. c \in Channels
  BY DEF Channel, Channels
<1>2. ChannelType /\ UNCHANGED wire /\ UNCHANGED <<retired, drain, work, sought>>
  BY DEF ChannelType, HandolType, Request
<1>3. Quiet => ConnType' /\ Settles /\ Drops
  BY <1>2, ConnSteps, ConnSettles DEF Worsens, Quiet, Drops, conn
<1>4. UNCHANGED <<link, surface>> => Links
  BY DEF Links
<1>5. LossOf(c) => ConnType' /\ Settles /\ Drops
  <2>1. LossOf(c) => Lost \/ UNCHANGED conn
    BY DEF LossOf, Dropping
  <2>2. LossOf(c) => ConnType' /\ Settles
    BY <1>2, <2>1, ConnSteps, ConnSettles DEF Worsens
  <2>3. LossOf(c) => Drops
    BY DEF LossOf, Dropping, Drops
  <2> QED
    BY <2>2, <2>3
<1> DEFINE Goal == ChannelType' /\ ConnType' /\ Settles /\ Drops /\ Links
<1>6. CASE Takes(r)
  <2>1. ASSUME Done(r, "failed") PROVE Goal
    BY <1>2, <1>3, <1>4, <1>6, <2>1, DoneIs DEF Takes, ChannelType
  <2>2. ASSUME Becomes(r, "trying"), held' = [held EXCEPT ![Channel(r)] = r] PROVE Goal
    <3>1. held' \in [Channels -> Requests \cup {"none"}]
      BY <1>1, <1>2, <2>2 DEF ChannelType
    <3> QED
      BY <1>2, <1>3, <1>4, <1>6, <2>2, <3>1, DoneIs DEF Takes, ChannelType
  <2>3. Goal /\ opened' = opened
    BY <1>6, <2>1, <2>2 DEF Takes
  <2> QED
    BY <1>2, <1>6, <2>3 DEF ChannelType, HandolType, Takes, Drops
<1>7. CASE Opens(r)
  <2>1. CASE ~retired /\ Becomes(r, "trying") /\ link' = [link EXCEPT ![c] = "up"]
             /\ opened' = opened \cup {c} /\ Quiet /\ UNCHANGED <<held, surface>>
    <3>1. link' \in [Channels -> {"none", "up", "gone"}] /\ Links
      BY <1>1, <1>2, <2>1 DEF ChannelType, Links
    <3>2. Goal
      BY <1>2, <1>3, <2>1, <3>1, DoneIs DEF ChannelType
    <3> QED
      BY <1>1, <1>2, <2>1, <3>2 DEF ChannelType, HandolType, Drops
  <2>2. CASE Done(r, "failed") /\ (Quiet \/ LossOf(c)) /\ UNCHANGED <<link, surface, opened>>
    <3>1. Goal
      BY <1>2, <1>3, <1>4, <1>5, <2>2, DoneIs DEF ChannelType
    <3> QED
      BY <1>2, <2>2, <3>1 DEF ChannelType, HandolType, Drops
  <2> QED
    BY <1>7, <2>1, <2>2 DEF Opens
<1>8. CASE Tries(r)
  <2>1. CASE Loses(r)
    <3>1. Goal
      BY <1>2, <2>1, LosesIs
    <3> QED
      BY <1>2, <1>8, <3>1 DEF ChannelType, HandolType, Drops, Tries
  <2>2. CASE ~Loses(r)
    <3>1. Quiet
      <4>1. link[c] \in {"none", "up", "gone"}
        BY <1>1, <1>2 DEF ChannelType
      <4>2. retired \/ link[c] = "none" \/ link[c] = "up" \/ Loses(r)
        BY <1>8, <4>1 DEF Tries
      <4>3. CASE retired \/ link[c] = "none"
        BY <1>8, <2>2, <4>3 DEF Tries
      <4>4. CASE ~retired /\ link[c] = "up"
        BY <1>8, <2>2, <4>4 DEF Tries
      <4> QED
        BY <2>2, <4>2, <4>3, <4>4
    <3>2. CASE (Done(r, "failed") \/ (Becomes(r, "opening") /\ UNCHANGED held)) /\ UNCHANGED <<link, surface>>
      <4>1. Goal
        BY <1>2, <1>3, <1>4, <3>1, <3>2, DoneIs DEF ChannelType
      <4> QED
        BY <1>2, <1>8, <4>1 DEF ChannelType, HandolType, Drops, Tries
    <3>3. CASE /\ Becomes(r, "sent")
               /\ surface' = [surface EXCEPT ![c] = IF @ = "nothing" THEN "asked" ELSE @]
               /\ UNCHANGED <<held, link>>
      <4>1. surface' \in [Channels -> {"nothing", "asked", "stale"}] /\ Links
        BY <1>1, <1>2, <3>3 DEF ChannelType, Links
      <4>2. Goal
        BY <1>2, <1>3, <3>1, <3>3, <4>1, DoneIs DEF ChannelType
      <4> QED
        BY <1>2, <1>8, <4>2 DEF ChannelType, HandolType, Drops, Tries
    <3>4. CASE Drop(c) /\ Done(r, "failed")
      <4>1. Goal
        BY <1>1, <1>2, <1>3, <3>1, <3>4, DoneIs, DropIs DEF ChannelType
      <4> QED
        BY <1>2, <1>8, <4>1 DEF ChannelType, HandolType, Drops, Tries
    <3>5. link[c] \in {"none", "up", "gone"}
      BY <1>1, <1>2 DEF ChannelType
    <3> QED
      BY <1>8, <2>2, <3>2, <3>3, <3>4, <3>5 DEF Tries
  <2> QED
    BY <2>1, <2>2
<1>9. CASE Answers(r) \/ TimesOutOn(r)
  <2>1. Quiet /\ opened' = opened /\ \E s \in {"answered", "failed"} : Done(r, s)
    BY <1>9 DEF Answers, TimesOutOn
  <2>2. Drop(c) \/ (surface' = [surface EXCEPT ![c] = "nothing"] /\ UNCHANGED link)
    BY <1>9 DEF Answers, TimesOutOn
  <2>3. /\ link' \in [Channels -> {"none", "up", "gone"}]
        /\ surface' \in [Channels -> {"nothing", "asked", "stale"}]
        /\ Links
    <3>1. CASE Drop(c)
      BY <1>1, <1>2, <3>1, DropIs
    <3>2. CASE surface' = [surface EXCEPT ![c] = "nothing"] /\ UNCHANGED link
      BY <1>1, <1>2, <3>2 DEF ChannelType, Links
    <3> QED
      BY <2>2, <3>1, <3>2
  <2>4. Goal
    BY <1>2, <1>3, <2>1, <2>3, DoneIs DEF ChannelType
  <2> QED
    BY <1>2, <2>1, <2>4 DEF ChannelType, HandolType, Drops
<1>10. CASE Interrupted(r)
  <2>1. Goal
    BY <1>2, <1>10, LosesIs DEF Interrupted
  <2> QED
    BY <1>2, <1>10, <2>1 DEF ChannelType, HandolType, Drops, Interrupted
<1> QED
  BY <1>6, <1>7, <1>8, <1>9, <1>10 DEF Request

LEMMA CancelsIs ==
  ASSUME ChannelType, NEW rs \in SUBSET Requests, Cancels(rs)
  PROVE  ChannelType' /\ Links
BY DEF ChannelType, Cancels, Busy, Links, Resting

LEMMA RestingIs ==
  ASSUME NEW f \in [Requests -> [state : {"none", "waiting", "trying", "opening", "sent", "answered",
                                          "failed"}, losses : 0 .. 1]], NEW r, NEW s
  PROVE  /\ [f EXCEPT ![r] = Resting] \in [Requests -> [state : {"none", "waiting", "trying", "opening",
                                          "sent", "answered", "failed"}, losses : 0 .. 1]]
         /\ [f EXCEPT ![r] = Resting, ![s] = Resting] \in [Requests -> [state : {"none", "waiting",
                   "trying", "opening", "sent", "answered", "failed"}, losses : 0 .. 1]]
<1>1. Resting \in [state : {"none", "waiting", "trying", "opening", "sent", "answered",
                            "failed"}, losses : 0 .. 1]
  BY DEF Resting
<1> HIDE DEF Resting
<1> QED
  BY <1>1

LEMMA HandolStep ==
  ASSUME BaseType, HandolType, HandolInv, LeftInv, HandolNext
  PROVE  BaseType' /\ HandolType' /\ HandolInv' /\ LeftInv'
<1>1. ConnType /\ ChannelType
  BY DEF ConnType, BaseType, ChannelType, HandolType
<1>2. UNCHANGED <<conn, wire>> => ConnType' /\ Settles
  BY <1>1, ConnSteps, ConnSettles DEF Worsens
<1> DEFINE Seat == /\ at' \in {"idle", "ready", "stopping", "asking", "reading"}
                   /\ closer' \in {"idle", "ready", "stopping", "asking", "tearing", "done"}
                   /\ heard' \in {heard, "current"}
<1>3. Seat /\ ConnType' => BaseType'
  BY DEF BaseType, ConnType
<1>4. heard' \in {heard, "current"} /\ Settles /\ (closer' = closer \/ (closer' = "done" => failure' = "closed" /\ ~reader'))
      => LeftInv'
  BY DEF LeftInv, Settles
\* links, late answers and failures
<1>5. /\ Links /\ retired' = retired => /\ retired' => \A c \in Channels : link'[c] # "up"
                                        /\ \A c \in Channels : surface'[c] # "stale"
      /\ UNCHANGED <<link, surface>> => Links
  BY DEF HandolInv, Links
<1>6. CASE \E r \in Requests : Request(r)
  <2>1. PICK r \in Requests : Request(r)
    BY <1>6
  <2>2. HandolType' /\ ConnType' /\ Settles /\ Drops /\ Links
    BY <1>1, <2>1, RequestStep
  <2>3. UNCHANGED <<ask, retired, sought, at, closer, heard>>
    BY <2>1 DEF Request
  <2>4. HandolInv'
    BY <1>5, <2>2, <2>3 DEF HandolInv, Drops
  <2> QED
    BY <1>3, <1>4, <2>2, <2>3, <2>4 DEF BaseType
<1>7. CASE Drain
  <2>1. UNCHANGED <<ask, conn, wire, at, closer>>
    BY <1>7 DEF Drain
  <2>2. ConnType' /\ Settles /\ failure' = failure
    BY <1>2, <2>1 DEF conn
  <2>3. CASE DrainTakes
    <3>1. req' \in [Requests -> [state : {"none", "waiting", "trying", "opening", "sent", "answered",
                                    "failed"}, losses : 0 .. 1]]
      BY <1>1, <2>3 DEF DrainTakes, ChannelType, Resting
    <3>2. HandolType'
      BY <2>3, <3>1 DEF DrainTakes, HandolType, chans
    <3>3. HandolInv'
      BY <2>1, <2>2, <2>3 DEF DrainTakes, HandolInv, chans
    <3> QED
      BY <1>3, <1>4, <2>1, <2>2, <2>3, <3>2, <3>3 DEF DrainTakes, BaseType
  <2>4. CASE DrainEnds
    <3>1. HandolType' /\ HandolInv'
      BY <2>1, <2>2, <2>4 DEF DrainEnds, HandolType, HandolInv, chans
    <3> QED
      BY <1>3, <1>4, <2>1, <2>2, <2>4, <3>1 DEF DrainEnds, BaseType
  <2>5. CASE JobEnds
    <3>1. req' \in [Requests -> [state : {"none", "waiting", "trying", "opening", "sent", "answered",
                                    "failed"}, losses : 0 .. 1]]
      BY <1>1, <2>5, RestingIs DEF JobEnds, ChannelType
    <3>2. HandolType' /\ HandolInv'
      BY <2>1, <2>2, <2>5, <3>1 DEF JobEnds, HandolType, HandolInv, chans
    \* an answer is delivered while its job is the analysis, which the session has not left
    <3>3. current = work => sought = work
      BY <2>5 DEF JobEnds, HandolInv
    <3>4. heard' \in {heard, "current"}
      BY <2>5, <3>3 DEF JobEnds, Delivered
    <3> QED
      BY <1>3, <1>4, <2>1, <2>2, <3>2, <3>4 DEF BaseType
  <2>6. CASE JobFails
    <3>1. ChannelType' /\ Links
      BY <1>1, <2>6, CancelsIs DEF JobFails, Requests
    <3>2. HandolType' /\ HandolInv'
      BY <1>5, <2>1, <2>2, <2>6, <3>1 DEF JobFails, HandolType, HandolInv, ChannelType
    <3> QED
      BY <1>3, <1>4, <2>1, <2>2, <2>6, <3>2 DEF JobFails, BaseType
  <2> QED
    BY <1>7, <2>3, <2>4, <2>5, <2>6 DEF Drain
<1>8. CASE HandolCall
  <2>1. UNCHANGED <<ask, conn, wire, heard>>
    BY <1>8 DEF HandolCall
  <2>2. ConnType' /\ Settles /\ failure' = failure
    BY <1>2, <2>1 DEF conn
  <2>3. CASE HandolConnects
    <3>1. ~retired
      BY <2>3 DEF HandolConnects, HandolInv
    <3>2. link' \in [Channels -> {"none", "up", "gone"}] /\ opened' \subseteq Channels
      BY <1>1, <2>3 DEF HandolConnects, ChannelType, HandolType, Channels
    <3>3. HandolType'
      BY <2>3, <3>2 DEF HandolConnects, HandolType, jobs
    <3>4. HandolInv'
      BY <2>1, <2>2, <2>3, <3>1 DEF HandolConnects, HandolInv, jobs
    <3> QED
      BY <1>3, <1>4, <2>1, <2>2, <2>3, <3>3, <3>4 DEF HandolConnects, BaseType
  <2>4. CASE Calls
    <3>1. req' \in [Requests -> [state : {"none", "waiting", "trying", "opening", "sent", "answered",
                                    "failed"}, losses : 0 .. 1]]
      BY <1>1, <2>4 DEF Calls, ChannelType, Resting, Requests
    <3>2. \/ pending' = 0 /\ current' = 0 /\ sought' = 0
          \/ failure = "none" /\ \E t \in Tokens : pending' = t /\ current' = t /\ sought' = t
      BY <2>4 DEF Calls, NextToken, Unnamed
    <3>3. drain' \in BOOLEAN /\ closer' = closer /\ UNCHANGED <<chans, held, work, surface>>
          /\ at' \in {"idle", "asking"}
      BY <2>4 DEF Calls, HandolType
    <3>4. HandolType'
      BY <3>1, <3>2, <3>3 DEF HandolType, chans
    <3>5. HandolInv'
      BY <2>1, <2>2, <3>2, <3>3 DEF HandolInv, chans
    <3> QED
      BY <1>3, <1>4, <2>1, <2>2, <3>3, <3>4, <3>5 DEF BaseType
  <2>5. CASE MoveEnds
    <3>1. req' \in [Requests -> [state : {"none", "waiting", "trying", "opening", "sent", "answered",
                                    "failed"}, losses : 0 .. 1]]
      BY <1>1, <2>5, RestingIs DEF MoveEnds, ChannelType
    <3>2. HandolType' /\ HandolInv'
      BY <2>1, <2>2, <2>5, <3>1 DEF MoveEnds, HandolType, HandolInv, chans, jobs
    <3> QED
      BY <1>3, <1>4, <2>1, <2>2, <2>5, <3>2 DEF MoveEnds, BaseType
  <2> QED
    BY <1>8, <2>3, <2>4, <2>5 DEF HandolCall
<1>9. CASE HandolBegin
  <2>1. ConnType' /\ Settles /\ failure' = failure
    BY <1>2, <1>9 DEF HandolBegin, conn
  <2>2. HandolType' /\ HandolInv'
    BY <1>9, <2>1 DEF HandolBegin, HandolType, HandolInv, chans, jobs
  <2> QED
    BY <1>3, <1>4, <1>9, <2>1, <2>2 DEF HandolBegin, BaseType
<1>10. CASE HandolCancelled
  <2>1. ConnType' /\ Settles /\ failure' = failure
    BY <1>2, <1>10 DEF HandolCancelled, conn
  <2>2. ChannelType' /\ Links
    BY <1>1, <1>10, CancelsIs DEF HandolCancelled, Requests
  <2>3. HandolType' /\ HandolInv'
    BY <1>5, <1>10, <2>1, <2>2 DEF HandolCancelled, HandolType, HandolInv, ChannelType, jobs
  <2> QED
    BY <1>3, <1>4, <1>10, <2>1, <2>3 DEF HandolCancelled, BaseType
<1>11. CASE HandolClose
  <2>1. UNCHANGED <<ask, opened, at, heard>>
    BY <1>11 DEF HandolClose
  <2>2. CASE closer = "idle"
    <3>1. ConnType' /\ Settles /\ failure' = failure
      BY <1>1, <1>11, <2>2, ConnSteps, ConnSettles DEF HandolClose, Worsens
    <3>2. ChannelType' /\ Links
      BY <1>1, <1>11, <2>2, CancelsIs DEF HandolClose, Requests
    <3>4. /\ ask # "connect" /\ closer' = "tearing" /\ drain' = FALSE /\ retired' = retired
          /\ pending' = 0 /\ current' = 0 /\ sought' = 0 /\ work' = 0
      BY <1>11, <2>2 DEF HandolClose
    <3>5. HandolType'
      BY <2>1, <3>2, <3>4 DEF HandolType, ChannelType
    <3>3. HandolType' /\ HandolInv'
      BY <1>5, <2>1, <2>2, <3>1, <3>2, <3>4, <3>5 DEF HandolInv
    <3> QED
      BY <1>3, <1>4, <1>11, <2>1, <2>2, <3>1, <3>3 DEF HandolClose, BaseType
  <2>3. CASE closer # "idle"
    <3>1. TornDown /\ closer' = "done" /\ retired'
      BY <1>11, <2>3 DEF HandolClose, Dropping
    <3>2. ConnType' /\ Settles /\ failure' = "closed" /\ ~reader'
      BY <1>1, <3>1, ConnSteps, ConnSettles DEF Worsens
    <3>3. IF failure' # failure THEN pending' = 0 /\ current' = 0 ELSE UNCHANGED <<pending, current>>
      BY <1>11, <2>3 DEF HandolClose, Dropping
    <3>6. /\ link' = [c \in Channels |-> "none"] /\ surface' = [c \in Channels |-> "nothing"]
          /\ UNCHANGED <<held, req, drain, work, sought>>
      BY <1>11, <2>3 DEF HandolClose
    <3>4. HandolType'
      BY <2>1, <3>1, <3>3, <3>6 DEF HandolType
    <3>5. HandolInv'
      BY <1>11, <2>1, <2>3, <3>1, <3>2, <3>3 DEF HandolClose, HandolInv
    <3> QED
      BY <1>3, <1>4, <2>1, <3>1, <3>2, <3>4, <3>5 DEF BaseType
  <2> QED
    BY <2>2, <2>3
<1>12. CASE SurfaceCloses
  <2>1. ConnType' /\ Settles /\ failure' = failure
    BY <1>2, <1>12 DEF SurfaceCloses, conn, baseVars
  <2>2. ChannelType' /\ Links
    BY <1>1, <1>12 DEF SurfaceCloses, ChannelType, Links
  <2>3. HandolType' /\ HandolInv'
    BY <1>5, <1>12, <2>1, <2>2 DEF SurfaceCloses, HandolType, HandolInv, ChannelType, jobs, baseVars
  <2> QED
    BY <1>3, <1>4, <1>12, <2>1, <2>3 DEF SurfaceCloses, BaseType, baseVars
<1>13. CASE Report /\ UNCHANGED handolVars
  <2>1. ConnType' /\ Settles /\ failure' = failure
    BY <1>1, <1>13, ConnSteps, ConnSettles DEF Worsens, Report
  <2>2. HandolType' /\ HandolInv'
    BY <1>13, <2>1 DEF Report, HandolType, HandolInv, handolVars, chans, jobs
  <2> QED
    BY <1>3, <1>4, <1>13, <2>1, <2>2 DEF Report, BaseType
<1> QED
  BY <1>6, <1>7, <1>8, <1>9, <1>10, <1>11, <1>12, <1>13 DEF HandolNext

-----------------------------------------------------------------------------
(* The client of the analysis engine.                                      *)

\* A failure that is kept fails the waiter and drops the analysis.
FailDrops ==
  \/ UNCHANGED <<handlers, live, asked>> /\ failure' = failure
  \/ handlers' = {} /\ live' = 0 /\ waiter' = 0 /\ reply' \in {"failed", reply}

\* What every step does: the analysis is kept, ended, or replaced while none runs; a future is
\* answered with a message that came for it.
Follows ==
  /\ ConnType' /\ Settles
  /\ {waiter', live', wanted'} \subseteq QueryIds \cup {0}
  /\ reply' \in {"waiting", "failed", "answered"}
  /\ handlers' = {live'} \ {0}
  /\ running' \subseteq QueryIds
  /\ queries' \in Seq([id : QueryIds, terminate : BOOLEAN])
  /\ answers' \subseteq [id : QueryIds, kind : {"report", "final", "error"}]
  /\ live' # 0 => live' = wanted' /\ failure' = "none"
  /\ at' \in {"idle", "ready", "stopping", "asking"} \cup {at}
  /\ at' = "stopping" => live' = 0
  /\ closer' = closer \/ closer' \in {"ready", "tearing"}
       \/ (closer' = "done" /\ failure' = "closed" /\ ~reader')
  /\ heard' \in {heard, "current"}
  /\ reply' = "answered" /\ reply # "answered" => [id |-> waiter, kind |-> "final"] \in answers

LEMMA FollowsKeeps ==
  ASSUME BaseType, AnalysisType, AnalysisInv, Follows
  PROVE  /\ BaseType' /\ AnalysisType' /\ AnalysisInv'
         /\ LeftInv => LeftInv'
<1>1. BaseType' /\ AnalysisType'
  BY DEF BaseType, AnalysisType, Follows, ConnType
<1>2. AnalysisInv'
  BY DEF Follows, AnalysisInv
<1>3. LeftInv => LeftInv'
  BY DEF Follows, LeftInv, Settles
<1> QED
  BY <1>1, <1>2, <1>3

LEMMA QueryIs ==
  ASSUME NEW id \in QueryIds, queries \in Seq([id : QueryIds, terminate : BOOLEAN])
  PROVE  /\ Append(queries, Query(id)) \in Seq([id : QueryIds, terminate : BOOLEAN])
         /\ Append(queries, Terminate(id)) \in Seq([id : QueryIds, terminate : BOOLEAN])
<1>1. Query(id) \in [id : QueryIds, terminate : BOOLEAN]
      /\ Terminate(id) \in [id : QueryIds, terminate : BOOLEAN]
  BY DEF Query, Terminate
<1> QED
  BY <1>1, AppendProperties

\* What a failure leaves of the analysis.
LEMMA FailDropsIs ==
  ASSUME AnalysisType, AnalysisInv, FailDrops
  PROVE  /\ {waiter', live'} \subseteq QueryIds \cup {0}
         /\ reply' \in {"waiting", "failed", "answered"}
         /\ handlers' = {live'} \ {0}
         /\ live' # 0 => live' = live /\ live = wanted /\ failure' = "none"
         /\ at = "stopping" => live' = 0
         /\ ~(reply' = "answered" /\ reply # "answered")
BY DEF FailDrops, AnalysisType, AnalysisInv, asked

LEMMA LeaveIs ==
  ASSUME ConnType, AnalysisType, AnalysisInv, Leave
  PROVE  /\ ConnType' /\ Settles
         /\ wanted' = 0 /\ live' = 0 /\ handlers' = {}
         /\ waiter' \in QueryIds \cup {0}
         /\ reply' \in {"waiting", "failed", "answered"}
         /\ ~(reply' = "answered" /\ reply # "answered")
         /\ queries' \in Seq([id : QueryIds, terminate : BOOLEAN])
<1>1. wanted' = 0
  BY DEF Leave
<1>2. CASE live' = 0 /\ handlers' = handlers \ {live} /\ UNCHANGED <<asked, conn, wire>>
  <2>1. ConnType' /\ Settles
    BY <1>2, ConnSteps, ConnSettles DEF Worsens
  <2>2. queries' \in Seq([id : QueryIds, terminate : BOOLEAN])
    <3>1. queries' = queries \/ (live # 0 /\ queries' = Append(queries, Terminate(live)))
      BY <1>2 DEF Leave, CanSend
    <3> QED
      BY <3>1, QueryIs DEF AnalysisType, AnalysisInv
  <2> QED
    BY <1>1, <1>2, <2>1, <2>2 DEF AnalysisType, AnalysisInv, asked
<1>3. CASE live # 0 /\ failure = "none" /\ Failing(SendFails) /\ UNCHANGED queries
  <2>1. Worsens /\ Settles /\ failure' # "none"
    BY <1>3, ConnSteps, ConnSettles DEF Failing
  <2>2. handlers' = {} /\ live' = 0 /\ waiter' = 0 /\ reply' \in {"failed", reply}
    BY <1>3, <2>1 DEF Failing
  <2> QED
    BY <1>1, <1>3, <2>1, <2>2 DEF Worsens, AnalysisType, AnalysisInv
<1> QED
  BY <1>2, <1>3 DEF Leave

LEMMA FallenIs ==
  ASSUME ConnType
  PROVE  /\ Fallen(SendFails) => ConnType' /\ Settles /\ FailDrops
         /\ Fallen(UNCHANGED <<conn, wire>>) => ConnType' /\ Settles /\ FailDrops
         /\ Fallen(Unusable /\ UNCHANGED wire) => ConnType' /\ Settles /\ FailDrops
         /\ Fallen((IF at = "asking" THEN Unusable ELSE UNCHANGED conn) /\ UNCHANGED wire)
              => ConnType' /\ Settles /\ FailDrops
         /\ Failing(SendFails) => ConnType' /\ Settles /\ FailDrops
         /\ Failing(TornDown) => ConnType' /\ Settles /\ FailDrops /\ failure' = "closed" /\ ~reader'
         /\ Failing(Report \/ ReaderEnds) => ConnType' /\ Settles /\ FailDrops
         /\ Failing(Unusable /\ reader' = FALSE /\ UNCHANGED <<sock, peer>>)
              => ConnType' /\ Settles /\ FailDrops
<1>1. /\ SendFails => ConnType' /\ Settles
      /\ TornDown => ConnType' /\ Settles /\ failure' = "closed" /\ ~reader'
      /\ UNCHANGED <<conn, wire>> => ConnType' /\ Settles
      /\ Unusable /\ UNCHANGED wire => ConnType' /\ Settles
      /\ Report \/ ReaderEnds => ConnType' /\ Settles
      /\ Unusable /\ reader' = FALSE /\ UNCHANGED <<sock, peer>> => ConnType' /\ Settles
  BY ConnSteps, ConnSettles DEF Worsens
<1>2. (IF at = "asking" THEN Unusable ELSE UNCHANGED conn) /\ UNCHANGED wire
        => ConnType' /\ Settles
  BY <1>1
<1>3. (reply' = IF waiter # 0 THEN "failed" ELSE reply) => reply' \in {"failed", reply}
  OBVIOUS
<1> QED
  BY <1>1, <1>2, <1>3 DEF Fallen, Failing, FailDrops

LEMMA NextIdIs ==
  ASSUME NEW id \in NextId
  PROVE  id \in QueryIds /\ id # 0
BY QueryIdsAssumption DEF NextId, Unused

LEMMA DispatchIs ==
  ASSUME AnalysisType, AnalysisInv, NEW m \in answers, AnalysisDispatch(m),
         UNCHANGED wanted
  PROVE  /\ waiter' \in QueryIds \cup {0} /\ live' \in {live, 0}
         /\ reply' \in {"waiting", "failed", "answered"}
         /\ handlers' = {live'} \ {0}
         /\ heard' \in {heard, "current"}
         /\ reply' = "answered" /\ reply # "answered" => [id |-> waiter, kind |-> "final"] \in answers
<1>1. m = [id |-> m.id, kind |-> m.kind] /\ m.id \in QueryIds
      /\ m.kind \in {"report", "final", "error"} /\ m.id # 0
  BY QueryIdsAssumption DEF AnalysisInv
<1>2. CASE waiter = m.id
  BY <1>1, <1>2 DEF AnalysisDispatch, AnalysisType, AnalysisInv, asked
<1>3. CASE waiter # m.id /\ m.id \in handlers
  <2>1. live = m.id /\ wanted = m.id /\ handlers = {m.id}
    BY <1>1, <1>3 DEF AnalysisInv
  <2> QED
    BY <1>1, <1>3, <2>1 DEF AnalysisDispatch, AnalysisType, asked
<1>4. CASE waiter # m.id /\ m.id \notin handlers
  BY <1>1, <1>4 DEF AnalysisDispatch, AnalysisType, AnalysisInv, asked
<1> QED
  BY <1>2, <1>3, <1>4

LEMMA AnalysisStep ==
  ASSUME BaseType, AnalysisType, AnalysisInv, AnalysisNext
  PROVE  Follows
<1>1. ConnType
  BY DEF ConnType, BaseType
<1>2. UNCHANGED <<conn, wire>> => ConnType' /\ Settles
  BY <1>1, ConnSteps, ConnSettles DEF Worsens
<1>3. CASE LeavesFirst
  BY <1>1, <1>3, LeaveIs DEF LeavesFirst, Follows, Same, AnalysisType, AnalysisInv
<1>4. CASE StartsAnalysis
  <2>1. CASE CanSend /\ \E id \in NextId : /\ queries' = Append(queries, Query(id))
                                          /\ handlers' = handlers \cup {id}
                                          /\ live' = id
                                          /\ wanted' = id
             /\ UNCHANGED <<asked, conn, wire>>
    <3>1. PICK id \in NextId : /\ queries' = Append(queries, Query(id))
                               /\ handlers' = handlers \cup {id}
                               /\ live' = id
                               /\ wanted' = id
      BY <2>1
    <3>2. id \in QueryIds /\ id # 0
      BY NextIdIs
    <3>3. handlers = {}
      BY <1>4 DEF StartsAnalysis, AnalysisInv
    <3>4. queries' \in Seq([id : QueryIds, terminate : BOOLEAN])
      BY <3>1, <3>2, QueryIs DEF AnalysisInv
    <3>5. ConnType' /\ Settles /\ failure' = "none"
      BY <1>2, <2>1 DEF CanSend, conn
    <3> QED
      BY <1>4, <2>1, <3>1, <3>2, <3>3, <3>4, <3>5
         DEF StartsAnalysis, Follows, Same, AnalysisType, AnalysisInv, asked
  <2>2. CASE Failing(SendFails) /\ UNCHANGED <<wanted, queries>>
    <3>1. ConnType' /\ Settles /\ FailDrops
      BY <1>1, <2>2, FallenIs
    <3> QED
      BY <1>4, <2>2, <3>1, FailDropsIs
         DEF StartsAnalysis, Follows, Same, AnalysisType, AnalysisInv
  <2> QED
    BY <1>4, <2>1, <2>2 DEF StartsAnalysis
<1>5. CASE Asks
  <2>1. CASE /\ CanSend
             /\ \E id \in NextId : queries' = Append(queries, Query(id)) /\ waiter' = id
             /\ reply' = "waiting"
             /\ at' = "asking"
             /\ UNCHANGED <<request, closer, handlers, live, conn, wire>>
    <3>1. PICK id \in NextId : queries' = Append(queries, Query(id)) /\ waiter' = id
      BY <2>1
    <3>2. id \in QueryIds /\ id # 0
      BY NextIdIs
    <3>3. queries' \in Seq([id : QueryIds, terminate : BOOLEAN])
      BY <3>1, <3>2, QueryIs DEF AnalysisInv
    <3>4. ConnType' /\ Settles /\ failure' = failure
      BY <1>2, <2>1 DEF conn
    <3> QED
      BY <1>5, <2>1, <3>1, <3>2, <3>3, <3>4 DEF Asks, Follows, Same, AnalysisType, AnalysisInv
  <2>2. CASE Fallen(SendFails) /\ Ends /\ UNCHANGED queries
    <3>1. ConnType' /\ Settles /\ FailDrops
      BY <1>1, <2>2, FallenIs
    <3> QED
      BY <1>5, <2>2, <3>1, FailDropsIs DEF Asks, Follows, Same, Ends, AnalysisType, AnalysisInv
  <2> QED
    BY <1>5, <2>1, <2>2 DEF Asks
<1>6. CASE RequestEnds
  <2>1. ConnType' /\ Settles /\ FailDrops
    <3>1. CASE reply = "failed"
      BY <1>1, <1>6, <3>1, FallenIs DEF RequestEnds
    <3>2. CASE reply # "failed"
      BY <1>2, <1>6, <3>2 DEF RequestEnds, FailDrops, conn
    <3> QED
      BY <3>1, <3>2
  <2> QED
    BY <1>6, <2>1, FailDropsIs DEF RequestEnds, Follows, Same, Ends, katago, AnalysisType, AnalysisInv
<1>7. CASE RequestTimesOut \/ AnalysisCancelled
  <2>1. ConnType' /\ Settles /\ FailDrops
    BY <1>1, <1>7, FallenIs DEF RequestTimesOut, AnalysisCancelled
  <2> QED
    BY <1>7, <2>1, FailDropsIs
       DEF RequestTimesOut, AnalysisCancelled, Follows, Same, Ends, katago, AnalysisType, AnalysisInv
<1>8. CASE AnalysisBegin
  BY <1>2, <1>8 DEF AnalysisBegin, Follows, asked, analysis, katago, conn, AnalysisType, AnalysisInv
<1>9. CASE AnalysisClose
  <2>1. Same /\ UNCHANGED <<request, running, answers, at>>
    BY <1>9 DEF AnalysisClose
  <2>2. CASE /\ closer' = "ready"
             /\ closing' = TRUE
             /\ UNCHANGED <<asked, analysis, queries, failure, report, wire>>
    <3>1. ConnType' /\ Settles
      BY <1>1, <2>2, ConnSteps, ConnSettles DEF Worsens
    <3> QED
      BY <2>1, <2>2, <3>1 DEF Follows, Same, asked, analysis, AnalysisType, AnalysisInv
  <2>3. CASE closer' = "tearing" /\ Leave
    BY <1>1, <2>1, <2>3, LeaveIs DEF Follows, Same, AnalysisType, AnalysisInv
  <2>4. CASE closer' = "done" /\ Failing(TornDown) /\ UNCHANGED <<wanted, queries>>
    <3>1. ConnType' /\ Settles /\ FailDrops /\ failure' = "closed" /\ ~reader'
      BY <1>1, <2>4, FallenIs
    <3> QED
      BY <2>1, <2>4, <3>1, FailDropsIs DEF Follows, Same, AnalysisType, AnalysisInv
  <2> QED
    BY <1>9, <2>2, <2>3, <2>4 DEF AnalysisClose
<1>10. CASE Reads
  <2>1. PICK m \in answers : answers' = answers \ {m} /\ AnalysisDispatch(m)
    BY <1>10 DEF Reads
  <2>2. UNCHANGED <<request, wanted, queries, running, setting, conn, wire, at, closer>>
    BY <1>10 DEF Reads
  <2>3. /\ waiter' \in QueryIds \cup {0} /\ live' \in {live, 0}
        /\ reply' \in {"waiting", "failed", "answered"}
        /\ handlers' = {live'} \ {0}
        /\ heard' \in {heard, "current"}
        /\ reply' = "answered" /\ reply # "answered" => [id |-> waiter, kind |-> "final"] \in answers
    BY <2>1, <2>2, DispatchIs
  <2> QED
    BY <1>2, <2>1, <2>2, <2>3 DEF Follows, conn, AnalysisType, AnalysisInv
<1>11. CASE NotJson
  <2>1. ConnType' /\ Settles /\ FailDrops
    BY <1>1, <1>11, FallenIs DEF NotJson
  <2> QED
    BY <1>11, <2>1, FailDropsIs DEF NotJson, Follows, Same, katago, AnalysisType, AnalysisInv
<1>12. CASE Tells
  <2>1. ConnType' /\ Settles /\ FailDrops
    BY <1>1, <1>12, FallenIs DEF Tells
  <2>2. UNCHANGED <<at, closer, heard, wanted, queries, running, answers>>
    BY <1>12 DEF Tells, Failing, Report, ReaderEnds, katago
  <2> QED
    BY <2>1, <2>2, FailDropsIs DEF Follows, AnalysisType, AnalysisInv
<1>13. CASE KataGo
  <2>1. UNCHANGED <<waiter, reply, handlers, live, wanted, conn, wire, at, closer, heard>>
    BY <1>13 DEF KataGo, asked, analysis, baseVars
  <2>2. /\ running' \subseteq QueryIds
        /\ queries' \in Seq([id : QueryIds, terminate : BOOLEAN])
        /\ answers' \subseteq [id : QueryIds, kind : {"report", "final", "error"}]
    <3>1. CASE /\ queries # <<>>
               /\ queries' = Tail(queries)
               /\ running' = running \ {Head(queries).id} \/ running' = running \cup {Head(queries).id}
               /\ UNCHANGED answers
      <4>1. Head(queries) \in [id : QueryIds, terminate : BOOLEAN]
            /\ Tail(queries) \in Seq([id : QueryIds, terminate : BOOLEAN])
        BY <3>1, HeadTailProperties DEF AnalysisInv
      <4> QED
        BY <3>1, <4>1 DEF AnalysisType, AnalysisInv
    <3>2. CASE \E id \in running, kind \in {"report", "final", "error"} :
                 /\ answers' = answers \cup {[id |-> id, kind |-> kind]}
                 /\ running' = IF kind = "report" THEN running ELSE running \ {id}
                 /\ UNCHANGED queries
      BY <3>2 DEF AnalysisType, AnalysisInv
    <3>3. CASE /\ \E id \in NextId : answers' = answers \cup {[id |-> id, kind |-> "final"]}
               /\ UNCHANGED <<queries, running>>
      BY <3>3, NextIdIs DEF AnalysisType, AnalysisInv
    <3> QED
      BY <1>13, <3>1, <3>2, <3>3 DEF KataGo
  <2> QED
    BY <1>2, <2>1, <2>2 DEF Follows, conn, AnalysisType, AnalysisInv
<1>14. CASE HangsUp /\ UNCHANGED analysisVars
  <2>1. ConnType' /\ Settles /\ failure' = failure
    BY <1>1, <1>14, ConnSteps, ConnSettles DEF Worsens, HangsUp, conn
  <2> QED
    BY <1>14, <2>1 DEF HangsUp, Follows, analysisVars, asked, analysis, katago, AnalysisType, AnalysisInv
<1> QED
  BY <1>3, <1>4, <1>5, <1>6, <1>7, <1>8, <1>9, <1>10, <1>11, <1>12, <1>13, <1>14
     DEF AnalysisNext, AnalysisCaller

-----------------------------------------------------------------------------
(* The three clients together.                                             *)

\* No step changes the protocol.
LEMMA GtpProtocol == GtpNext => protocol' = protocol
<1>1. ASSUME NEW p \in Callers, GtpCall(p) PROVE protocol' = protocol
  BY <1>1 DEF GtpCall, Stop, StopEnds, Command, Skip, Mismatch, Rejected, TimesOut, Broken, Kept,
              setting
<1>2. StopReturns \/ GoesOn \/ Retries \/ Connected \/ Answered \/ SearchReads \/ Quits \/ Closes
      => protocol' = protocol
  BY DEF StopReturns, GoesOn, Retries, Connected, Answered, SearchReads, Quits, Closes, Kept, setting
<1>3. StreamReads \/ StreamFails \/ Begin \/ Cancelled \/ CloseStarts \/ CloseCutShort \/ Engine
      => protocol' = protocol
  BY DEF StreamReads, StreamFails, Begin, Cancelled, CloseStarts, CloseCutShort, Engine, Kept,
         setting, baseVars
<1>4. Report \/ HangsUp \/ Reading => protocol' = protocol
  BY DEF Report, HangsUp, Reading, ReaderEnds, setting
<1> QED
  BY <1>1, <1>2, <1>3, <1>4 DEF GtpNext, GtpCaller, GtpCloser, GtpTasks, GtpWorld, Callers

LEMMA HandolProtocol == HandolNext => protocol' = protocol
BY DEF HandolNext, HandolCall, Drain, Request, HandolBegin, HandolCancelled, HandolClose,
       SurfaceCloses, Report, setting, baseVars

LEMMA AnalysisProtocol == AnalysisNext => protocol' = protocol
<1>1. AnalysisCaller => protocol' = protocol
  BY DEF AnalysisCaller, LeavesFirst, StartsAnalysis, Asks, RequestEnds, RequestTimesOut, Same,
         setting
<1>2. AnalysisBegin \/ AnalysisCancelled \/ AnalysisClose \/ Reads \/ NotJson \/ KataGo
      => protocol' = protocol
  BY DEF AnalysisBegin, AnalysisCancelled, AnalysisClose, Reads, NotJson, KataGo, Same, setting,
         baseVars
<1>3. Tells \/ HangsUp => protocol' = protocol
  BY DEF Tells, Failing, Report, ReaderEnds, HangsUp, setting
<1> QED
  BY <1>1, <1>2, <1>3 DEF AnalysisNext

LEMMA InitIsRight == Init => ClientsInv
<1> SUFFICES ASSUME Init PROVE ClientsInv
  OBVIOUS
<1>1. BaseType /\ LeftInv
  BY DEF Init, BaseInit, BaseType, LeftInv
<1>2. GtpFields
  <2>1. job \in JobType /\ mirror \in Boards
    BY NoBoardIs DEF Init, GtpInit, JobType, NoJob, Phases
  <2>2. lines \in Seq(LineType) /\ outbox \in Seq(SentType)
    BY EmptySeq DEF Init, GtpInit
  <2> QED
    BY <2>1, <2>2 DEF Init, GtpInit, GtpFields
<1>3. HandolType /\ HandolInv
  <2>1. Resting \in [state : {"none", "waiting", "trying", "opening", "sent", "answered",
                             "failed"}, losses : 0 .. 1]
    BY DEF Resting
  <2>2. req \in [Requests -> [state : {"none", "waiting", "trying", "opening", "sent", "answered",
                                      "failed"}, losses : 0 .. 1]]
    BY <2>1 DEF Init, HandolInit
  <2>3. HandolType
    BY <2>2 DEF Init, HandolInit, HandolType
  <2> QED
    BY <2>3 DEF Init, HandolInit, BaseInit, HandolInv
<1>4. AnalysisType /\ AnalysisInv
  <2>1. queries \in Seq([id : QueryIds, terminate : BOOLEAN])
    BY EmptySeq DEF Init, AnalysisInit
  <2> QED
    BY <2>1 DEF Init, AnalysisInit, BaseInit, AnalysisType, AnalysisInv
<1>5. AtRest
  BY DEF Init, GtpInit, HandolInit, AnalysisInit, AtRest, Channels
<1>6. GtpInv
  <2>1. LocksInv
    BY DEF Init, GtpInit, BaseInit, LocksInv, At, Callers
  <2>2. JobInv
    BY DEF Init, GtpInit, BaseInit, JobInv, NoJob, Positioned
  <2>3. WireInv
    <3>1. Len(outbox) = 0 /\ Len(lines) = 0 /\ mirror.key = NoKey
      BY EmptySeq, NoBoardIs DEF Init, GtpInit
    <3>2. Unasked
      BY <3>1 DEF Init, GtpInit, Unasked, TrueBoard
    <3> QED
      BY <3>2 DEF Init, GtpInit, BaseInit, WireInv, At, Callers
  <2> QED
    BY <2>1, <2>2, <2>3 DEF GtpInv
<1> QED
  BY <1>1, <1>2, <1>3, <1>4, <1>5, <1>6 DEF ClientsInv

LEMMA StepKeepsRight == ClientsInv /\ [Next]_vars => ClientsInv'
<1> SUFFICES ASSUME ClientsInv, [Next]_vars PROVE ClientsInv'
  OBVIOUS
<1>1. ConnType /\ SeatType
  BY DEF ClientsInv, BaseType, ConnType, SeatType
<1>2. CASE protocol = "gtp" /\ GtpNext /\ UNCHANGED <<handolVars, analysisVars>>
  <2>1. protocol' = "gtp"
    BY <1>2, GtpProtocol
  <2>2. Worsens /\ Books' /\ GtpInv'
    BY <1>1, <1>2, GtpStep DEF ClientsInv
  <2>3. LeftInv' /\ heard' \in {heard, "current"}
    BY <1>2, GtpLeft DEF ClientsInv, GtpInv
  <2>4. BaseType' /\ GtpFields'
    BY <2>2, <2>3 DEF Worsens, ConnType, Books, SeatType, BaseType, ClientsInv
  <2>5. HandolType' /\ AnalysisType'
    BY <1>2 DEF ClientsInv, handolVars, chans, jobs, analysisVars, asked, analysis, katago,
                HandolType, AnalysisType
  <2>6. AtRest'
    BY <1>2, <2>1 DEF ClientsInv, handolVars, chans, jobs, analysisVars, analysis, AtRest
  <2> QED
    BY <2>1, <2>2, <2>3, <2>4, <2>5, <2>6 DEF ClientsInv
<1>3. CASE protocol = "handol" /\ HandolNext /\ UNCHANGED <<gtpVars, analysisVars>>
  <2>1. protocol' = "handol"
    BY <1>3, HandolProtocol
  <2>2. BaseType' /\ HandolType' /\ HandolInv' /\ LeftInv'
    BY <1>3, HandolStep DEF ClientsInv
  <2>3. GtpFields' /\ AnalysisType'
    BY <1>3 DEF ClientsInv, gtpVars, analysisVars, asked, analysis, katago, GtpFields, AnalysisType
  <2>4. AtRest'
    BY <1>3, <2>1 DEF ClientsInv, gtpVars, analysisVars, analysis, AtRest
  <2> QED
    BY <2>1, <2>2, <2>3, <2>4 DEF ClientsInv
<1>4. CASE protocol = "analysis" /\ AnalysisNext /\ UNCHANGED <<gtpVars, handolVars>>
  <2>1. protocol' = "analysis"
    BY <1>4, AnalysisProtocol
  <2>2. Follows
    BY <1>4, AnalysisStep DEF ClientsInv
  <2>3. BaseType' /\ AnalysisType' /\ AnalysisInv' /\ LeftInv'
    BY <1>4, <2>2, FollowsKeeps DEF ClientsInv
  <2>4. GtpFields' /\ HandolType'
    BY <1>4 DEF ClientsInv, gtpVars, handolVars, chans, jobs, GtpFields, HandolType
  <2>5. AtRest'
    BY <1>4, <2>1 DEF ClientsInv, gtpVars, handolVars, chans, jobs, AtRest
  <2> QED
    BY <2>1, <2>3, <2>4, <2>5 DEF ClientsInv
<1>5. CASE UNCHANGED vars
  <2>1. UNCHANGED <<baseVars, gtpVars, handolVars, analysisVars>>
    BY <1>5 DEF vars
  <2>2. /\ UNCHANGED <<protocol, failure, closing, report, sock, peer, reader, at, closer, heard>>
        /\ UNCHANGED <<skills, mirror, job, lock, stopLock, stream, slot, lines, outbox, board,
                       engine, strayed>>
        /\ UNCHANGED <<ask, link, opened, retired, held, req, pending, current, drain, work,
                       sought, surface>>
        /\ UNCHANGED <<request, waiter, reply, handlers, live, wanted, queries, running, answers>>
    BY <2>1 DEF baseVars, setting, conn, wire, gtpVars, handolVars, chans, jobs, analysisVars,
                asked, analysis, katago
  <2>3. BaseType' /\ GtpFields' /\ HandolType' /\ AnalysisType' /\ AtRest' /\ LeftInv'
    BY <2>2 DEF ClientsInv, BaseType, GtpFields, HandolType, AnalysisType, AtRest, LeftInv
  <2>4. (HandolInv => HandolInv') /\ (AnalysisInv => AnalysisInv')
    BY <2>2 DEF HandolInv, AnalysisInv
  <2>5. protocol = "gtp" => GtpInv'
    <3>1. ASSUME protocol = "gtp" PROVE GtpInv'
      <4>1. Books /\ WireInv
        BY <1>1, <3>1 DEF ClientsInv, GtpInv, Books
      <4>2. LocksInv'
        BY <2>2, <4>1 DEF Books, LocksInv, At
      <4>3. NextCommand("caller")' = NextCommand("caller")
        BY <2>2, SameCommand DEF Callers
      <4>4. JobInv'
        BY <2>2, <4>1, <4>3 DEF Books, JobInv
      <4>5. WireInv'
        BY <2>2, <4>1, <4>2, WireQuiet DEF theirs
      <4> QED
        BY <4>2, <4>4, <4>5 DEF GtpInv
    <3> QED
      BY <3>1
  <2> QED
    BY <2>2, <2>3, <2>4, <2>5 DEF ClientsInv
<1> QED
  BY <1>2, <1>3, <1>4, <1>5 DEF Next

THEOREM ClientsRight == Spec => []ClientsInv
BY InitIsRight, StepKeepsRight, PTL DEF Spec

-----------------------------------------------------------------------------
(* What the session may rely on.                                           *)

\* Types of the three clients: whatever the engine sends and whenever the session calls, closes
\* or cancels, the bookkeeping of EngineClient (base.py), GtpClient, HandolClient and
\* AnalysisClient keeps its types: a recorded move is a vertex, a job has a name, a query an id.
THEOREM TypesHold == Spec => []TypeOK
<1>1. ClientsInv => TypeOK
  BY DEF ClientsInv, TypeOK, GtpFields, GtpType, Boards
<1> QED
  BY <1>1, ClientsRight, PTL

\* While the GTP client trusts its mirror of the engine's board and has no command in flight, the
\* engine's board is the mirror; and a move, an analysis or a score is asked for when the engine's
\* board is the position of the call.  sync, _reset, _played and raw of gtp.py keep it so whatever
\* fails, is undone, rejected, cancelled or typed into the console between.
THEOREM MirrorTrue == Spec => []MirrorIsTrue
<1>1. ASSUME ClientsInv PROVE MirrorIsTrue
  <2>1. CASE protocol = "gtp"
    <3>1. JobInv /\ WireInv /\ LocksInv /\ GtpFields
      BY <1>1, <2>1 DEF ClientsInv, GtpInv
    <3>2. ASSUME failure = "none", ~strayed, mirror.key # NoKey, lock = "none" PROVE board = mirror
      BY <3>1, <3>2 DEF WireInv, Unasked, TrueBoard
    <3>3. ASSUME ~strayed, at = "asking", job.phase = "main", outbox # <<>>,
                 job.op \in {"genmove", "genmove_analyze", "start", "final_score"}
          PROVE  board = job.pos
      <4>1. TrueBoard
        BY <3>1, <3>3 DEF WireInv, Callers, At, InOutbox, InLines
      <4>2. mirror = job.pos /\ job.pos.key \in Keys
        BY <3>1, <3>3 DEF JobInv, Positioned, NoJob
      <4>3. mirror.key # NoKey
        BY <4>2, KeysAssumption
      <4> QED
        BY <3>3, <4>1, <4>2, <4>3 DEF TrueBoard
    <3> QED
      BY <3>2, <3>3 DEF MirrorIsTrue
  <2>2. CASE protocol # "gtp"
    BY <1>1, <2>2, NoBoardIs DEF ClientsInv, AtRest, MirrorIsTrue
  <2> QED
    BY <2>1, <2>2
<1> QED
  BY <1>1, ClientsRight, PTL

\* What was left stays left: no report reaches the session of an analysis that stop_analysis ended
\* or another call replaced (_read_stream of gtp.py, _drain of handol.py, _dispatch of analysis.py),
\* and a client that is closed or aborted has let go of its reader, channels, handlers and jobs.
THEOREM LeavingFinal == Spec => []LeavingIsFinal
<1>1. ASSUME ClientsInv PROVE LeavingIsFinal
  <2>1. heard # "left" /\ (closer = "done" => failure = "closed" /\ ~reader)
    BY <1>1 DEF ClientsInv, LeftInv
  <2>2. ASSUME closer = "done" PROVE pending = 0 /\ \A c \in Channels : link[c] # "up"
    BY <1>1, <2>1, <2>2 DEF ClientsInv, AtRest, HandolInv
  <2>3. ASSUME closer = "done" PROVE handlers = {} /\ live = 0
    BY <1>1, <2>1, <2>3 DEF ClientsInv, AtRest, AnalysisInv
  <2> QED
    BY <2>1, <2>2, <2>3 DEF LeavingIsFinal
<1> QED
  BY <1>1, ClientsRight, PTL

\* What a call is given was answered to it.  GTP (_command, _head): no reply to a command that was
\* given up is left for the next one, and no stream task reads beside a command.  handol
\* (_Channel.request): nothing late is on the connection a request is sent on.  Analysis
\* (_dispatch): a future is answered with the message that has its id.
THEOREM AnswersOwn == Spec => AnswersAreOwn
<1>1. ASSUME ClientsInv PROVE OwnReply /\ OneReader
  <2>1. CASE protocol = "gtp"
    <3>1. WireInv /\ LocksInv /\ GtpFields
      BY <1>1, <2>1 DEF ClientsInv, GtpInv
    <3>2. OneReader
      BY <3>1 DEF OneReader, Asking, LocksInv, At, Callers
    <3>3. ASSUME NEW p \in Callers, Asking(p), NEW i \in DOMAIN lines, lines[i].kind = "reply"
          PROVE  lines[i].fresh
      <4>1. i \in 1 .. Len(lines) /\ Len(lines) \in Nat
        BY <3>1, LenProperties DEF GtpFields
      <4>2. CASE InOutbox(NextCommand(p))
        BY <3>3, <4>1, <4>2 DEF InOutbox
      <4>3. CASE InLines(NextCommand(p))
        <5>1. PICK r \in 1 .. Len(lines) :
                /\ lines[r].fresh
                /\ \A j \in 1 .. r - 1 : lines[j].kind \in {"report", "end"}
                /\ \/ SearchAfter(r)
                   \/ \A j \in r + 1 .. Len(lines) : lines[j].kind \in {"report", "end"}
          BY <4>3 DEF InLines
        <5>2. i > r /\ SearchAfter(r) => lines[i].kind \in {"report", "move"}
          BY <3>1, <4>1, <5>1 DEF SearchAfter, GtpFields
        <5>3. i = r
          BY <3>3, <4>1, <5>1, <5>2
        <5> QED
          BY <5>1, <5>3
      <4> QED
        BY <3>1, <3>3, <4>2, <4>3 DEF WireInv, Asking
    <3> QED
      BY <3>2, <3>3 DEF OwnReply
  <2>2. CASE protocol # "gtp"
    <3>1. lines = <<>> /\ stream = "none"
      BY <1>1, <2>2 DEF ClientsInv, AtRest
    <3> QED
      BY <3>1 DEF OwnReply, OneReader
  <2> QED
    BY <2>1, <2>2
<1>2. ASSUME ClientsInv PROVE \A r \in Requests : State(r) = "sent" => surface[Channel(r)] # "stale"
  <2>1. \A c \in Channels : surface[c] # "stale"
    BY <1>2 DEF ClientsInv, AtRest, HandolInv
  <2> QED
    BY <2>1 DEF Channel, Channels
<1>3. ASSUME ClientsInv, [Next]_vars
      PROVE  [reply' = "answered" /\ reply # "answered" =>
                [id |-> waiter, kind |-> "final"] \in answers]_vars
  <2>1. CASE protocol = "analysis" /\ AnalysisNext
    BY <1>3, <2>1, AnalysisStep DEF ClientsInv, Follows
  <2>2. CASE UNCHANGED analysisVars
    BY <2>2 DEF analysisVars, asked
  <2> QED
    BY <1>3, <2>1, <2>2 DEF Next
<1> QED
  BY <1>1, <1>2, <1>3, ClientsRight, PTL DEF AnswersAreOwn, Spec
=============================================================================
