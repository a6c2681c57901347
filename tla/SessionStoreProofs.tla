------------------------- MODULE SessionStoreProofs -------------------------
(* Proofs about the session store, for any number of sessions and clients    *)
(* and any conversations, users and messages: types, bindings that lead to   *)
(* sessions that exist, one binding of a session at most, parents that are   *)
(* there, and messages, bindings and compacted ranges that stand once every  *)
(* client at work has seen them. The other parts are about the other stores  *)
(* that calls read and write in turns. Scheduled jobs: a job of a running    *)
(* service has the fingerprint of what it does. And the memory: a text that  *)
(* is saved is kept, and shown within the budget.                            *)
EXTENDS SessionRequirements, Automation, Memory, FiniteSetTheorems, WellFoundedInduction, TLAPS

LiveRows == [exists : {TRUE}, conv : Convs, user : Owners, parent : 0..NumSessions,
             ctx : 0..MaxRange]

ClientPlaces == {"idle", "turn", "row", "loaded", "new", "bind", "newer"}

\* A client in the middle of a call has a session, handed out when it has a
\* record of it, and the record names an older parent.
Holds(a, j, r, n) ==
    /\ a # "idle" => j.session \in Sessions
    /\ a # "idle" => j.session \in 1..n
    /\ a = "turn" => j.kind = "catalog"
    /\ a \in {"row", "loaded", "new", "bind"} => r.exists /\ r.parent < j.session
    /\ j.kind = "append" => j.message \in Messages

Records == \A c \in Clients : Holds(at[c], job[c], rec[c], created)

\* Ids are handed out in order.
Handed == \A s \in Sessions : Exists(s) => s <= created

Structure == BoundSessionExists /\ OneBindingPerSession /\ ParentExists /\ Handed

IInv == TypeOK /\ Records /\ Structure

-----------------------------------------------------------------------------
\* The empty row and the empty job.
LEMMA NoThings ==
    /\ NoRow \in Rows
    /\ NoRow.parent = 0
    /\ ~NoRow.exists
    /\ NoJob \in Jobs
    /\ NoJob.kind = "none"
    /\ <<>> \in Seq(Messages)
BY SomeSessions, RangeIsBounded DEF NoRow, Rows, NoJob, Jobs, Owners

\* A row that exists is a full record.
LEMMA LiveRow ==
    ASSUME NEW r \in Rows, r.exists
    PROVE  r \in LiveRows
BY NoThings DEF Rows, LiveRows

LEMMA LiveParent ==
    ASSUME NEW r \in LiveRows
    PROVE  r.parent \in Nat /\ r.parent \in 0..NumSessions /\ r.exists
<1>1. r.parent \in 0..NumSessions
  BY DEF LiveRows
<1>2. r.exists = TRUE
  BY DEF LiveRows
<1>3. r.exists
  BY <1>2
<1> QED
  BY <1>1, <1>3, SomeSessions

\* The record stays one, with its parent, when a mutator changes it.
LEMMA RowEdits ==
    ASSUME NEW r \in LiveRows,
           NEW conv \in Convs, NEW user \in Owners, NEW range \in 0..MaxRange
    PROVE  /\ [r EXCEPT !.conv = conv, !.user = user] \in LiveRows
           /\ [r EXCEPT !.user = user] \in LiveRows
           /\ [r EXCEPT !.ctx = range] \in LiveRows
           /\ [r EXCEPT !.conv = conv, !.user = user].parent = r.parent
           /\ [r EXCEPT !.user = user].parent = r.parent
           /\ [r EXCEPT !.ctx = range].parent = r.parent
           /\ r \in Rows
BY DEF LiveRows, Rows

\* A step of one client keeps what is known of every client's record.
LEMMA RecordsKept ==
    ASSUME Records, created \in Nat, created' \in Nat, created <= created',
           NEW c \in Clients,
           \A d \in Clients : d # c => at'[d] = at[d] /\ job'[d] = job[d] /\ rec'[d] = rec[d],
           Holds(at'[c], job'[c], rec'[c], created')
    PROVE  Records'
<1> SUFFICES ASSUME NEW d \in Clients, d # c
             PROVE  Holds(at[d], job[d], rec[d], created')
  BY DEF Records
<1>1. Holds(at[d], job[d], rec[d], created)
  BY DEF Records
<1> QED
  BY <1>1 DEF Holds

\* What a step that leaves rows and bindings keeps.
LEMMA StructureKept ==
    ASSUME TypeOK, Structure, UNCHANGED <<row, bind>>, created' \in Nat, created <= created'
    PROVE  Structure'
<1>1. Handed'
  BY DEF Structure, Handed, Exists, TypeOK, Sessions
<1> QED
  BY <1>1 DEF Structure, BoundSessionExists, OneBindingPerSession, ParentExists, Exists

-----------------------------------------------------------------------------
\* The client is idle again.
LEMMA DoneStep ==
    ASSUME TypeOK, Records, NEW c \in Clients, Done(c), created' = created
    PROVE  /\ at' \in [Clients -> ClientPlaces]
           /\ job' \in [Clients -> Jobs]
           /\ rec' \in [Clients -> Rows]
           /\ log' \in [Clients -> Seq(Messages)]
           /\ Records'
<1>1. /\ at' \in [Clients -> ClientPlaces]
      /\ job' \in [Clients -> Jobs]
      /\ rec' \in [Clients -> Rows]
      /\ log' \in [Clients -> Seq(Messages)]
  BY NoThings DEF Done, Go, TypeOK, ClientPlaces
<1>2. Holds(at'[c], job'[c], rec'[c], created')
  BY NoThings DEF Done, Go, TypeOK, Holds
<1>3. \A d \in Clients : d # c => at'[d] = at[d] /\ job'[d] = job[d] /\ rec'[d] = rec[d]
  BY DEF Done, Go, TypeOK
<1> QED
  BY <1>1, <1>2, <1>3, RecordsKept DEF TypeOK

\* A job for a session, with the message, the user or the range of a call.
LEMMA JobTypes ==
    ASSUME NEW s \in Sessions, NEW kind \in Kinds \cup {"create"}
    PROVE  /\ Job(kind, s) \in Jobs
           /\ Job(kind, s).session = s
           /\ Job(kind, s).kind = kind
<1>1. /\ [NoJob EXCEPT !.kind = kind] \in Jobs
      /\ [NoJob EXCEPT !.kind = kind].kind = kind
  BY NoThings DEF Jobs
<1>2. s \in 0..NumSessions
  BY SomeSessions DEF Sessions
<1>3. [[NoJob EXCEPT !.kind = kind] EXCEPT !.session = s] \in Jobs
  BY <1>1, <1>2 DEF Jobs
<1>4. Job(kind, s) = [[NoJob EXCEPT !.kind = kind] EXCEPT !.session = s]
  BY DEF Job
<1>5. /\ Job(kind, s).session = s
      /\ Job(kind, s).kind = kind
  BY <1>1, <1>4 DEF Jobs
<1> QED
  BY <1>3, <1>4, <1>5

LEMMA JobEdits ==
    ASSUME NEW j \in Jobs
    PROVE  /\ \A m \in Messages : /\ [j EXCEPT !.message = m] \in Jobs
                                  /\ [j EXCEPT !.message = m].session = j.session
                                  /\ [j EXCEPT !.message = m].kind = j.kind
                                  /\ [j EXCEPT !.message = m].message = m
           /\ \A user \in Owners : /\ [j EXCEPT !.user = user] \in Jobs
                                   /\ [j EXCEPT !.user = user].session = j.session
                                   /\ [j EXCEPT !.user = user].kind = j.kind
           /\ \A range \in 1..MaxRange : /\ [j EXCEPT !.range = range] \in Jobs
                                         /\ [j EXCEPT !.range = range].session = j.session
                                         /\ [j EXCEPT !.range = range].kind = j.kind
BY RangeIsBounded DEF Jobs

-----------------------------------------------------------------------------
\* A step of one client that leaves the tables alone keeps the invariant, if
\* the client's own variables are right.
LEMMA QuietStep ==
    ASSUME IInv, NEW c \in Clients,
           UNCHANGED <<row, msgs, bind, saved>>,
           created' \in 0..NumSessions, created <= created',
           at' \in [Clients -> ClientPlaces], job' \in [Clients -> Jobs],
           rec' \in [Clients -> Rows], log' \in [Clients -> Seq(Messages)],
           \A d \in Clients : d # c => at'[d] = at[d] /\ job'[d] = job[d] /\ rec'[d] = rec[d],
           Holds(at'[c], job'[c], rec'[c], created')
    PROVE  IInv'
<1>0. created \in Nat /\ created' \in Nat
  BY SomeSessions DEF IInv, TypeOK
<1>1. TypeOK'
  BY DEF IInv, TypeOK, ClientPlaces
<1>2. Records'
  BY <1>0, RecordsKept DEF IInv
<1>3. Structure'
  BY <1>0, StructureKept DEF IInv
<1> QED
  BY <1>1, <1>2, <1>3 DEF IInv

\* get finds a row: the record is the row, and its parent is older.
LEMMA ReadRowStep ==
    ASSUME IInv, NEW c \in Clients, NEW j \in Jobs, j.session \in Sessions,
           ReadRow(c, j), Go(c, "row"), j.kind = "append" => j.message \in Messages,
           UNCHANGED <<storeVars, log, saved>>
    PROVE  IInv'
<1>1. /\ j.session \in 1..created
      /\ row[j.session].exists
      /\ row[j.session] \in Rows
      /\ row[j.session].parent < j.session
  <2>1. row[j.session] \in LiveRows
    BY LiveRow DEF IInv, TypeOK, ReadRow, Exists
  <2>2. row[j.session].parent # 0 => row[j.session].parent < j.session
    BY DEF IInv, Structure, ParentExists
  <2>3. j.session <= created
    BY DEF IInv, Structure, Handed, ReadRow
  <2>4. row[j.session].exists /\ row[j.session] \in Rows
    BY DEF ReadRow, Exists, IInv, TypeOK
  <2>5. row[j.session].parent \in Nat
    BY <2>1, LiveParent
  <2>6. j.session \in Nat /\ j.session >= 1 /\ created \in Nat
    BY SomeSessions DEF Sessions, IInv, TypeOK
  <2> QED
    BY <2>2, <2>3, <2>4, <2>5, <2>6
<1>2. /\ at' \in [Clients -> ClientPlaces]
      /\ job' \in [Clients -> Jobs]
      /\ rec' \in [Clients -> Rows]
      /\ log' \in [Clients -> Seq(Messages)]
  BY <1>1 DEF IInv, TypeOK, ClientPlaces, ReadRow, Go
<1>3. at'[c] = "row" /\ job'[c] = j /\ rec'[c] = row[j.session]
  BY DEF IInv, TypeOK, ReadRow, Go
<1>4. Holds(at'[c], job'[c], rec'[c], created')
  BY <1>1, <1>3 DEF Holds, storeVars
<1>5. \A d \in Clients : d # c => at'[d] = at[d] /\ job'[d] = job[d] /\ rec'[d] = rec[d]
  BY DEF IInv, TypeOK, ReadRow, Go
<1>6. UNCHANGED <<row, msgs, bind, saved>> /\ created' = created
  BY DEF storeVars
<1>7. created' \in 0..NumSessions /\ created <= created'
  BY <1>6, SomeSessions DEF IInv, TypeOK
<1> QED
  BY <1>2, <1>4, <1>5, <1>6, <1>7, QuietStep

LEMMA BeginStep ==
    ASSUME IInv, NEW c \in Clients, Begin(c)
    PROVE  IInv'
<1> PICK s \in Sessions :
        \/ \E m \in Messages : BeginAppend(c, s, m) \/ BeginWithdraw(c, s, m)
        \/ BeginTouch(c, s)
        \/ \E range \in 1..MaxRange : BeginCompact(c, s, range)
  BY DEF Begin
<1> USE DEF Begin
<1>1. ASSUME NEW m \in Messages, BeginAppend(c, s, m)
      PROVE  IInv'
  <2>0. "append" \in Kinds
    <3>1. ([Job("append", s) EXCEPT !.message = m]).kind = "append"
      BY DEF Job, NoJob
    <3> QED
      BY <1>1, <3>1 DEF BeginAppend, ReadRow
  <2> DEFINE j == [Job("append", s) EXCEPT !.message = m]
  <2>1. Job("append", s) \in Jobs /\ Job("append", s).session = s
    BY <2>0, JobTypes
  <2>2. j \in Jobs /\ j.session = s /\ j.message = m
    BY <2>0, <2>1, JobTypes, JobEdits
  <2>3. ReadRow(c, j) /\ Go(c, "row") /\ UNCHANGED <<storeVars, log, saved>>
    BY <1>1 DEF BeginAppend
  <2> HIDE DEF j
  <2> QED
    BY <2>2, <2>3, ReadRowStep
<1>2. ASSUME NEW m \in Messages, BeginWithdraw(c, s, m)
      PROVE  IInv'
  <2>0. "withdraw" \in Kinds
    <3>1. ([Job("withdraw", s) EXCEPT !.message = m]).kind = "withdraw"
      BY DEF Job, NoJob
    <3> QED
      BY <1>2, <3>1 DEF BeginWithdraw, ReadRow
  <2> DEFINE j == [Job("withdraw", s) EXCEPT !.message = m]
  <2>1. Job("withdraw", s) \in Jobs /\ Job("withdraw", s).session = s
    BY <2>0, JobTypes
  <2>2. j \in Jobs /\ j.session = s /\ j.message = m
    BY <2>0, <2>1, JobTypes, JobEdits
  <2>3. ReadRow(c, j) /\ Go(c, "row") /\ UNCHANGED <<storeVars, log, saved>>
    BY <1>2 DEF BeginWithdraw
  <2> HIDE DEF j
  <2> QED
    BY <2>2, <2>3, ReadRowStep
<1>3. CASE BeginTouch(c, s)
  <2>0. "touch" \in Kinds
    BY <1>3 DEF BeginTouch, ReadRow, Job, NoJob
  <2> QED
    BY <1>3, <2>0, JobTypes, ReadRowStep DEF BeginTouch
<1>4. ASSUME NEW range \in 1..MaxRange, BeginCompact(c, s, range)
      PROVE  IInv'
  <2>0. "compact" \in Kinds
    <3>1. ([Job("compact", s) EXCEPT !.range = range]).kind = "compact"
      BY DEF Job, NoJob
    <3> QED
      BY <1>4, <3>1 DEF BeginCompact, ReadRow
  <2> DEFINE j == [Job("compact", s) EXCEPT !.range = range]
  <2>1. Job("compact", s) \in Jobs /\ Job("compact", s).session = s
    BY <2>0, JobTypes
  <2>2. j \in Jobs /\ j.session = s /\ j.kind = "compact"
    BY <2>0, <2>1, JobTypes, JobEdits
  <2>3. ReadRow(c, j) /\ Go(c, "row") /\ UNCHANGED <<storeVars, log, saved>>
    BY <1>4 DEF BeginCompact
  <2> HIDE DEF j
  <2> QED
    BY <2>2, <2>3, ReadRowStep
<1> QED
  BY <1>1, <1>2, <1>3, <1>4

\* Sessions that there are have a newest.
LEMMA Newest ==
    ASSUME NEW of \in SUBSET Sessions, of # {}
    PROVE  \E s \in of : \A t \in of : t <= s
<1> DEFINE less == {p \in Nat \X Nat : p[1] < p[2]}
           left == {NumSessions - s : s \in of}
<1>1. IsWellFoundedOn(less, Nat)
  <2>1. less = OpToRel(<, Nat)
    BY DEF OpToRel
  <2> QED
    BY <2>1, NatLessThanWellFounded
<1>2. left \subseteq Nat /\ left # {}
  <2>1. \A s \in of : NumSessions - s \in Nat
    BY SomeSessions DEF Sessions
  <2> QED
    BY <2>1
<1> HIDE DEF less
<1>3. PICK x \in left : \A y \in left : ~(<<y, x>> \in less)
  BY <1>1, <1>2, WFMin, Zenon
<1>4. PICK s \in of : x = NumSessions - s
  OBVIOUS
<1>5. ASSUME NEW t \in of
      PROVE  t <= s
  <2>1. NumSessions - t \in left /\ NumSessions - t \in Nat /\ x \in Nat
    BY <1>2
  <2>2. ~(NumSessions - t < x)
    BY <1>3, <2>1 DEF less
  <2>3. s \in Nat /\ t \in Nat /\ NumSessions \in Nat
    BY SomeSessions DEF Sessions
  <2> QED
    BY <1>4, <2>2, <2>3
<1> QED
  BY <1>5

\* The session that a turn resolves exists.
LEMMA ResolvedExists ==
    ASSUME TypeOK, Structure, NEW conv \in Convs, NEW user \in Owners, NEW s \in Sessions,
           Resolved(conv, user) = s
    PROVE  Exists(s)
<1> DEFINE open == bind[<<conv, NoUser>>]
           mine == IF user = NoUser THEN 0 ELSE bind[<<conv, user>>]
<1>0. s # 0 /\ NoUser \in Owners
  BY SomeSessions DEF Sessions, Owners
<1>1. CASE mine # 0
  BY <1>1 DEF Resolved, Structure, BoundSessionExists, Keys
<1>2. CASE mine = 0 /\ open # 0 /\ Anonymous(open)
  BY <1>0, <1>2 DEF Resolved, Structure, BoundSessionExists, Keys
<1>3. CASE mine = 0 /\ ~(open # 0 /\ Anonymous(open))
  <2>1. s = NewestOf(conv)
    BY <1>3, <1>0 DEF Resolved
  <2> DEFINE of == {t \in Sessions : Exists(t) /\ row[t].conv = conv /\ Anonymous(t)}
  <2>2. of # {} /\ s = CHOOSE x \in of : \A t \in of : t <= x
    BY <2>1, <1>0 DEF NewestOf
  <2>3. s \in of
    <3>1. of \in SUBSET Sessions
      OBVIOUS
    <3> HIDE DEF of
    <3> QED
      BY <2>2, <3>1, Newest
  <2> QED
    BY <2>3
<1> QED
  BY <1>1, <1>2, <1>3

LEMMA BeginTurnStep ==
    ASSUME IInv, NEW c \in Clients, NEW s \in Sessions, NEW conv \in Convs, NEW user \in Owners,
           BeginTurn(c, s, conv, user)
    PROVE  IInv'
<1> DEFINE j == [Job("catalog", s) EXCEPT !.user = user]
<1>1. j \in Jobs /\ j.session = s /\ j.kind = "catalog"
  BY JobTypes, JobEdits DEF BeginTurn
<1>2. job' = [job EXCEPT ![c] = j]
  BY DEF BeginTurn
<1> HIDE DEF j
<1>3. /\ UNCHANGED <<row, msgs, bind, saved>>
      /\ created' = created
      /\ rec' = rec /\ log' = log
      /\ at' = [at EXCEPT ![c] = "turn"]
  BY DEF BeginTurn, Go, storeVars
<1>4. /\ at' \in [Clients -> ClientPlaces]
      /\ job' \in [Clients -> Jobs]
      /\ rec' \in [Clients -> Rows]
      /\ log' \in [Clients -> Seq(Messages)]
      /\ \A d \in Clients : d # c => at'[d] = at[d] /\ job'[d] = job[d] /\ rec'[d] = rec[d]
      /\ at'[c] = "turn" /\ job'[c] = j
  BY <1>1, <1>2, <1>3 DEF IInv, TypeOK, ClientPlaces
<1>5. Holds(at'[c], job'[c], rec'[c], created')
  <2>1. Exists(s)
    BY ResolvedExists DEF BeginTurn, IInv
  <2>2. s \in 1..created'
    BY <1>3, <2>1, SomeSessions DEF IInv, Structure, Handed, Sessions, TypeOK
  <2> QED
    BY <1>1, <1>4, <2>2 DEF Holds
<1>6. created' \in 0..NumSessions /\ created <= created'
  BY <1>3, SomeSessions DEF IInv, TypeOK
<1> QED
  BY <1>3, <1>4, <1>5, <1>6, QuietStep

LEMMA BeginCatalogStep ==
    ASSUME IInv, NEW c \in Clients, BeginCatalog(c)
    PROVE  IInv'
<1> DEFINE s == job[c].session
<1>1. /\ UNCHANGED <<row, msgs, bind, saved>>
      /\ created' = created
      /\ job' = job /\ log' = log
      /\ at' = [at EXCEPT ![c] = "row"]
      /\ rec' = [rec EXCEPT ![c] = row[s]]
      /\ row[s].exists
      /\ Holds(at[c], job[c], rec[c], created)
      /\ at[c] = "turn"
  BY DEF BeginCatalog, Go, storeVars, Exists, IInv, Records
<1>2. s \in Sessions
  BY <1>1 DEF Holds
<1>3. row[s] \in Rows /\ row[s] \in LiveRows
  BY <1>1, <1>2, LiveRow DEF IInv, TypeOK
<1>4. row[s].parent \in Nat /\ s \in Nat /\ s >= 1 /\ created \in Nat
  <2>1. row[s].parent \in Nat
    BY <1>3, LiveParent
  <2> QED
    BY <2>1, <1>2, SomeSessions DEF Sessions, IInv, TypeOK
<1>5. row[s].parent < s /\ s <= created
  BY <1>1, <1>2, <1>4 DEF IInv, Structure, ParentExists, Handed, Exists
<1>6. /\ at' \in [Clients -> ClientPlaces]
      /\ job' \in [Clients -> Jobs]
      /\ rec' \in [Clients -> Rows]
      /\ log' \in [Clients -> Seq(Messages)]
      /\ \A d \in Clients : d # c => at'[d] = at[d] /\ job'[d] = job[d] /\ rec'[d] = rec[d]
      /\ at'[c] = "row" /\ job'[c] = job[c] /\ rec'[c] = row[s]
  BY <1>1, <1>3 DEF IInv, TypeOK, ClientPlaces
<1>7. Holds(at'[c], job'[c], rec'[c], created')
  BY <1>1, <1>2, <1>4, <1>5, <1>6 DEF Holds
<1>8. created' \in 0..NumSessions /\ created <= created'
  BY <1>1, <1>4, SomeSessions DEF IInv, TypeOK
<1> QED
  BY <1>1, <1>6, <1>7, <1>8, QuietStep

LEMMA ReadMessagesStep ==
    ASSUME IInv, NEW c \in Clients, ReadMessages(c)
    PROVE  IInv'
<1>1. /\ UNCHANGED <<row, msgs, bind, saved>>
      /\ created' = created
      /\ job' = job /\ rec' = rec
      /\ at' = [at EXCEPT ![c] = "loaded"]
      /\ log' = [log EXCEPT ![c] = msgs[job[c].session]]
      /\ Holds(at[c], job[c], rec[c], created)
      /\ at[c] = "row"
  BY DEF ReadMessages, Go, storeVars, IInv, Records
<1>2. job[c].session \in Sessions
  BY <1>1 DEF Holds
<1>3. /\ at' \in [Clients -> ClientPlaces]
      /\ job' \in [Clients -> Jobs]
      /\ rec' \in [Clients -> Rows]
      /\ log' \in [Clients -> Seq(Messages)]
      /\ \A d \in Clients : d # c => at'[d] = at[d] /\ job'[d] = job[d] /\ rec'[d] = rec[d]
      /\ at'[c] = "loaded" /\ job'[c] = job[c] /\ rec'[c] = rec[c]
  BY <1>1, <1>2 DEF IInv, TypeOK, ClientPlaces
<1>4. Holds(at'[c], job'[c], rec'[c], created')
  BY <1>1, <1>3 DEF Holds
<1>5. created' \in 0..NumSessions /\ created <= created'
  BY <1>1, SomeSessions DEF IInv, TypeOK
<1> QED
  BY <1>1, <1>3, <1>4, <1>5, QuietStep

\* The steps that give up: the call ends and nothing else changes.
LEMMA GiveUpStep ==
    ASSUME IInv, NEW c \in Clients, Done(c), UNCHANGED <<storeVars, saved>>
    PROVE  IInv'
<1>1. /\ UNCHANGED <<row, msgs, bind, saved>>
      /\ created' = created
  BY DEF storeVars
<1>2. /\ at' \in [Clients -> ClientPlaces]
      /\ job' \in [Clients -> Jobs]
      /\ rec' \in [Clients -> Rows]
      /\ log' \in [Clients -> Seq(Messages)]
      /\ Records'
  BY <1>1, DoneStep DEF IInv
<1>3. TypeOK'
  BY <1>1, <1>2 DEF IInv, TypeOK, ClientPlaces
<1>4. Structure'
  BY <1>1, StructureKept, SomeSessions DEF IInv, TypeOK
<1> QED
  BY <1>2, <1>3, <1>4 DEF IInv

LEMMA BeginNewStep ==
    ASSUME IInv, NEW c \in Clients, NEW r \in LiveRows, r.parent <= created, BeginNew(c, r)
    PROVE  IInv'
<1> DEFINE n == created + 1
           j == [Job("create", n) EXCEPT !.user = r.user]
<1>1. n \in Sessions /\ n \in Nat /\ created \in Nat /\ r.user \in Owners /\ r \in Rows
  <2>1. r.user \in Owners
    BY DEF LiveRows
  <2>2. r \in Rows
    BY DEF LiveRows, Rows
  <2> QED
    BY <2>1, <2>2, SomeSessions DEF BeginNew, IInv, TypeOK, Sessions
<1>2. j \in Jobs /\ j.session = n /\ j.kind = "create"
  <2> HIDE DEF n
  <2> QED
    BY <1>1, JobTypes, JobEdits
<1>3. /\ UNCHANGED <<row, msgs, bind, saved>>
      /\ created' = n
      /\ job' = [job EXCEPT ![c] = j]
      /\ rec' = [rec EXCEPT ![c] = r]
      /\ log' = log
      /\ at' = [at EXCEPT ![c] = "new"]
  BY DEF BeginNew, Go
<1> HIDE DEF j
<1>4. /\ at' \in [Clients -> ClientPlaces]
      /\ job' \in [Clients -> Jobs]
      /\ rec' \in [Clients -> Rows]
      /\ log' \in [Clients -> Seq(Messages)]
      /\ \A d \in Clients : d # c => at'[d] = at[d] /\ job'[d] = job[d] /\ rec'[d] = rec[d]
      /\ at'[c] = "new" /\ job'[c] = j /\ rec'[c] = r
  BY <1>1, <1>2, <1>3 DEF IInv, TypeOK, ClientPlaces
<1>5. r.parent < n /\ r.exists
  BY <1>1, LiveParent
<1>6. Holds(at'[c], job'[c], rec'[c], created')
  BY <1>1, <1>2, <1>3, <1>4, <1>5 DEF Holds
<1>7. created' \in 0..NumSessions /\ created <= created'
  BY <1>1, <1>3, SomeSessions DEF Sessions
<1> QED
  BY <1>3, <1>4, <1>6, <1>7, QuietStep

LEMMA BeginCreateStep ==
    ASSUME IInv, NEW c \in Clients, NEW conv \in Convs, NEW user \in Owners,
           BeginCreate(c, conv, user)
    PROVE  IInv'
<1> DEFINE r == NewRow(conv, user, 0)
<1>1. r \in LiveRows /\ r.parent = 0
  BY SomeSessions, RangeIsBounded DEF NewRow, LiveRows
<1>2. BeginNew(c, r)
  BY DEF BeginCreate
<1> HIDE DEF r
<1>3. r.parent <= created
  BY <1>1, SomeSessions DEF IInv, TypeOK
<1> QED
  BY <1>1, <1>2, <1>3, BeginNewStep

LEMMA BeginChildStep ==
    ASSUME IInv, NEW c \in Clients, NEW parent \in Sessions, NEW conv \in Convs,
           BeginChild(c, parent, conv)
    PROVE  IInv'
<1> DEFINE user == row[parent].user
           r == NewRow(conv, user, parent)
<1>1. row[parent] \in LiveRows
  BY LiveRow DEF IInv, TypeOK, BeginChild, Exists
<1>2. user \in Owners
  BY <1>1 DEF LiveRows
<1>3. BeginNew(c, r)
  BY DEF BeginChild
<1>4. r \in LiveRows /\ r.parent = parent
  <2> HIDE DEF user
  <2> QED
    BY <1>2, SomeSessions, RangeIsBounded DEF NewRow, LiveRows, Sessions
<1>5. parent <= created
  BY DEF IInv, Structure, Handed, BeginChild
<1> HIDE DEF r
<1> QED
  BY <1>3, <1>4, <1>5, BeginNewStep

LEMMA BeginIfNewerStep ==
    ASSUME IInv, NEW c \in Clients, NEW s \in Sessions, NEW range \in 1..MaxRange,
           BeginIfNewer(c, s, range)
    PROVE  IInv'
<1> DEFINE j == [Job("newer", s) EXCEPT !.range = range]
<1>1. j \in Jobs /\ j.session = s /\ j.kind = "newer"
  BY JobTypes, JobEdits DEF BeginIfNewer
<1>2. job' = [job EXCEPT ![c] = j]
  BY DEF BeginIfNewer
<1> HIDE DEF j
<1>3. /\ UNCHANGED <<row, msgs, bind, saved>>
      /\ created' = created
      /\ rec' = rec /\ log' = log
      /\ at' = [at EXCEPT ![c] = "newer"]
      /\ Exists(s)
  BY DEF BeginIfNewer, Go, storeVars
<1>4. /\ at' \in [Clients -> ClientPlaces]
      /\ job' \in [Clients -> Jobs]
      /\ rec' \in [Clients -> Rows]
      /\ log' \in [Clients -> Seq(Messages)]
      /\ \A d \in Clients : d # c => at'[d] = at[d] /\ job'[d] = job[d] /\ rec'[d] = rec[d]
      /\ at'[c] = "newer" /\ job'[c] = j
  BY <1>1, <1>2, <1>3 DEF IInv, TypeOK, ClientPlaces
<1>5. s \in 1..created
  BY <1>3, SomeSessions DEF IInv, Structure, Handed, Sessions, TypeOK
<1>6. Holds(at'[c], job'[c], rec'[c], created')
  BY <1>1, <1>3, <1>4, <1>5 DEF Holds
<1>7. created' \in 0..NumSessions /\ created <= created'
  BY <1>3, SomeSessions DEF IInv, TypeOK
<1> QED
  BY <1>3, <1>4, <1>6, <1>7, QuietStep

-----------------------------------------------------------------------------
\* A row is written: it exists and so does its parent, if it has one.
LEMMA RowWritten ==
    ASSUME TypeOK, Structure, NEW s \in Sessions, s <= created,
           NEW r \in LiveRows, r.parent < s, r.parent # 0 => row[r.parent].exists,
           row' = [row EXCEPT ![s] = r], bind' = bind, created' = created
    PROVE  Structure' /\ row' \in [Sessions -> Rows]
<1>1. r \in Rows /\ r.exists /\ r.parent \in Nat
  BY LiveParent DEF LiveRows, Rows
<1>2. row' \in [Sessions -> Rows]
  BY <1>1 DEF TypeOK
<1>3. \A t \in Sessions : row[t].exists => row'[t].exists
  BY <1>1 DEF TypeOK
<1>4. BoundSessionExists'
  <2>1. \A k \in Keys : bind[k] # 0 => bind[k] \in Sessions
    BY SomeSessions DEF TypeOK, Sessions
  <2> QED
    BY <1>3, <2>1 DEF Structure, BoundSessionExists, Exists
<1>5. OneBindingPerSession'
  BY DEF Structure, OneBindingPerSession
<1>6. Handed'
  BY DEF Structure, Handed, Exists, TypeOK
<1>7. ParentExists'
  <2> SUFFICES ASSUME NEW t \in Sessions, row'[t].parent # 0
               PROVE  row'[t].parent < t /\ row'[row'[t].parent].exists
    BY DEF ParentExists, Exists
  <2>1. CASE t = s
    <3>1. row'[t] = r
      BY <2>1 DEF TypeOK
    <3>2. r.parent \in Sessions
      BY <3>1, <1>1, SomeSessions DEF Sessions
    <3> QED
      BY <3>1, <3>2, <1>3, <2>1
  <2>2. CASE t # s
    <3>1. row'[t] = row[t]
      BY <2>2 DEF TypeOK
    <3>2. row[t].parent < t /\ row[row[t].parent].exists
      BY <3>1 DEF Structure, ParentExists, Exists
    <3>3. row[t].parent \in Sessions
      <4>1. row[t] \in LiveRows \/ row[t] = NoRow
        BY DEF TypeOK, Rows, LiveRows
      <4>2. row[t].parent \in 0..NumSessions
        BY <4>1, NoThings, LiveParent, SomeSessions
      <4> QED
        BY <4>2, <3>1, SomeSessions DEF Sessions
    <3> QED
      BY <3>1, <3>2, <3>3, <1>3
  <2> QED
    BY <2>1, <2>2
<1> QED
  BY <1>2, <1>4, <1>5, <1>6, <1>7 DEF Structure

\* The parent of a row is older and exists.
LEMMA RowParent ==
    ASSUME TypeOK, Structure, NEW s \in Sessions, Exists(s)
    PROVE  /\ row[s] \in LiveRows
           /\ row[s].parent < s
           /\ row[s].parent # 0 => row[row[s].parent].exists
           /\ s <= created
<1>1. row[s] \in LiveRows
  BY LiveRow DEF TypeOK, Exists
<1>2. row[s].parent \in Nat
  BY <1>1, LiveParent
<1>3. row[s].parent # 0 => row[s].parent < s /\ row[row[s].parent].exists
  BY DEF Structure, ParentExists, Exists
<1>4. s \in Nat /\ s >= 1
  BY SomeSessions DEF Sessions
<1> QED
  BY <1>1, <1>2, <1>3, <1>4 DEF Structure, Handed

\* A binding after s is bound: none, the new one, or one of another session.
LEMMA Moved ==
    ASSUME NEW conv \in Convs, NEW user \in Owners, NEW s \in Sessions, NEW k \in Keys
    PROVE  \/ Rebound(conv, user, s)[k] = 0
           \/ (k = <<conv, user>> /\ Rebound(conv, user, s)[k] = s)
           \/ (k # <<conv, user>> /\ Rebound(conv, user, s)[k] = bind[k] /\ bind[k] # s)
<1> DEFINE moved == Rebound(conv, user, s)
           dropped == {l \in Keys : bind[l] = s \/ (user # NoUser /\ l = <<conv, NoUser>>)}
<1>1. moved[k] = IF k = <<conv, user>> THEN s ELSE IF k \in dropped THEN 0 ELSE bind[k]
  BY DEF Rebound
<1>2. k \notin dropped => bind[k] # s
  OBVIOUS
<1> HIDE DEF moved, dropped
<1>3. \/ moved[k] = 0
      \/ (k = <<conv, user>> /\ moved[k] = s)
      \/ (k # <<conv, user>> /\ moved[k] = bind[k] /\ bind[k] # s)
  BY <1>1, <1>2
<1> QED
  BY <1>3 DEF moved

\* bind_conversation of a session that exists.
LEMMA BindStep ==
    ASSUME TypeOK, Structure, NEW conv \in Convs, NEW user \in Owners, NEW s \in Sessions,
           Exists(s), BindTo(conv, user, s), created' = created
    PROVE  Structure' /\ row' \in [Sessions -> Rows] /\ bind' \in [Keys -> 0..NumSessions]
<1> DEFINE owner == IF user = NoUser THEN row[s].user ELSE user
           r == [row[s] EXCEPT !.conv = conv, !.user = owner]
           moved == Rebound(conv, user, s)
<1>1. row[s] \in LiveRows /\ row[s].parent < s /\ s <= created
      /\ (row[s].parent # 0 => row[row[s].parent].exists)
  BY RowParent
<1>2. owner \in Owners
  BY <1>1 DEF LiveRows
<1>3. r \in LiveRows /\ r.parent = row[s].parent
  <2> HIDE DEF owner
  <2> QED
    BY <1>1, <1>2 DEF LiveRows
<1>4. row' = [row EXCEPT ![s] = r]
  BY DEF BindTo, TypeOK
<1> HIDE DEF r, owner
<1>5. bind' = moved /\ moved \in [Keys -> 0..NumSessions]
  <2>1. s \in 0..NumSessions /\ 0 \in 0..NumSessions
    BY SomeSessions DEF Sessions
  <2> QED
    BY <2>1 DEF BindTo, Rebound, TypeOK, Keys
<1>6. \A k \in Keys : \/ moved[k] = 0
                       \/ (k = <<conv, user>> /\ moved[k] = s)
                       \/ (k # <<conv, user>> /\ moved[k] = bind[k] /\ bind[k] # s)
  BY Moved
<1>7. row' \in [Sessions -> Rows]
  BY <1>3, <1>4 DEF TypeOK, LiveRows, Rows
<1>8. \A t \in Sessions : row'[t].exists <=> row[t].exists
  <2>1. r.exists /\ row[s].exists
    BY <1>1, <1>3, LiveParent
  <2> QED
    BY <2>1, <1>4 DEF TypeOK
<1>9. \A t \in Sessions : row'[t].parent = row[t].parent
  BY <1>3, <1>4 DEF TypeOK
<1>10. BoundSessionExists'
  <2> SUFFICES ASSUME NEW k \in Keys, moved[k] # 0
               PROVE  row'[moved[k]].exists
    BY <1>5 DEF BoundSessionExists, Exists
  <2>1. moved[k] \in Sessions
    BY <1>5, SomeSessions DEF Sessions
  <2>2. row[moved[k]].exists
    BY <1>6 DEF Structure, BoundSessionExists, Exists
  <2> QED
    BY <2>1, <2>2, <1>8
<1>11. OneBindingPerSession'
  <2> SUFFICES ASSUME NEW k \in Keys, NEW l \in Keys, moved[k] # 0, moved[k] = moved[l]
               PROVE  k = l
    BY <1>5 DEF OneBindingPerSession
  <2> QED
    BY <1>6 DEF Structure, OneBindingPerSession
<1>12. Handed'
  BY <1>8 DEF Structure, Handed, Exists
<1>13. ParentExists'
  <2> SUFFICES ASSUME NEW t \in Sessions, row'[t].parent # 0
               PROVE  row'[t].parent < t /\ row'[row'[t].parent].exists
    BY DEF ParentExists, Exists
  <2>1. row[t].parent < t /\ row[row[t].parent].exists /\ row[t].parent # 0
    BY <1>9 DEF Structure, ParentExists, Exists
  <2>2. row[t].parent \in Sessions
    <3>1. row[t] \in LiveRows \/ row[t] = NoRow
      BY DEF TypeOK, Rows, LiveRows
    <3>2. row[t].parent \in 0..NumSessions
      BY <3>1, NoThings, LiveParent, SomeSessions
    <3> QED
      BY <3>2, <2>1, SomeSessions DEF Sessions
  <2> QED
    BY <2>1, <2>2, <1>8, <1>9
<1> QED
  BY <1>5, <1>7, <1>10, <1>11, <1>12, <1>13 DEF Structure

\* What a mutator writes is a record, with the parent of the one it has read,
\* and a sequence of messages.
LEMMA WrittenRecord ==
    ASSUME TypeOK, Records, NEW c \in Clients, at[c] = "loaded",
           job[c].kind = "withdraw" => IsLast(job[c].message, log[c])
    PROVE  /\ NewLog(c) \in Seq(Messages)
           /\ NewRec(c) \in LiveRows
           /\ NewRec(c).parent = rec[c].parent
           /\ job[c].session \in 1..created
           /\ rec[c].parent < job[c].session
<1>1. Holds(at[c], job[c], rec[c], created)
  BY DEF Records
<1>2. rec[c] \in LiveRows
  BY <1>1, LiveRow DEF Holds, TypeOK
<1>3. log[c] \in Seq(Messages) /\ job[c] \in Jobs
  BY DEF TypeOK
<1>4. NewLog(c) \in Seq(Messages)
  <2>1. CASE job[c].kind = "append"
    BY <2>1, <1>1, <1>3 DEF NewLog, Holds
  <2>2. CASE job[c].kind = "withdraw"
    <3>1. NewLog(c) = SubSeq(log[c], 1, Len(log[c]) - 1)
      BY <2>2 DEF NewLog
    <3> QED
      BY <3>1, <1>3
  <2>3. CASE job[c].kind \notin {"append", "withdraw"}
    BY <2>3, <1>3 DEF NewLog
  <2> QED
    BY <2>1, <2>2, <2>3
<1>5. NewRec(c) \in LiveRows /\ NewRec(c).parent = rec[c].parent
  <2>1. CASE job[c].kind = "catalog"
    <3>1. NewRec(c) = [rec[c] EXCEPT !.user = job[c].user] /\ job[c].user \in Owners
      BY <2>1, <1>3 DEF NewRec, Jobs
    <3> QED
      BY <3>1, <1>2 DEF LiveRows
  <2>2. CASE job[c].kind = "compact"
    <3>1. NewRec(c) = [rec[c] EXCEPT !.ctx = job[c].range] /\ job[c].range \in 0..MaxRange
      BY <2>2, <1>3 DEF NewRec, Jobs
    <3> QED
      BY <3>1, <1>2 DEF LiveRows
  <2>3. CASE job[c].kind \notin {"catalog", "compact"}
    BY <2>3, <1>2 DEF NewRec
  <2> QED
    BY <2>1, <2>2, <2>3
<1> QED
  BY <1>1, <1>4, <1>5 DEF Holds

LEMMA WriteRecordStep ==
    ASSUME IInv, NEW c \in Clients, WriteRecord(c)
    PROVE  IInv'
<1> DEFINE s == job[c].session
           r == NewRec(c)
           m == NewLog(c)
<1>1. /\ at[c] = "loaded"
      /\ job[c].kind = "withdraw" => IsLast(job[c].message, log[c])
      /\ ParentThere(rec[c])
      /\ row' = [row EXCEPT ![s] = r]
      /\ msgs' = [msgs EXCEPT ![s] = m]
      /\ UNCHANGED <<created, bind>>
  BY DEF WriteRecord
<1>2. /\ m \in Seq(Messages)
      /\ r \in LiveRows
      /\ r.parent = rec[c].parent
      /\ s \in 1..created
      /\ r.parent < s
  BY <1>1, WrittenRecord DEF IInv
<1>3. s \in Sessions /\ s <= created
  BY <1>2, SomeSessions DEF IInv, TypeOK, Sessions
<1>4. r.parent # 0 => row[r.parent].exists
  BY <1>1, <1>2 DEF ParentThere, Exists
<1>5. saved' \subseteq Sessions \X Messages
  <2>1. job[c].kind = "append" => job[c].message \in Messages
    BY DEF IInv, Records, Holds
  <2>2. saved' \in {saved \cup {<<s, job[c].message>>}, saved \ {<<s, job[c].message>>}, saved}
        /\ (job[c].kind # "append" => saved' \subseteq saved)
    BY DEF WriteRecord
  <2>3. CASE job[c].kind = "append"
    BY <2>1, <2>2, <2>3, <1>3 DEF IInv, TypeOK
  <2>4. CASE job[c].kind # "append"
    BY <2>2, <2>4 DEF IInv, TypeOK
  <2> QED
    BY <2>3, <2>4
<1>6. CASE job[c].kind = "catalog"
  <2>1. at' = [at EXCEPT ![c] = "bind"] /\ job' = job /\ rec' = rec /\ log' = log
    BY <1>6 DEF WriteRecord, Go
  <2>2. Holds(at'[c], job'[c], rec'[c], created')
    BY <1>1, <2>1 DEF IInv, Records, Holds, TypeOK
  <2>3. Records'
    BY <1>1, <2>1, <2>2, RecordsKept, SomeSessions DEF IInv, TypeOK
  <2> HIDE DEF r, m, s
  <2>4. Structure' /\ row' \in [Sessions -> Rows]
    BY <1>1, <1>2, <1>3, <1>4, RowWritten DEF IInv
  <2>5. msgs' \in [Sessions -> Seq(Messages)]
    BY <1>1, <1>2, <1>3 DEF IInv, TypeOK
  <2>6. TypeOK'
    BY <1>1, <1>5, <2>1, <2>4, <2>5 DEF IInv, TypeOK, ClientPlaces
  <2> QED
    BY <2>3, <2>4, <2>6 DEF IInv
<1>7. CASE job[c].kind # "catalog"
  <2>1. Done(c)
    BY <1>7 DEF WriteRecord
  <2>2. /\ at' \in [Clients -> ClientPlaces]
        /\ job' \in [Clients -> Jobs]
        /\ rec' \in [Clients -> Rows]
        /\ log' \in [Clients -> Seq(Messages)]
        /\ Records'
    BY <2>1, <1>1, DoneStep DEF IInv
  <2> HIDE DEF r, m, s
  <2>3. Structure' /\ row' \in [Sessions -> Rows]
    BY <1>1, <1>2, <1>3, <1>4, RowWritten DEF IInv
  <2>4. msgs' \in [Sessions -> Seq(Messages)]
    BY <1>1, <1>2, <1>3 DEF IInv, TypeOK
  <2>5. TypeOK'
    BY <1>1, <1>5, <2>2, <2>3, <2>4 DEF IInv, TypeOK, ClientPlaces
  <2> QED
    BY <2>2, <2>3, <2>5 DEF IInv
<1> QED
  BY <1>6, <1>7

LEMMA WriteNewStep ==
    ASSUME IInv, NEW c \in Clients, WriteNew(c)
    PROVE  IInv'
<1> DEFINE s == job[c].session
           r == rec[c]
<1>1. /\ at[c] = "new"
      /\ ParentThere(r)
      /\ row' = [row EXCEPT ![s] = r]
      /\ UNCHANGED <<created, msgs, bind, job, rec, log, saved>>
      /\ at' = [at EXCEPT ![c] = "bind"]
  BY DEF WriteNew, Go
<1>2. Holds(at[c], job[c], r, created)
  BY DEF IInv, Records
<1>3. r \in LiveRows /\ r.parent < s /\ s \in 1..created /\ s \in Sessions
  BY <1>1, <1>2, LiveRow DEF Holds, IInv, TypeOK
<1>4. s <= created
  BY <1>3, SomeSessions DEF IInv, TypeOK
<1>5. r.parent # 0 => row[r.parent].exists
  BY <1>1 DEF ParentThere, Exists
<1>6. Holds(at'[c], job'[c], rec'[c], created')
  BY <1>1, <1>2 DEF Holds, IInv, TypeOK
<1>7. Records'
  BY <1>1, <1>6, RecordsKept, SomeSessions DEF IInv, TypeOK
<1> HIDE DEF r, s
<1>8. Structure' /\ row' \in [Sessions -> Rows]
  BY <1>1, <1>3, <1>4, <1>5, RowWritten DEF IInv
<1>9. TypeOK'
  BY <1>1, <1>8 DEF IInv, TypeOK, ClientPlaces
<1> QED
  BY <1>7, <1>8, <1>9 DEF IInv

LEMMA BindNewStep ==
    ASSUME IInv, NEW c \in Clients, BindNew(c)
    PROVE  IInv'
<1>1. /\ at[c] = "bind"
      /\ Exists(job[c].session)
      /\ BindTo(rec[c].conv, job[c].user, job[c].session)
      /\ Done(c)
      /\ UNCHANGED <<created, msgs, saved>>
  BY DEF BindNew
<1>2. Holds(at[c], job[c], rec[c], created)
  BY DEF IInv, Records
<1>3. rec[c] \in LiveRows /\ job[c].session \in Sessions
  BY <1>1, <1>2, LiveRow DEF Holds, IInv, TypeOK
<1>4. rec[c].conv \in Convs /\ job[c].user \in Owners
  BY <1>3 DEF LiveRows, IInv, TypeOK, Jobs
<1>5. Structure' /\ row' \in [Sessions -> Rows] /\ bind' \in [Keys -> 0..NumSessions]
  BY <1>1, <1>3, <1>4, BindStep DEF IInv
<1>6. /\ at' \in [Clients -> ClientPlaces]
      /\ job' \in [Clients -> Jobs]
      /\ rec' \in [Clients -> Rows]
      /\ log' \in [Clients -> Seq(Messages)]
      /\ Records'
  BY <1>1, DoneStep DEF IInv
<1>7. TypeOK'
  BY <1>1, <1>5, <1>6 DEF IInv, TypeOK, ClientPlaces
<1> QED
  BY <1>5, <1>6, <1>7 DEF IInv

LEMMA ResumeStep ==
    ASSUME IInv, NEW c \in Clients, NEW conv \in Convs, NEW user \in Owners, NEW s \in Sessions,
           Resume(c, conv, user, s)
    PROVE  IInv'
<1>1. /\ Exists(s)
      /\ BindTo(conv, user, s)
      /\ UNCHANGED <<created, msgs, at, job, rec, log, saved>>
  BY DEF Resume, clientVars
<1>2. Structure' /\ row' \in [Sessions -> Rows] /\ bind' \in [Keys -> 0..NumSessions]
  BY <1>1, BindStep DEF IInv
<1>3. Records'
  BY <1>1 DEF IInv, Records
<1>4. TypeOK'
  BY <1>1, <1>2 DEF IInv, TypeOK
<1> QED
  BY <1>2, <1>3, <1>4 DEF IInv

LEMMA UpdateContextStep ==
    ASSUME IInv, NEW c \in Clients, UpdateContext(c)
    PROVE  IInv'
<1> DEFINE s == job[c].session
           r == [row[s] EXCEPT !.ctx = job[c].range]
<1>1. /\ at[c] = "newer"
      /\ row' = IF Exists(s) THEN [row EXCEPT ![s] = r] ELSE row
      /\ Done(c)
      /\ UNCHANGED <<created, msgs, bind, saved>>
  BY DEF UpdateContext
<1>2. s \in Sessions /\ job[c].range \in 0..MaxRange
  BY <1>1 DEF IInv, Records, Holds, TypeOK, Jobs
<1>3. /\ at' \in [Clients -> ClientPlaces]
      /\ job' \in [Clients -> Jobs]
      /\ rec' \in [Clients -> Rows]
      /\ log' \in [Clients -> Seq(Messages)]
      /\ Records'
  BY <1>1, DoneStep DEF IInv
<1>4. Structure' /\ row' \in [Sessions -> Rows]
  <2>1. CASE Exists(s)
    <3>1. /\ row[s] \in LiveRows
          /\ row[s].parent < s
          /\ row[s].parent # 0 => row[row[s].parent].exists
          /\ s <= created
      BY <1>2, <2>1, RowParent DEF IInv
    <3>2. r \in LiveRows /\ r.parent = row[s].parent
      BY <1>2, <3>1, RowEdits DEF LiveRows
    <3>3. row' = [row EXCEPT ![s] = r]
      BY <1>1, <2>1
    <3> HIDE DEF r, s
    <3> QED
      BY <1>1, <1>2, <3>1, <3>2, <3>3, RowWritten DEF IInv
  <2>2. CASE ~Exists(s)
    <3>1. row' = row
      BY <1>1, <2>2
    <3>2. created' \in Nat /\ created <= created' /\ UNCHANGED <<row, bind>>
      BY <1>1, <3>1, SomeSessions DEF IInv, TypeOK
    <3> HIDE DEF s, r
    <3>3. Structure'
      BY <3>2, StructureKept DEF IInv
    <3> QED
      BY <3>1, <3>3 DEF IInv, TypeOK
  <2> QED
    BY <2>1, <2>2
<1>5. TypeOK'
  BY <1>1, <1>3, <1>4 DEF IInv, TypeOK, ClientPlaces
<1> QED
  BY <1>3, <1>4, <1>5 DEF IInv

-----------------------------------------------------------------------------
\* Sessions are deleted together with all their children.
LEMMA DeleteKeeps ==
    ASSUME IInv, NEW d \in SUBSET Sessions,
           \A s \in Sessions : Exists(s) /\ row[s].parent \in d => s \in d,
           DeleteAll(d)
    PROVE  IInv'
<1>1. /\ row' = [s \in Sessions |-> IF s \in d THEN NoRow ELSE row[s]]
      /\ msgs' = [s \in Sessions |-> IF s \in d THEN <<>> ELSE msgs[s]]
      /\ bind' = [k \in Keys |-> IF bind[k] \in d THEN 0 ELSE bind[k]]
      /\ saved' = {p \in saved : p[1] \notin d}
      /\ UNCHANGED <<created, at, job, rec, log>>
  BY DEF DeleteAll, clientVars
<1>2. Records'
  BY <1>1 DEF IInv, Records
<1>3. /\ row' \in [Sessions -> Rows]
      /\ msgs' \in [Sessions -> Seq(Messages)]
      /\ bind' \in [Keys -> 0..NumSessions]
  BY <1>1, NoThings, SomeSessions DEF IInv, TypeOK
<1>4. TypeOK'
  BY <1>1, <1>3 DEF IInv, TypeOK
<1>5. BoundSessionExists'
  <2> SUFFICES ASSUME NEW k \in Keys, bind'[k] # 0
               PROVE  row'[bind'[k]].exists
    BY DEF BoundSessionExists, Exists
  <2>1. bind'[k] = bind[k] /\ bind[k] \notin d
    BY <1>1
  <2>2. bind[k] \in Sessions /\ row[bind[k]].exists
    BY <2>1, SomeSessions
       DEF IInv, TypeOK, Sessions, Structure, BoundSessionExists, Exists
  <2> QED
    BY <1>1, <2>1, <2>2
<1>6. OneBindingPerSession'
  BY <1>1 DEF IInv, Structure, OneBindingPerSession
<1>7. Handed'
  BY <1>1, NoThings DEF IInv, Structure, Handed, Exists
<1>8. ParentExists'
  <2> SUFFICES ASSUME NEW s \in Sessions, row'[s].parent # 0
               PROVE  row'[s].parent < s /\ row'[row'[s].parent].exists
    BY DEF ParentExists, Exists
  <2>1. s \notin d /\ row'[s] = row[s]
    BY <1>1, NoThings
  <2>2. row[s].parent < s /\ row[row[s].parent].exists
    BY <2>1 DEF IInv, Structure, ParentExists, Exists
  <2>3. row[s] \in LiveRows
    BY <2>1, NoThings DEF IInv, TypeOK, Rows, LiveRows
  <2>4. row[s].parent \in Sessions
    BY <2>1, <2>3, LiveParent, SomeSessions DEF Sessions
  <2>5. row[s].parent \notin d
    BY <2>1, <2>3, LiveParent DEF Exists
  <2> QED
    BY <1>1, <2>1, <2>2, <2>4, <2>5
<1> QED
  BY <1>2, <1>4, <1>5, <1>6, <1>7, <1>8 DEF IInv, Structure

\* A lineage has the children of its members.
LEMMA DeleteStep ==
    ASSUME IInv, NEW c \in Clients, NEW s \in Sessions, Delete(c, s)
    PROVE  IInv'
<1>1. Lineage(s) \in SUBSET Sessions
  BY DEF Lineage
<1>2. ASSUME NEW x \in Sessions, Exists(x), row[x].parent \in Lineage(s)
      PROVE  x \in Lineage(s)
  <2> SUFFICES ASSUME NEW d \in SUBSET Sessions, s \in d,
                      \A p \in d : \A y \in Sessions : IsChild(y, p) => y \in d
               PROVE  x \in d
    BY DEF Lineage
  <2>1. row[x].parent \in d
    BY <1>2 DEF Lineage
  <2> QED
    BY <1>2, <2>1 DEF IsChild, Exists
<1> QED
  BY <1>1, <1>2, DeleteKeeps DEF Delete

\* Pruning keeps the parent of every session it keeps.
LEMMA PruneStep ==
    ASSUME IInv, NEW c \in Clients, NEW inactive \in SUBSET Sessions, Prune(c, inactive)
    PROVE  IInv'
<1> DEFINE active == {s \in Sessions \ inactive : Exists(s)}
           kept == Ancestors(active)
           d == inactive \ kept
<1>1. ASSUME NEW x \in Sessions, Exists(x), row[x].parent \in d
      PROVE  x \in d
  <2>0. row[x].parent \in Sessions /\ row[x].parent # 0
    <3>1. d \subseteq Sessions
      OBVIOUS
    <3>2. row[x].parent \in Sessions
      BY <1>1, <3>1
    <3> HIDE DEF d
    <3> QED
      BY <3>2, SomeSessions DEF Sessions
  <2>1. x \in active \cup kept => row[x].parent \in kept
    <3> SUFFICES ASSUME x \in active \cup kept,
                        NEW e \in SUBSET Sessions,
                        \A y \in active \cup e : row[y].parent # 0 => row[y].parent \in e
                 PROVE  row[x].parent \in e
      BY <2>0 DEF Ancestors
    <3>1. x \in active \cup e
      BY DEF Ancestors
    <3> QED
      BY <2>0, <3>1
  <2>2. x \notin active /\ x \notin kept
    BY <1>1, <2>1
  <2> QED
    BY <1>1, <2>2
<1>2. d \in SUBSET Sessions
  OBVIOUS
<1>3. DeleteAll(d)
  BY DEF Prune
<1> HIDE DEF d
<1> QED
  BY <1>1, <1>2, <1>3, DeleteKeeps

-----------------------------------------------------------------------------
LEMMA InitInv == Init => IInv
<1> SUFFICES ASSUME Init PROVE IInv
  OBVIOUS
<1>1. TypeOK
  BY NoThings, SomeSessions DEF Init, TypeOK, Sessions
<1>2. Records
  BY NoThings DEF Init, Records, Holds
<1>3. Structure
  BY NoThings DEF Init, Structure, BoundSessionExists, OneBindingPerSession, ParentExists,
                  Handed, Exists
<1> QED
  BY <1>1, <1>2, <1>3 DEF IInv

LEMMA NextInv == IInv /\ [Next]_vars => IInv'
<1> SUFFICES ASSUME IInv, [Next]_vars PROVE IInv'
  OBVIOUS
<1>1. CASE UNCHANGED vars
  BY <1>1 DEF vars, storeVars, clientVars, IInv, TypeOK, Records, Structure,
              BoundSessionExists, OneBindingPerSession, ParentExists, Handed, Exists
<1>2. CASE Next
  <2> PICK c \in Clients :
        \/ Begin(c)
        \/ \E s \in Sessions, conv \in Convs, user \in Owners : BeginTurn(c, s, conv, user)
        \/ BeginCatalog(c)
        \/ ReadMessages(c)
        \/ NothingToRemove(c)
        \/ WriteRecord(c)
        \/ WriteRefused(c)
        \/ \E conv \in Convs, user \in Owners : BeginCreate(c, conv, user)
        \/ \E parent \in Sessions, conv \in Convs : BeginChild(c, parent, conv)
        \/ WriteNew(c)
        \/ BindNew(c)
        \/ SessionGone(c)
        \/ \E conv \in Convs, user \in Owners, s \in Sessions : Resume(c, conv, user, s)
        \/ \E s \in Sessions, range \in 1..MaxRange : BeginIfNewer(c, s, range)
        \/ UpdateContext(c)
        \/ \E s \in Sessions : Delete(c, s)
        \/ \E inactive \in SUBSET Sessions : Prune(c, inactive)
    BY <1>2 DEF Next
  <2>1. CASE Begin(c)
    BY <2>1, BeginStep
  <2>2. CASE \E s \in Sessions, conv \in Convs, user \in Owners : BeginTurn(c, s, conv, user)
    BY <2>2, BeginTurnStep
  <2>3. CASE BeginCatalog(c)
    BY <2>3, BeginCatalogStep
  <2>4. CASE ReadMessages(c)
    BY <2>4, ReadMessagesStep
  <2>5. CASE NothingToRemove(c) \/ WriteRefused(c) \/ SessionGone(c)
    BY <2>5, GiveUpStep DEF NothingToRemove, WriteRefused, SessionGone
  <2>6. CASE WriteRecord(c)
    BY <2>6, WriteRecordStep
  <2>7. CASE \E conv \in Convs, user \in Owners : BeginCreate(c, conv, user)
    BY <2>7, BeginCreateStep
  <2>8. CASE \E parent \in Sessions, conv \in Convs : BeginChild(c, parent, conv)
    BY <2>8, BeginChildStep
  <2>9. CASE WriteNew(c)
    BY <2>9, WriteNewStep
  <2>10. CASE BindNew(c)
    BY <2>10, BindNewStep
  <2>11. CASE \E conv \in Convs, user \in Owners, s \in Sessions : Resume(c, conv, user, s)
    BY <2>11, ResumeStep
  <2>12. CASE \E s \in Sessions, range \in 1..MaxRange : BeginIfNewer(c, s, range)
    BY <2>12, BeginIfNewerStep
  <2>13. CASE UpdateContext(c)
    BY <2>13, UpdateContextStep
  <2>14. CASE \E s \in Sessions : Delete(c, s)
    BY <2>14, DeleteStep
  <2>15. CASE \E inactive \in SUBSET Sessions : Prune(c, inactive)
    BY <2>15, PruneStep
  <2> QED
    BY <2>1, <2>2, <2>3, <2>4, <2>5, <2>6, <2>7, <2>8, <2>9, <2>10, <2>11, <2>12, <2>13,
       <2>14, <2>15
<1> QED
  BY <1>1, <1>2

LEMMA Invariance == Spec => []IInv
BY InitInv, NextInv, PTL DEF Spec

-----------------------------------------------------------------------------
\* Types, for any sessions, clients, conversations, users and messages.
THEOREM StoreTypeCorrect == Spec => []TypeOK
<1>1. IInv => TypeOK
  BY DEF IInv
<1> QED
  BY <1>1, Invariance, PTL

\* A conversation is bound to a session that exists, whatever stale records
\* clients write back.
THEOREM BindingsLeadSomewhere == Spec => []BoundSessionExists
<1>1. IInv => BoundSessionExists
  BY DEF IInv, Structure
<1> QED
  BY <1>1, Invariance, PTL

\* No session is bound twice: a resume is exclusive.
THEOREM BindingsExclusive == Spec => []OneBindingPerSession
<1>1. IInv => OneBindingPerSession
  BY DEF IInv, Structure
<1> QED
  BY <1>1, Invariance, PTL

\* The parent of a session exists and is older, through deletions, pruning and
\* stale writes: a lineage is a finite tree.
THEOREM ParentsStay == Spec => []ParentExists
<1>1. IInv => ParentExists
  BY DEF IInv, Structure
<1> QED
  BY <1>1, Invariance, PTL

-----------------------------------------------------------------------------
(* What every client at work has seen stands.                               *)

\* The session of a record still to be written is new and nobody else's.
Private ==
    \A c \in Clients : at[c] = "new" =>
        /\ ~Exists(job[c].session)
        /\ \A d \in Clients : d # c /\ at[d] # "idle" => job[d].session # job[c].session

\* No user but this one has the session bound, if its row says so too.
Mine(s, user) ==
    \A conv \in Convs, other \in Owners :
        bind[<<conv, other>>] = s /\ RowAgrees(conv, other) => other \in {NoUser, user}

\* One step as the three properties want it.
MessageStep == \A p \in saved' : IF p \in saved THEN Seen(p) => Seen(p)' ELSE Stored(p)'
BindingStep ==
    \A conv \in Convs, user \in Owners :
        bind'[<<conv, user>>] # 0 =>
            IF bind'[<<conv, user>>] # bind[<<conv, user>>] THEN RowAgrees(conv, user)'
            ELSE Agreed(conv, user) => Agreed(conv, user)'
ContextStep ==
    \A s \in Sessions, r \in 1..MaxRange :
        Kept(s, r) => \/ Kept(s, r)'
                      \/ ~Exists(s)'
                      \/ \E c \in Clients : /\ Idle(c)
                                            /\ job'[c].kind = "compact"
                                            /\ job'[c].session = s
                                            /\ job'[c].range < r
Settles == Private' /\ MessageStep /\ BindingStep /\ ContextStep

Others(c) ==
    \A d \in Clients : d # c => /\ at'[d] = at[d] /\ job'[d] = job[d]
                                /\ rec'[d] = rec[d] /\ log'[d] = log[d]

\* The record as a call writes it.
Edited(j, r) ==
    CASE j.kind = "catalog" -> [r EXCEPT !.user = j.user]
      [] j.kind = "compact" -> [r EXCEPT !.ctx = j.range]
      [] OTHER -> r

LEMMA EditedFields ==
    ASSUME NEW j \in Jobs, NEW r \in Rows
    PROVE  /\ Edited(j, r).conv = r.conv
           /\ Edited(j, r).user = IF j.kind = "catalog" THEN j.user ELSE r.user
           /\ Edited(j, r).ctx = IF j.kind = "compact" THEN j.range ELSE r.ctx
           /\ Edited(j, r).exists = r.exists
<1>1. CASE j.kind = "catalog"
  <2>1. Edited(j, r) = [r EXCEPT !.user = j.user]
    BY <1>1 DEF Edited
  <2> QED
    BY <1>1, <2>1 DEF Rows, NoRow
<1>2. CASE j.kind = "compact"
  <2>1. Edited(j, r) = [r EXCEPT !.ctx = j.range]
    BY <1>2 DEF Edited
  <2> QED
    BY <1>2, <2>1 DEF Rows, NoRow
<1>3. CASE j.kind \notin {"catalog", "compact"}
  BY <1>3 DEF Edited
<1> QED
  BY <1>1, <1>2, <1>3

LEMMA PrivateStep ==
    ASSUME IInv, Private, NEW c \in Clients, Others(c),
           \A s \in Sessions : Exists(s)' => \/ Exists(s)
                                             \/ at[c] # "idle" /\ job[c].session = s,
           \/ at'[c] = "idle"
           \/ at'[c] # "new" /\ at[c] # "idle" /\ job'[c].session = job[c].session
           \/ at'[c] # "new" /\ Exists(job'[c].session)
           \/ /\ ~row'[job'[c].session].exists
              /\ \A d \in Clients : d # c /\ at[d] # "idle" => job[d].session # job'[c].session
    PROVE  Private'
<1> SUFFICES ASSUME NEW d \in Clients, at'[d] = "new"
             PROVE  /\ ~row'[job'[d].session].exists
                    /\ \A e \in Clients : e # d /\ at'[e] # "idle"
                                             => job'[e].session # job'[d].session
  BY DEF Private, Exists
<1>1. CASE d = c
  BY <1>1 DEF Others
<1>2. CASE d # c
  <2>1. /\ at[d] = "new" /\ job'[d] = job[d]
        /\ ~Exists(job[d].session)
        /\ \A e \in Clients : e # d /\ at[e] # "idle" => job[e].session # job[d].session
        /\ job[d].session \in Sessions
    BY <1>2 DEF Others, Private, IInv, Records, Holds
  <2>2. ~row'[job'[d].session].exists
    BY <1>2, <2>1 DEF Exists
  <2>3. ASSUME NEW e \in Clients, e # d, at'[e] # "idle"
        PROVE  job'[e].session # job'[d].session
    BY <1>2, <2>1, <2>3 DEF Others
  <2> QED
    BY <2>2, <2>3
<1> QED
  BY <1>1, <1>2

\* What a step of one client may make of its own variables when it leaves the
\* tables alone: it begins a call, reads, or gives up.
Quiet(c) ==
    LET j == job'[c]
    IN  /\ UNCHANGED <<row, msgs, bind, saved>>
        /\ Others(c)
        /\ \/ at'[c] = "idle"
           \/ /\ at'[c] = "row" /\ Exists(j.session) /\ rec'[c] = row[j.session]
              /\ \/ at[c] = "turn" /\ j = job[c]
                 \/ at[c] = "idle" /\ j.kind # "catalog"
           \/ /\ at'[c] = "loaded" /\ at[c] = "row" /\ j = job[c]
              /\ rec'[c] = rec[c] /\ log'[c] = msgs[j.session]
           \/ /\ at'[c] = "turn" /\ at[c] = "idle" /\ Exists(j.session)
              /\ j.kind = "catalog" /\ Mine(j.session, j.user)
           \/ /\ at'[c] = "newer" /\ at[c] = "idle" /\ Exists(j.session)
              /\ j.range > row[j.session].ctx
           \/ /\ at'[c] = "new" /\ ~Exists(j.session)
              /\ \A d \in Clients : d # c /\ at[d] # "idle" => job[d].session # j.session

LEMMA QuietSettles ==
    ASSUME IInv, IInv', Private, NEW c \in Clients, Quiet(c)
    PROVE  Settles
<1>0. UNCHANGED <<row, msgs, bind, saved>> /\ Others(c)
  BY DEF Quiet
<1>1. Private'
  <2>1. \A s \in Sessions : Exists(s)' => Exists(s)
    BY <1>0 DEF Exists
  <2>2. ~Exists(job'[c].session) => ~row'[job'[c].session].exists
    BY <1>0 DEF Exists
  <2>3. \/ at'[c] = "idle"
        \/ at'[c] # "new" /\ at[c] # "idle" /\ job'[c].session = job[c].session
        \/ at'[c] # "new" /\ Exists(job'[c].session)
        \/ /\ ~row'[job'[c].session].exists
           /\ \A d \in Clients : d # c /\ at[d] # "idle" => job[d].session # job'[c].session
    BY <2>2 DEF Quiet
  <2> QED
    BY <1>0, <2>1, <2>3, PrivateStep
<1>2. MessageStep
  <2> SUFFICES ASSUME NEW p \in saved, Seen(p), NEW d \in Clients, Loaded(d, p[1])'
               PROVE  \E i \in 1..Len(log'[d]) : log'[d][i] = p[2]
    BY <1>0 DEF MessageStep, Seen, Stored
  <2>1. CASE d # c
    BY <2>1, <1>0 DEF Others, Loaded, Seen
  <2>2. CASE d = c
    <3>1. log'[d] = msgs[p[1]]
      BY <2>2 DEF Quiet, Loaded
    <3> QED
      BY <3>1 DEF Seen, Stored
  <2> QED
    BY <2>1, <2>2
<1>3. BindingStep
  <2> SUFFICES ASSUME NEW conv \in Convs, NEW user \in Owners, Agreed(conv, user),
                      NEW d \in Clients
               PROVE  ~Disputes(d, bind[<<conv, user>>], conv, user)'
    BY <1>0 DEF BindingStep, Agreed, RowAgrees, Disputes
  <2> DEFINE s == bind[<<conv, user>>]
  <2>1. CASE d # c
    BY <2>1, <1>0 DEF Agreed, Disputes, Others
  <2>2. CASE d = c
    <3> SUFFICES ASSUME job'[c].session = s, at'[c] \in {"turn", "row", "loaded"}
                 PROVE  /\ at'[c] # "turn" => rec'[c].conv = conv
                        /\ user # NoUser => user = IF job'[c].kind = "catalog"
                                                   THEN job'[c].user ELSE rec'[c].user
      BY <2>2, <1>0 DEF Disputes
    <3>1. row[s].conv = conv /\ (user # NoUser => row[s].user = user)
      BY DEF Agreed, RowAgrees
    <3>2. ~Disputes(c, s, conv, user)
      BY DEF Agreed
    <3>3. CASE at'[c] = "row" /\ at[c] = "turn"
      <4>1. job'[c] = job[c] /\ rec'[c] = row[s] /\ job[c].kind = "catalog"
        BY <3>3 DEF Quiet, IInv, Records, Holds
      <4> QED
        BY <3>1, <3>2, <3>3, <4>1 DEF Disputes
    <3>4. CASE at'[c] = "row" /\ at[c] = "idle"
      BY <3>1, <3>4 DEF Quiet
    <3>5. CASE at'[c] = "loaded"
      <4>1. at[c] = "row" /\ job'[c] = job[c] /\ rec'[c] = rec[c]
        BY <3>5 DEF Quiet
      <4> QED
        BY <3>2, <4>1 DEF Disputes
    <3>6. CASE at'[c] = "turn"
      <4>1. job'[c].kind = "catalog" /\ Mine(s, job'[c].user)
        BY <3>6 DEF Quiet
      <4>2. user \in {NoUser, job'[c].user}
        BY <4>1 DEF Mine, Agreed
      <4> QED
        BY <3>6, <4>1, <4>2
    <3> QED
      BY <3>3, <3>4, <3>5, <3>6 DEF Quiet
  <2> QED
    BY <2>1, <2>2
<1>4. ContextStep
  <2> SUFFICES ASSUME NEW s \in Sessions, NEW r \in 1..MaxRange, Kept(s, r),
                      ~(/\ Idle(c) /\ job'[c].kind = "compact"
                        /\ job'[c].session = s /\ job'[c].range < r),
                      NEW d \in Clients, job'[d].session = s
               PROVE  /\ at'[d] \in {"row", "loaded"} => NewRec(d)'.ctx >= r
                      /\ at'[d] = "newer" => job'[d].range >= r
    BY <1>0 DEF ContextStep, Kept, Exists
  <2>1. CASE d # c
    <3>1. at'[d] = at[d] /\ job'[d] = job[d] /\ rec'[d] = rec[d]
      BY <2>1, <1>0 DEF Others
    <3>2. NewRec(d)' = NewRec(d)
      BY <3>1 DEF NewRec
    <3> QED
      BY <3>1, <3>2 DEF Kept
  <2>2. CASE d = c
    <3>0. job'[c] \in Jobs /\ rec'[c] \in Rows /\ job[c] \in Jobs /\ r \in Nat
      BY RangeIsBounded DEF IInv, TypeOK
    <3>1. /\ NewRec(c)' = Edited(job'[c], rec'[c])
          /\ NewRec(c) = Edited(job[c], rec[c])
      BY DEF NewRec, Edited
    <3>2. NewRec(c)'.ctx = IF job'[c].kind = "compact" THEN job'[c].range ELSE rec'[c].ctx
      BY <3>0, <3>1, EditedFields
    <3>3. row[s].ctx >= r /\ row[s].ctx \in Nat
      <4>1. row[s] \in LiveRows
        BY LiveRow DEF Kept, IInv, TypeOK, Exists
      <4>2. row[s].ctx \in 0..MaxRange
        BY <4>1 DEF LiveRows
      <4>3. row[s].ctx >= r
        BY DEF Kept
      <4> QED
        BY <4>2, <4>3, RangeIsBounded
    <3>4. CASE at'[c] = "row" /\ at[c] = "turn"
      <4>1. job'[c] = job[c] /\ rec'[c] = row[s] /\ job[c].kind = "catalog"
        BY <2>2, <3>4 DEF Quiet, IInv, Records, Holds
      <4> QED
        BY <2>2, <3>2, <3>3, <3>4, <4>1
    <3>5. CASE at'[c] = "row" /\ at[c] = "idle"
      <4>1. rec'[c] = row[s]
        BY <2>2, <3>5 DEF Quiet
      <4>2. job'[c].kind = "compact" => job'[c].range >= r
        BY <2>2, <3>0, <3>5, RangeIsBounded DEF Idle, Jobs
      <4> QED
        BY <2>2, <3>2, <3>3, <3>5, <4>1, <4>2
    <3>6. CASE at'[c] = "loaded"
      <4>1. at[c] = "row" /\ job'[c] = job[c] /\ rec'[c] = rec[c]
        BY <3>6 DEF Quiet
      <4>2. NewRec(c)' = NewRec(c) /\ NewRec(c).ctx >= r
        BY <2>2, <3>1, <4>1 DEF Kept
      <4> QED
        BY <2>2, <3>6, <4>2
    <3>7. CASE at'[c] = "newer"
      <4>1. job'[c].range > row[s].ctx /\ job'[c].range \in Nat
        BY <2>2, <3>0, <3>7, RangeIsBounded DEF Quiet, Jobs
      <4> QED
        BY <2>2, <3>0, <3>3, <3>7, <4>1
    <3> QED
      BY <2>2, <3>4, <3>5, <3>6, <3>7 DEF Quiet
  <2> QED
    BY <2>1, <2>2
<1> QED
  BY <1>1, <1>2, <1>3, <1>4 DEF Settles

\* The steps that leave the tables alone.
LEMMA ReadRowQuiet ==
    ASSUME IInv, NEW c \in Clients, NEW j, j.kind # "catalog",
           ReadRow(c, j), Go(c, "row"), UNCHANGED <<storeVars, log, saved>>
    PROVE  Quiet(c)
<1>1. at'[c] = "row" /\ job'[c] = j /\ rec'[c] = row[j.session]
  BY DEF IInv, TypeOK, ReadRow, Go
<1>2. UNCHANGED <<row, msgs, bind, saved>> /\ Others(c) /\ at[c] = "idle" /\ Exists(j.session)
  BY DEF IInv, TypeOK, ReadRow, Go, storeVars, Others, Idle
<1> QED
  BY <1>1, <1>2 DEF Quiet

LEMMA BeginQuiet ==
    ASSUME IInv, NEW c \in Clients, Begin(c)
    PROVE  Quiet(c)
<1> DEFINE Goal == \E j : ReadRow(c, j) /\ j.kind # "catalog"
<1> PICK s \in Sessions :
        \/ \E m \in Messages : BeginAppend(c, s, m) \/ BeginWithdraw(c, s, m)
        \/ BeginTouch(c, s)
        \/ \E range \in 1..MaxRange : BeginCompact(c, s, range)
  BY DEF Begin
<1>1. ASSUME NEW m, NEW kind \in {"append", "withdraw"},
             ReadRow(c, [Job(kind, s) EXCEPT !.message = m])
      PROVE  Goal
  <2>1. [Job(kind, s) EXCEPT !.message = m].kind = kind
    BY DEF Job, NoJob
  <2> QED
    BY <1>1, <2>1
<1>2. ASSUME NEW range, ReadRow(c, [Job("compact", s) EXCEPT !.range = range])
      PROVE  Goal
  <2>1. [Job("compact", s) EXCEPT !.range = range].kind = "compact"
    BY DEF Job, NoJob
  <2> QED
    BY <1>2, <2>1
<1>3. ASSUME ReadRow(c, Job("touch", s))
      PROVE  Goal
  <2>1. Job("touch", s).kind = "touch"
    BY DEF Job, NoJob
  <2> QED
    BY <1>3, <2>1
<1>4. Goal
  BY <1>1, <1>2, <1>3 DEF BeginAppend, BeginWithdraw, BeginTouch, BeginCompact
<1> QED
  BY <1>4, ReadRowQuiet DEF Begin

\* A turn resolves the session of its user, or one that is nobody's.
LEMMA ResolvedIsMine ==
    ASSUME IInv, NEW conv \in Convs, NEW user \in Owners, NEW s \in Sessions,
           Resolved(conv, user) = s
    PROVE  Mine(s, user)
<1> SUFFICES ASSUME NEW cv \in Convs, NEW us \in Owners,
                    bind[<<cv, us>>] = s, RowAgrees(cv, us), us # NoUser
             PROVE  us = user
  BY DEF Mine
<1>0. s # 0 /\ NoUser \in Owners /\ <<cv, us>> \in Keys /\ row[s].user = us
  BY SomeSessions DEF Sessions, Owners, Keys, RowAgrees
<1>1. CASE user # NoUser /\ bind[<<conv, user>>] # 0
  <2>1. bind[<<conv, user>>] = s
    BY <1>1 DEF Resolved
  <2>2. <<cv, us>> = <<conv, user>>
    BY <1>0, <2>1 DEF IInv, Structure, OneBindingPerSession, Keys
  <2> QED
    BY <2>2
<1>2. CASE ~(user # NoUser /\ bind[<<conv, user>>] # 0) /\ bind[<<conv, NoUser>>] # 0
           /\ Anonymous(bind[<<conv, NoUser>>])
  <2>1. bind[<<conv, NoUser>>] = s
    BY <1>2 DEF Resolved
  <2> QED
    BY <1>0, <1>2, <2>1 DEF Anonymous
<1>3. CASE ~(user # NoUser /\ bind[<<conv, user>>] # 0)
           /\ ~(bind[<<conv, NoUser>>] # 0 /\ Anonymous(bind[<<conv, NoUser>>]))
  <2>1. s = NewestOf(conv)
    BY <1>3, <1>0 DEF Resolved
  <2> DEFINE of == {t \in Sessions : Exists(t) /\ row[t].conv = conv /\ Anonymous(t)}
  <2>2. of # {} /\ s = CHOOSE x \in of : \A t \in of : t <= x
    BY <2>1, <1>0 DEF NewestOf
  <2>3. s \in of
    <3>1. of \in SUBSET Sessions
      OBVIOUS
    <3> HIDE DEF of
    <3> QED
      BY <2>2, <3>1, Newest
  <2> QED
    BY <1>0, <2>3 DEF Anonymous
<1> QED
  BY <1>1, <1>2, <1>3

LEMMA BeginTurnQuiet ==
    ASSUME IInv, NEW c \in Clients, NEW s \in Sessions, NEW conv \in Convs, NEW user \in Owners,
           BeginTurn(c, s, conv, user)
    PROVE  Quiet(c)
<1> DEFINE j == [Job("catalog", s) EXCEPT !.user = user]
<1>1. j.session = s /\ j.kind = "catalog" /\ j.user = user
  BY DEF Job, NoJob
<1>2. at[c] = "idle" /\ job' = [job EXCEPT ![c] = j] /\ Resolved(conv, user) = s
  BY DEF BeginTurn, Idle
<1> HIDE DEF j
<1>3. UNCHANGED <<row, msgs, bind, saved>> /\ Others(c) /\ at'[c] = "turn" /\ job'[c] = j
  BY <1>2 DEF BeginTurn, Go, storeVars, Others, IInv, TypeOK
<1>4. Exists(s) /\ Mine(s, user)
  BY <1>2, ResolvedExists, ResolvedIsMine DEF IInv
<1> QED
  BY <1>1, <1>2, <1>3, <1>4 DEF Quiet

LEMMA BeginIfNewerQuiet ==
    ASSUME IInv, NEW c \in Clients, NEW s \in Sessions, NEW range \in 1..MaxRange,
           BeginIfNewer(c, s, range)
    PROVE  Quiet(c)
<1> DEFINE j == [Job("newer", s) EXCEPT !.range = range]
<1>1. j.session = s /\ j.range = range
  BY DEF Job, NoJob
<1>2. at[c] = "idle" /\ job' = [job EXCEPT ![c] = j] /\ Exists(s) /\ range > row[s].ctx
  BY DEF BeginIfNewer, Idle, Newer
<1> HIDE DEF j
<1>3. UNCHANGED <<row, msgs, bind, saved>> /\ Others(c) /\ at'[c] = "newer" /\ job'[c] = j
  BY <1>2 DEF BeginIfNewer, Go, storeVars, Others, IInv, TypeOK
<1> QED
  BY <1>1, <1>2, <1>3 DEF Quiet

LEMMA BeginNewQuiet ==
    ASSUME IInv, NEW c \in Clients, NEW r, BeginNew(c, r)
    PROVE  Quiet(c)
<1> DEFINE n == created + 1
           j == [Job("create", n) EXCEPT !.user = r.user]
<1>1. j.session = n
  BY DEF Job, NoJob
<1>2. /\ job' = [job EXCEPT ![c] = j]
      /\ created \in Nat /\ n \in Sessions
  BY SomeSessions DEF BeginNew, IInv, TypeOK, Sessions
<1> HIDE DEF j
<1>3. UNCHANGED <<row, msgs, bind, saved>> /\ Others(c) /\ at'[c] = "new" /\ job'[c] = j
  BY <1>2 DEF BeginNew, Go, Others, IInv, TypeOK
<1>4. ~Exists(n)
  BY <1>2 DEF IInv, Structure, Handed
<1>5. \A d \in Clients : at[d] # "idle" => job[d].session # n
  BY <1>2 DEF IInv, Records, Holds
<1> QED
  BY <1>1, <1>3, <1>4, <1>5 DEF Quiet

LEMMA GiveUpQuiet ==
    ASSUME IInv, NEW c \in Clients, Done(c), UNCHANGED <<storeVars, saved>>
    PROVE  Quiet(c)
<1>1. at'[c] = "idle" /\ Others(c)
  BY DEF Done, Go, Others, IInv, TypeOK
<1> QED
  BY <1>1 DEF Quiet, storeVars

LEMMA BeginCatalogQuiet ==
    ASSUME IInv, NEW c \in Clients, BeginCatalog(c)
    PROVE  Quiet(c)
<1>1. /\ at'[c] = "row" /\ at[c] = "turn" /\ job'[c] = job[c]
      /\ Exists(job[c].session) /\ rec'[c] = row[job[c].session]
      /\ UNCHANGED <<row, msgs, bind, saved>> /\ Others(c)
  BY DEF BeginCatalog, Go, storeVars, Others, IInv, TypeOK
<1> QED
  BY <1>1 DEF Quiet

LEMMA ReadMessagesQuiet ==
    ASSUME IInv, NEW c \in Clients, ReadMessages(c)
    PROVE  Quiet(c)
<1>1. /\ at'[c] = "loaded" /\ at[c] = "row" /\ job'[c] = job[c] /\ rec'[c] = rec[c]
      /\ log'[c] = msgs[job[c].session]
      /\ UNCHANGED <<row, msgs, bind, saved>> /\ Others(c)
  BY DEF ReadMessages, Go, storeVars, Others, IInv, TypeOK
<1> QED
  BY <1>1 DEF Quiet

-----------------------------------------------------------------------------
\* The messages written have all that were read, but the one withdrawn.
In(m, s) == \E i \in 1..Len(s) : s[i] = m

LEMMA WrittenMessages ==
    ASSUME IInv, NEW c \in Clients, at[c] = "loaded",
           job[c].kind = "withdraw" => IsLast(job[c].message, log[c])
    PROVE  /\ job[c].kind = "append" => In(job[c].message, NewLog(c))
           /\ \A m : In(m, log[c]) /\ ~(job[c].kind = "withdraw" /\ m = job[c].message)
                       => In(m, NewLog(c))
<1>1. log[c] \in Seq(Messages) /\ Len(log[c]) \in Nat
  BY DEF IInv, TypeOK
<1>2. CASE job[c].kind = "append"
  <2>1. NewLog(c) = Append(log[c], job[c].message) /\ job[c].message \in Messages
    BY <1>2 DEF NewLog, IInv, Records, Holds
  <2>2. /\ Len(NewLog(c)) = Len(log[c]) + 1
        /\ NewLog(c)[Len(log[c]) + 1] = job[c].message
        /\ \A i \in 1..Len(log[c]) : NewLog(c)[i] = log[c][i]
    BY <1>1, <2>1
  <2> HIDE DEF NewLog
  <2> QED
    BY <1>1, <1>2, <2>2 DEF In
<1>3. CASE job[c].kind = "withdraw"
  <2>1. NewLog(c) = SubSeq(log[c], 1, Len(log[c]) - 1)
    BY <1>3 DEF NewLog
  <2>2. log[c] # <<>> /\ log[c][Len(log[c])] = job[c].message
    BY <1>3 DEF IsLast
  <2>3. Len(log[c]) >= 1
    BY <1>1, <2>2
  <2>4. /\ Len(NewLog(c)) = Len(log[c]) - 1
        /\ \A i \in 1..Len(log[c]) - 1 : NewLog(c)[i] = log[c][i]
    BY <1>1, <2>1, <2>3
  <2> HIDE DEF NewLog
  <2> QED
    BY <1>1, <1>3, <2>2, <2>4 DEF In
<1>4. CASE job[c].kind \notin {"append", "withdraw"}
  BY <1>4 DEF NewLog
<1> QED
  BY <1>2, <1>3, <1>4

\* The client's records of its session's row, of other clients' ones nothing.
LEMMA WriteRecordSettles ==
    ASSUME IInv, IInv', Private, NEW c \in Clients, WriteRecord(c)
    PROVE  Settles
<1> DEFINE s == job[c].session
           a == job[c].message
<1>1. /\ at[c] = "loaded"
      /\ job[c].kind = "withdraw" => IsLast(job[c].message, log[c])
      /\ row' = [row EXCEPT ![s] = NewRec(c)]
      /\ msgs' = [msgs EXCEPT ![s] = NewLog(c)]
      /\ bind' = bind
      /\ at'[c] \in {"idle", "bind"}
      /\ Others(c)
  BY DEF WriteRecord, Done, Go, Others, IInv, TypeOK
<1>2. s \in Sessions /\ rec[c].exists /\ job[c] \in Jobs /\ rec[c] \in Rows
  BY <1>1 DEF IInv, Records, Holds, TypeOK
<1>3. /\ row'[s] = NewRec(c) /\ \A t \in Sessions : t # s => row'[t] = row[t]
      /\ msgs'[s] = NewLog(c) /\ \A t \in Sessions : t # s => msgs'[t] = msgs[t]
  BY <1>1, <1>2 DEF IInv, TypeOK
<1>4. NewRec(c) = Edited(job[c], rec[c])
  BY DEF NewRec, Edited
<1>5. Private'
  <2>1. \A t \in Sessions : Exists(t)' => Exists(t) \/ (at[c] # "idle" /\ s = t)
    BY <1>1, <1>3 DEF Exists
  <2>2. \/ at'[c] = "idle"
        \/ at'[c] # "new" /\ at[c] # "idle" /\ job'[c].session = job[c].session
    BY <1>1 DEF WriteRecord, Done, Go, IInv, TypeOK
  <2> QED
    BY <1>1, <2>1, <2>2, PrivateStep
<1>6. MessageStep
  <2>1. ASSUME NEW p \in saved', p \notin saved
        PROVE  Stored(p)'
    <3>1. p = <<s, a>> /\ job[c].kind = "append"
      BY <2>1 DEF WriteRecord
    <3>2. In(a, NewLog(c))
      BY <1>1, <3>1, WrittenMessages
    <3> QED
      BY <1>3, <3>1, <3>2 DEF Stored, In
  <2>2. ASSUME NEW p \in saved', p \in saved, Seen(p)
        PROVE  Seen(p)'
    <3>1. p[1] \in Sessions
      BY <2>2 DEF IInv, TypeOK
    <3>2. ~(job[c].kind = "withdraw" /\ p = <<s, a>>)
      BY <2>2 DEF WriteRecord
    <3>3. Stored(p)'
      <4>1. CASE p[1] = s
        <5>1. In(p[2], log[c])
          BY <1>1, <2>2, <4>1 DEF Seen, Loaded, In
        <5>2. p = <<p[1], p[2]>>
          BY <2>2 DEF IInv, TypeOK
        <5>3. In(p[2], NewLog(c))
          BY <1>1, <3>2, <4>1, <5>1, <5>2, WrittenMessages
        <5> QED
          BY <1>3, <4>1, <5>3 DEF Stored, In
      <4>2. CASE p[1] # s
        BY <1>3, <2>2, <3>1, <4>2 DEF Seen, Stored
      <4> QED
        BY <4>1, <4>2
    <3>4. ASSUME NEW d \in Clients, Loaded(d, p[1])'
          PROVE  \E i \in 1..Len(log'[d]) : log'[d][i] = p[2]
      BY <1>1, <2>2, <3>4 DEF Seen, Loaded, Others
    <3> QED
      BY <3>3, <3>4 DEF Seen
  <2> QED
    BY <2>1, <2>2 DEF MessageStep
<1>7. BindingStep
  <2> SUFFICES ASSUME NEW conv \in Convs, NEW user \in Owners, bind[<<conv, user>>] # 0,
                      Agreed(conv, user)
               PROVE  Agreed(conv, user)'
    BY <1>1 DEF BindingStep
  <2> DEFINE t == bind[<<conv, user>>]
  <2>1. t \in Sessions
    BY SomeSessions DEF IInv, TypeOK, Keys, Sessions
  <2>2. RowAgrees(conv, user)'
    <3>1. CASE t = s
      <4>1. ~Disputes(c, t, conv, user)
        BY DEF Agreed
      <4>2. NewRec(c).conv = rec[c].conv
            /\ NewRec(c).user = IF job[c].kind = "catalog" THEN job[c].user ELSE rec[c].user
        BY <1>2, <1>4, EditedFields
      <4>3. /\ NewRec(c).conv = conv
            /\ user # NoUser => NewRec(c).user = user
        BY <1>1, <3>1, <4>1, <4>2 DEF Disputes
      <4> HIDE DEF s
      <4> QED
        BY <1>1, <1>3, <3>1, <4>3 DEF RowAgrees
    <3>2. CASE t # s
      <4> HIDE DEF s
      <4> QED
        BY <1>1, <1>3, <2>1, <3>2 DEF RowAgrees, Agreed
    <3> QED
      BY <3>1, <3>2
  <2>3. ASSUME NEW d \in Clients
        PROVE  ~Disputes(d, t, conv, user)'
    BY <1>1 DEF Agreed, Disputes, Others
  <2> QED
    BY <1>1, <2>2, <2>3 DEF Agreed
<1>8. ContextStep
  <2> SUFFICES ASSUME NEW t \in Sessions, NEW r \in 1..MaxRange, Kept(t, r)
               PROVE  Kept(t, r)'
    BY DEF ContextStep
  <2>1. row'[t].exists /\ row'[t].ctx >= r
    <3>1. CASE t = s
      <4>1. NewRec(c).ctx >= r
        BY <1>1, <3>1 DEF Kept
      <4>2. NewRec(c).exists
        BY <1>2, <1>4, EditedFields
      <4> QED
        BY <1>3, <3>1, <4>1, <4>2
    <3>2. CASE t # s
      BY <1>3, <3>2 DEF Kept, Exists
    <3> QED
      BY <3>1, <3>2
  <2>2. ASSUME NEW d \in Clients, job'[d].session = t
        PROVE  /\ at'[d] \in {"row", "loaded"} => NewRec(d)'.ctx >= r
               /\ at'[d] = "newer" => job'[d].range >= r
    <3>1. d # c => NewRec(d)' = NewRec(d)
      BY <1>1 DEF NewRec, Others
    <3> QED
      BY <1>1, <2>2, <3>1 DEF Others, Kept
  <2> QED
    BY <2>1, <2>2 DEF Kept, Exists
<1> QED
  BY <1>5, <1>6, <1>7, <1>8 DEF Settles

\* No binding leads to the session of a record still to be written, and nothing
\* is known of its messages or context.
LEMMA WriteNewSettles ==
    ASSUME IInv, IInv', Private, NEW c \in Clients, WriteNew(c)
    PROVE  Settles
<1> DEFINE s == job[c].session
<1>1. /\ at[c] = "new" /\ at'[c] = "bind" /\ job' = job /\ rec' = rec /\ log' = log
      /\ row' = [row EXCEPT ![s] = rec[c]]
      /\ UNCHANGED <<msgs, bind, saved>>
      /\ Others(c)
  BY DEF WriteNew, Go, Others, IInv, TypeOK
<1>2. s \in Sessions /\ ~Exists(s)
  BY <1>1 DEF IInv, Records, Holds, Private
<1>3. \A t \in Sessions : t # s => row'[t] = row[t]
  BY <1>1, <1>2 DEF IInv, TypeOK
<1>4. Private'
  <2>1. \A t \in Sessions : Exists(t)' => Exists(t) \/ (at[c] # "idle" /\ s = t)
    BY <1>1, <1>3 DEF Exists
  <2> QED
    BY <1>1, <2>1, PrivateStep
<1>5. MessageStep
  BY <1>1 DEF MessageStep, Seen, Stored, Loaded, Others
<1>6. BindingStep
  <2> SUFFICES ASSUME NEW conv \in Convs, NEW user \in Owners, Agreed(conv, user)
               PROVE  Agreed(conv, user)'
    BY <1>1 DEF BindingStep
  <2> DEFINE t == bind[<<conv, user>>]
  <2>1. t # 0 /\ <<conv, user>> \in Keys
    BY DEF Agreed, RowAgrees, Keys
  <2>2. t \in Sessions /\ Exists(t)
    BY <2>1, SomeSessions DEF IInv, TypeOK, Structure, BoundSessionExists, Sessions
  <2>3. row'[t] = row[t]
    BY <1>2, <1>3, <2>2
  <2>4. RowAgrees(conv, user)'
    BY <1>1, <2>3 DEF Agreed, RowAgrees
  <2>5. ASSUME NEW d \in Clients
        PROVE  ~Disputes(d, t, conv, user)'
    BY <1>1 DEF Agreed, Disputes, Others
  <2> QED
    BY <1>1, <2>4, <2>5 DEF Agreed
<1>7. ContextStep
  <2> SUFFICES ASSUME NEW t \in Sessions, NEW r \in 1..MaxRange, Kept(t, r)
               PROVE  Kept(t, r)'
    BY DEF ContextStep
  <2>1. row'[t] = row[t]
    BY <1>2, <1>3 DEF Kept
  <2>2. ASSUME NEW d \in Clients, job'[d].session = t
        PROVE  /\ at'[d] \in {"row", "loaded"} => NewRec(d)'.ctx >= r
               /\ at'[d] = "newer" => job'[d].range >= r
    <3>1. NewRec(d)' = NewRec(d)
      BY <1>1 DEF NewRec
    <3> QED
      BY <1>1, <2>2, <3>1 DEF Others, Kept
  <2> QED
    BY <2>1, <2>2 DEF Kept, Exists
<1> QED
  BY <1>4, <1>5, <1>6, <1>7 DEF Settles

\* bind_conversation, by a client that is idle after it as any other is where
\* it was.
LEMMA BindSettles ==
    ASSUME IInv, IInv', Private, NEW c \in Clients, NEW conv \in Convs, NEW user \in Owners,
           NEW s \in Sessions, Exists(s), BindTo(conv, user, s), UNCHANGED <<msgs, saved>>,
           Others(c), at'[c] = "idle"
    PROVE  Settles
<1> DEFINE owner == IF user = NoUser THEN row[s].user ELSE user
           moved == Rebound(conv, user, s)
<1>1. row[s] \in LiveRows
  BY LiveRow DEF IInv, TypeOK, Exists
<1>2. row' = [row EXCEPT ![s] = [row[s] EXCEPT !.conv = conv, !.user = owner]]
  BY DEF BindTo, IInv, TypeOK
<1>3. /\ row'[s].conv = conv /\ row'[s].user = owner
      /\ row'[s].exists = row[s].exists /\ row'[s].ctx = row[s].ctx
      /\ \A t \in Sessions : t # s => row'[t] = row[t]
  BY <1>1, <1>2 DEF IInv, TypeOK, LiveRows
<1>4. bind' = moved
  BY DEF BindTo
<1>5. Private'
  <2>1. \A t \in Sessions : Exists(t)' => Exists(t)
    BY <1>3 DEF Exists
  <2> QED
    BY <2>1, PrivateStep
<1>6. MessageStep
  BY DEF MessageStep, Seen, Stored, Loaded, Others
<1>7. BindingStep
  <2> SUFFICES ASSUME NEW cv \in Convs, NEW us \in Owners, moved[<<cv, us>>] # 0
               PROVE  IF moved[<<cv, us>>] # bind[<<cv, us>>] THEN RowAgrees(cv, us)'
                      ELSE Agreed(cv, us) => Agreed(cv, us)'
    BY <1>4 DEF BindingStep
  <2> DEFINE k == <<cv, us>>
  <2>0. k \in Keys
    BY DEF Keys
  <2>1. \/ k = <<conv, user>> /\ moved[k] = s
        \/ k # <<conv, user>> /\ moved[k] = bind[k] /\ bind[k] # s
    BY <2>0, Moved
  <2>2. CASE k = <<conv, user>>
    <3>1. cv = conv /\ us = user /\ moved[k] = s
      BY <2>1, <2>2
    <3>2. bind'[<<cv, us>>] = s /\ s # 0
      BY <1>4, <3>1, SomeSessions DEF Sessions
    <3>3. RowAgrees(cv, us)'
      BY <1>3, <3>1, <3>2 DEF RowAgrees
    <3>4. ASSUME Agreed(cv, us), bind[k] = s, NEW d \in Clients
          PROVE  ~Disputes(d, s, cv, us)'
      BY <3>4 DEF Agreed, Disputes, Others
    <3> QED
      BY <3>1, <3>2, <3>3, <3>4 DEF Agreed
  <2>3. CASE k # <<conv, user>>
    <3>1. moved[k] = bind[k] /\ bind[k] # s
      BY <2>1, <2>3
    <3>2. bind[k] \in Sessions /\ bind'[<<cv, us>>] = bind[<<cv, us>>]
      BY <1>4, <2>0, <3>1, SomeSessions DEF IInv, TypeOK, Sessions
    <3>3. row'[bind[k]] = row[bind[k]]
      BY <1>3, <3>1, <3>2
    <3>4. ASSUME Agreed(cv, us), NEW d \in Clients
          PROVE  ~Disputes(d, bind[k], cv, us)'
      BY <3>2, <3>4 DEF Agreed, Disputes, Others
    <3>5. Agreed(cv, us) => RowAgrees(cv, us)'
      BY <3>2, <3>3 DEF Agreed, RowAgrees
    <3> QED
      BY <3>1, <3>2, <3>4, <3>5 DEF Agreed
  <2> QED
    BY <2>2, <2>3
<1>8. ContextStep
  <2> SUFFICES ASSUME NEW t \in Sessions, NEW r \in 1..MaxRange, Kept(t, r)
               PROVE  Kept(t, r)'
    BY DEF ContextStep
  <2>1. row'[t].exists /\ row'[t].ctx >= r
    BY <1>3 DEF Kept, Exists
  <2>2. ASSUME NEW d \in Clients, job'[d].session = t
        PROVE  /\ at'[d] \in {"row", "loaded"} => NewRec(d)'.ctx >= r
               /\ at'[d] = "newer" => job'[d].range >= r
    <3>1. d # c => NewRec(d)' = NewRec(d)
      BY DEF NewRec, Others
    <3> QED
      BY <2>2, <3>1 DEF Others, Kept
  <2> QED
    BY <2>1, <2>2 DEF Kept, Exists
<1> QED
  BY <1>5, <1>6, <1>7, <1>8 DEF Settles

LEMMA UpdateContextSettles ==
    ASSUME IInv, IInv', Private, NEW c \in Clients, UpdateContext(c)
    PROVE  Settles
<1> DEFINE s == job[c].session
<1>1. /\ at[c] = "newer" /\ at'[c] = "idle"
      /\ row' = IF Exists(s) THEN [row EXCEPT ![s].ctx = job[c].range] ELSE row
      /\ UNCHANGED <<msgs, bind, saved>>
      /\ Others(c)
  BY DEF UpdateContext, Done, Go, Others, IInv, TypeOK
<1>2. s \in Sessions
  BY <1>1 DEF IInv, Records, Holds
<1>3. \A t \in Sessions :
        /\ row'[t].exists = row[t].exists /\ row'[t].conv = row[t].conv
        /\ row'[t].user = row[t].user
        /\ row'[t].ctx = IF Exists(t) /\ t = s THEN job[c].range ELSE row[t].ctx
  <2>1. CASE Exists(s)
    <3>1. row[s] \in LiveRows
      BY <1>2, <2>1, LiveRow DEF IInv, TypeOK, Exists
    <3>2. row' = [row EXCEPT ![s] = [row[s] EXCEPT !.ctx = job[c].range]]
      BY <1>1, <2>1
    <3> HIDE DEF s
    <3> QED
      BY <1>2, <2>1, <3>1, <3>2 DEF IInv, TypeOK, LiveRows
  <2>2. CASE ~Exists(s)
    BY <1>1, <2>2
  <2> QED
    BY <2>1, <2>2
<1>4. Private'
  <2>1. \A t \in Sessions : Exists(t)' => Exists(t)
    BY <1>3 DEF Exists
  <2> QED
    BY <1>1, <2>1, PrivateStep
<1>5. MessageStep
  BY <1>1 DEF MessageStep, Seen, Stored, Loaded, Others
<1>6. BindingStep
  <2> SUFFICES ASSUME NEW conv \in Convs, NEW user \in Owners, Agreed(conv, user)
               PROVE  Agreed(conv, user)'
    BY <1>1 DEF BindingStep
  <2> DEFINE t == bind[<<conv, user>>]
  <2>1. t \in Sessions
    BY SomeSessions DEF Agreed, RowAgrees, IInv, TypeOK, Keys, Sessions
  <2>2. RowAgrees(conv, user)'
    BY <1>1, <1>3, <2>1 DEF Agreed, RowAgrees
  <2>3. ASSUME NEW d \in Clients
        PROVE  ~Disputes(d, t, conv, user)'
    BY <1>1 DEF Agreed, Disputes, Others
  <2> QED
    BY <1>1, <2>2, <2>3 DEF Agreed
<1>7. ContextStep
  <2> SUFFICES ASSUME NEW t \in Sessions, NEW r \in 1..MaxRange, Kept(t, r)
               PROVE  Kept(t, r)'
    BY DEF ContextStep
  <2>1. row'[t].exists /\ row'[t].ctx >= r
    BY <1>1, <1>3 DEF Kept, Exists
  <2>2. ASSUME NEW d \in Clients, job'[d].session = t
        PROVE  /\ at'[d] \in {"row", "loaded"} => NewRec(d)'.ctx >= r
               /\ at'[d] = "newer" => job'[d].range >= r
    <3>1. d # c => NewRec(d)' = NewRec(d)
      BY <1>1 DEF NewRec, Others
    <3> QED
      BY <1>1, <2>2, <3>1 DEF Others, Kept
  <2> QED
    BY <2>1, <2>2 DEF Kept, Exists
<1> QED
  BY <1>4, <1>5, <1>6, <1>7 DEF Settles

\* A deletion takes the bindings and the acknowledged messages along.
LEMMA DeleteSettles ==
    ASSUME IInv, Private, NEW d \in SUBSET Sessions, DeleteAll(d)
    PROVE  Settles
<1>1. /\ \A s \in Sessions : /\ s \in d => ~row'[s].exists
                             /\ s \notin d => row'[s] = row[s] /\ msgs'[s] = msgs[s]
      /\ \A k \in Keys : bind'[k] = IF bind[k] \in d THEN 0 ELSE bind[k]
      /\ saved' = {p \in saved : p[1] \notin d}
      /\ UNCHANGED <<at, job, rec, log>>
  BY NoThings DEF DeleteAll, clientVars
<1>2. Private'
  BY <1>1 DEF Private, Exists, IInv, Records, Holds
<1>3. MessageStep
  BY <1>1 DEF MessageStep, Seen, Stored, Loaded, IInv, TypeOK
<1>4. BindingStep
  <2> SUFFICES ASSUME NEW conv \in Convs, NEW user \in Owners, bind'[<<conv, user>>] # 0
               PROVE  /\ bind'[<<conv, user>>] = bind[<<conv, user>>]
                      /\ Agreed(conv, user) => Agreed(conv, user)'
    BY DEF BindingStep
  <2>1. bind'[<<conv, user>>] = bind[<<conv, user>>] /\ bind[<<conv, user>>] \notin d
    BY <1>1 DEF Keys
  <2>2. bind[<<conv, user>>] \in Sessions
    BY <2>1, SomeSessions DEF IInv, TypeOK, Keys, Sessions
  <2>3. Agreed(conv, user) => RowAgrees(conv, user)'
    BY <1>1, <2>1, <2>2 DEF Agreed, RowAgrees
  <2>4. \A c \in Clients : Agreed(conv, user) => ~Disputes(c, bind[<<conv, user>>], conv, user)'
    BY <1>1, <2>1 DEF Agreed, Disputes
  <2> QED
    BY <2>1, <2>3, <2>4 DEF Agreed
<1>5. ContextStep
  <2> SUFFICES ASSUME NEW s \in Sessions, NEW r \in 1..MaxRange, Kept(s, r), s \notin d
               PROVE  Kept(s, r)'
    BY <1>1 DEF ContextStep, Exists
  <2>1. row'[s] = row[s]
    BY <1>1
  <2>2. \A c \in Clients : NewRec(c)' = NewRec(c)
    BY <1>1 DEF NewRec
  <2> QED
    BY <1>1, <2>1, <2>2 DEF Kept, Exists
<1> QED
  BY <1>2, <1>3, <1>4, <1>5 DEF Settles

LEMMA NextSettles == IInv /\ Private /\ [Next]_vars => Private' /\ [Settles]_vars
<1> SUFFICES ASSUME IInv, Private, [Next]_vars
             PROVE  Private' /\ [Settles]_vars
  OBVIOUS
<1>1. CASE UNCHANGED vars
  BY <1>1 DEF vars, storeVars, clientVars, Private, Exists
<1>2. CASE Next
  <2>0. IInv'
    BY NextInv
  <2> SUFFICES Settles
    BY DEF Settles
  <2> PICK c \in Clients :
        \/ Begin(c)
        \/ \E s \in Sessions, conv \in Convs, user \in Owners : BeginTurn(c, s, conv, user)
        \/ BeginCatalog(c)
        \/ ReadMessages(c)
        \/ NothingToRemove(c)
        \/ WriteRecord(c)
        \/ WriteRefused(c)
        \/ \E conv \in Convs, user \in Owners : BeginCreate(c, conv, user)
        \/ \E parent \in Sessions, conv \in Convs : BeginChild(c, parent, conv)
        \/ WriteNew(c)
        \/ BindNew(c)
        \/ SessionGone(c)
        \/ \E conv \in Convs, user \in Owners, s \in Sessions : Resume(c, conv, user, s)
        \/ \E s \in Sessions, range \in 1..MaxRange : BeginIfNewer(c, s, range)
        \/ UpdateContext(c)
        \/ \E s \in Sessions : Delete(c, s)
        \/ \E inactive \in SUBSET Sessions : Prune(c, inactive)
    BY <1>2 DEF Next
  <2>1. CASE Quiet(c)
    BY <2>0, <2>1, QuietSettles
  <2>2. Begin(c) \/ BeginCatalog(c) \/ ReadMessages(c) => Quiet(c)
    BY BeginQuiet, BeginCatalogQuiet, ReadMessagesQuiet
  <2>3. NothingToRemove(c) \/ WriteRefused(c) \/ SessionGone(c) => Quiet(c)
    BY GiveUpQuiet DEF NothingToRemove, WriteRefused, SessionGone
  <2>4. (\E s \in Sessions, conv \in Convs, user \in Owners : BeginTurn(c, s, conv, user))
          => Quiet(c)
    BY BeginTurnQuiet
  <2>5. (\E s \in Sessions, range \in 1..MaxRange : BeginIfNewer(c, s, range)) => Quiet(c)
    BY BeginIfNewerQuiet
  <2>6. (\E conv \in Convs, user \in Owners : BeginCreate(c, conv, user)) => Quiet(c)
    BY BeginNewQuiet DEF BeginCreate
  <2>7. (\E parent \in Sessions, conv \in Convs : BeginChild(c, parent, conv)) => Quiet(c)
    BY BeginNewQuiet DEF BeginChild
  <2>8. CASE WriteRecord(c)
    BY <2>0, <2>8, WriteRecordSettles
  <2>9. CASE WriteNew(c)
    BY <2>0, <2>9, WriteNewSettles
  <2>10. CASE BindNew(c)
    <3>1. /\ Exists(job[c].session) /\ BindTo(rec[c].conv, job[c].user, job[c].session)
          /\ UNCHANGED <<msgs, saved>> /\ Others(c) /\ at'[c] = "idle" /\ at[c] = "bind"
      BY <2>10 DEF BindNew, Done, Go, Others, IInv, TypeOK
    <3>2. rec[c] \in LiveRows /\ job[c].session \in Sessions
      BY <3>1, LiveRow DEF IInv, Records, Holds, TypeOK
    <3>3. rec[c].conv \in Convs /\ job[c].user \in Owners
      BY <3>2 DEF LiveRows, IInv, TypeOK, Jobs
    <3> QED
      BY <2>0, <3>1, <3>2, <3>3, BindSettles
  <2>11. ASSUME NEW conv \in Convs, NEW user \in Owners, NEW s \in Sessions, Resume(c, conv, user, s)
         PROVE  Settles
    <3>1. /\ Exists(s) /\ BindTo(conv, user, s)
          /\ UNCHANGED <<msgs, saved>> /\ Others(c) /\ at'[c] = "idle"
      BY <2>11 DEF Resume, Idle, clientVars, Others
    <3> QED
      BY <2>0, <3>1, BindSettles
  <2>12. CASE UpdateContext(c)
    BY <2>0, <2>12, UpdateContextSettles
  <2>13. ASSUME NEW s \in Sessions, Delete(c, s)
         PROVE  Settles
    <3>1. Lineage(s) \in SUBSET Sessions
      BY DEF Lineage
    <3> QED
      BY <2>13, <3>1, DeleteSettles DEF Delete
  <2>14. ASSUME NEW inactive \in SUBSET Sessions, Prune(c, inactive)
         PROVE  Settles
    <3> DEFINE d == inactive \ Ancestors({s \in Sessions \ inactive : Exists(s)})
    <3>1. d \in SUBSET Sessions /\ DeleteAll(d)
      BY <2>14 DEF Prune
    <3> HIDE DEF d
    <3> QED
      BY <3>1, DeleteSettles
  <2> QED
    BY <2>1, <2>2, <2>3, <2>4, <2>5, <2>6, <2>7, <2>8, <2>9, <2>10, <2>11, <2>12, <2>13,
       <2>14
<1> QED
  BY <1>1, <1>2

LEMMA SettlesAlways == Spec => [][Settles]_vars
<1>1. Init => Private
  BY DEF Init, Private
<1> QED
  BY <1>1, NextSettles, Invariance, PTL DEF Spec

-----------------------------------------------------------------------------
\* A message that every client at work has seen is removed by no call but its
\* own withdrawal and deletion, whatever any number of clients do between the
\* statements of their calls.
THEOREM MessagesStay == Spec => MessagesSettle
<1>1. [Settles]_vars => [MessageStep]_vars
  BY DEF Settles
<1> QED
  BY <1>1, SettlesAlways, PTL DEF MessagesSettle, MessageStep

\* A new binding has a row that says the same, and does so until it changes,
\* once no client is at work that was called for anything else.
THEOREM BindingsMatchRows == Spec => BindingsSettle
<1>1. [Settles]_vars => [BindingStep]_vars
  BY DEF Settles
<1> QED
  BY <1>1, SettlesAlways, PTL DEF BindingsSettle, BindingStep

\* A compacted range that every client at work knows is replaced by newer ones
\* only, but for set_compacted_context.
THEOREM ContextMovesForward == Spec => ContextSettles
<1>1. [Settles]_vars => [ContextStep]_vars
  BY DEF Settles
<1> QED
  BY <1>1, SettlesAlways, PTL DEF ContextSettles, ContextStep

-----------------------------------------------------------------------------
(* Scheduled jobs, for any contents and any number of turns.                 *)

Words == Contents \union Configured \union {"none", "review"}
Prints == {<<>>} \union {Fingerprint(a, c) : a \in Agents, c \in Words}
JobRows == [agent : Agents, content : Words, enabled : BOOLEAN, internal : BOOLEAN, print : Prints]
Wishes ==
  [kind : {"none", "register", "update", "pause", "resume", "delete"},
   id : Ids \union {"none"}, content : Words, read : JobRows]

\* A row has no fingerprint, or the one of its own agent and content.
Sound(j) == j.print \in {<<>>, Fingerprint(j.agent, j.content)}

\* JobRows are sound even in an old table; the service gives them the new name.
JobsSound ==
  /\ jobs \in [Ids -> JobRows]
  /\ \A id \in Ids : Sound(jobs[id])
  /\ running => \A id \in Ids : jobs[id].agent = "main"

\* What a call has read has the new name, and what it is to change is a job.
CallsSound ==
  /\ running \in BOOLEAN
  /\ doing \in [Turns -> {"idle", "save", "get", "delete"}]
  /\ wanted \in [Turns -> Wishes]
  /\ \A t \in Turns : wanted[t].read.agent = "main"
  /\ \A t \in Turns : doing[t] # "idle" => wanted[t].id \in Ids

JobsInv == JobsSound /\ CallsSound

-----------------------------------------------------------------------------
(* What the helpers make of a row.                                           *)

\* A row that is not there is a sound one.
LEMMA NoJobIsRow == AbsentJob \in JobRows /\ Sound(AbsentJob) /\ AbsentJob.agent = "main"
BY DEF AbsentJob, JobRows, Words, Prints, Agents, Sound

\* AutomationJob's own values make a sound row with the new name.
LEMMA CanonicalIsSound ==
  ASSUME NEW j \in JobRows, Sound(j)
  PROVE  /\ Canonical(j) \in JobRows /\ Canonical(j).agent = "main"
         /\ Canonical(j).content = j.content
         /\ Canonical(j).print = Fingerprint("main", j.content) \/ j.agent # "main"
<1> DEFINE p == IF j.print = <<>> THEN Fingerprint("main", j.content) ELSE j.print
<1>1. Canonical(j) = [j EXCEPT !.agent = "main", !.print = p]
  BY DEF Canonical
<1>2. p \in Prints
  BY DEF JobRows, Prints, Agents
<1>3. j.agent = "main" => p = Fingerprint("main", j.content)
  BY DEF Sound
<1> HIDE DEF p
<1> QED
  BY <1>1, <1>2, <1>3 DEF JobRows, Agents

\* A new job has the fingerprint of its content.
LEMMA MadeIsSound ==
  ASSUME NEW c \in Words, NEW internal \in BOOLEAN
  PROVE  Made(c, internal) \in JobRows /\ Sound(Made(c, internal)) /\ Made(c, internal).agent = "main"
<1> DEFINE j == [AbsentJob EXCEPT !.content = c, !.enabled = TRUE, !.internal = internal]
<1>1. j \in JobRows /\ Sound(j) /\ j.agent = "main" /\ j.content = c
  <2>1. AbsentJob \in JobRows /\ AbsentJob.agent = "main" /\ AbsentJob.print = <<>>
    BY NoJobIsRow DEF AbsentJob
  <2>2. j \in JobRows /\ j.agent = AbsentJob.agent /\ j.print = AbsentJob.print /\ j.content = c
    BY <2>1 DEF JobRows
  <2> HIDE DEF j
  <2> QED
    BY <2>1, <2>2 DEF Sound
<1>2. Made(c, internal) = Canonical(j)
  BY DEF Made
<1> HIDE DEF j
<1>3. /\ Canonical(j) \in JobRows /\ Canonical(j).agent = "main"
      /\ Canonical(j).content = c /\ Canonical(j).print = Fingerprint("main", c)
  BY <1>1, CanonicalIsSound
<1> QED
  BY <1>2, <1>3 DEF Sound

\* Migration gives an old row the new name, and nothing else changes.
LEMMA MigratedIsSound ==
  ASSUME NEW j \in JobRows, Sound(j)
  PROVE  Migrated(j) \in JobRows /\ Sound(Migrated(j)) /\ Migrated(j).agent = "main"
<1> DEFINE p == Fingerprint("main", j.content)
<1>1. p \in Prints
  BY DEF JobRows, Prints, Agents
<1>2. CASE j.agent = "assistant"
  <2>1. Migrated(j) = [j EXCEPT !.agent = "main", !.print = p]
    BY <1>2 DEF Migrated
  <2>2. Fingerprint(Migrated(j).agent, Migrated(j).content) = p
    BY <2>1 DEF JobRows
  <2> HIDE DEF p
  <2> QED
    BY <1>1, <2>1, <2>2 DEF Sound, JobRows, Agents
<1>3. CASE j.agent # "assistant"
  BY <1>3 DEF Migrated, JobRows, Agents
<1> QED
  BY <1>2, <1>3

-----------------------------------------------------------------------------
\* An old table is sound, whatever version wrote it.
LEMMA InitSound == AutomationInit => JobsInv
<1> SUFFICES ASSUME AutomationInit PROVE JobsInv
  OBVIOUS
<1>1. PICK old \in OldRows : jobs = [id \in Ids |-> IF id = "other" THEN old ELSE AbsentJob]
  BY DEF AutomationInit
<1>2. old \in JobRows /\ Sound(old)
  <2>1. CASE old = AbsentJob
    BY <2>1, NoJobIsRow
  <2>2. CASE old # AbsentJob
    <3>1. PICK agent \in Agents, content \in Contents, on \in BOOLEAN, print \in BOOLEAN :
            old = [agent |-> agent, content |-> content, enabled |-> on, internal |-> FALSE,
                   print |-> IF print THEN Fingerprint(agent, content) ELSE <<>>]
      BY <1>1, <2>2 DEF OldRows
    <3> QED
      BY <3>1 DEF JobRows, Words, Prints, Sound
  <2> QED
    BY <2>1, <2>2
<1>3. JobsSound
  BY <1>1, <1>2, NoJobIsRow DEF JobsSound, AutomationInit
<1>4. NoRequest \in Wishes /\ NoRequest.read.agent = "main"
  BY NoJobIsRow DEF NoRequest, Wishes, Words
<1> QED
  BY <1>3, <1>4 DEF JobsInv, CallsSound, AutomationInit

\* A start migrates, and saves the configured and the internal job.
LEMMA StartSound == ASSUME JobsInv, Start PROVE JobsInv'
<1>1. PICK content \in Configured :
        jobs' = [id \in Ids |->
                  CASE id = "configured" -> Made(content, FALSE)
                    [] id = "internal" /\ ~HasJob(id) -> Made("review", TRUE)
                    [] OTHER -> Migrated(jobs[id])]
  BY DEF Start
<1>2. \A id \in Ids : jobs'[id] \in JobRows /\ Sound(jobs'[id]) /\ jobs'[id].agent = "main"
  <2> TAKE id \in Ids
  <2>1. CASE id = "configured"
    BY <1>1, <2>1, MadeIsSound DEF Words
  <2>2. CASE id = "internal" /\ ~HasJob(id)
    BY <1>1, <2>2, MadeIsSound DEF Words
  <2>3. CASE id # "configured" /\ ~(id = "internal" /\ ~HasJob(id))
    <3>1. jobs'[id] = Migrated(jobs[id])
      BY <1>1, <2>3
    <3>2. jobs[id] \in JobRows /\ Sound(jobs[id])
      BY DEF JobsInv, JobsSound
    <3> QED
      BY <3>1, <3>2, MigratedIsSound
  <2> QED
    BY <2>1, <2>2, <2>3
<1>3. JobsSound'
  BY <1>1, <1>2 DEF JobsSound
<1> QED
  BY <1>3 DEF JobsInv, CallsSound, Start

\* A stop forgets the calls and keeps the table.
LEMMA StopSound == ASSUME JobsInv, Stop PROVE JobsInv'
<1>1. NoRequest \in Wishes /\ NoRequest.read.agent = "main"
  BY NoJobIsRow DEF NoRequest, Wishes, Words
<1>2. JobsSound'
  BY DEF JobsInv, JobsSound, Stop
<1> QED
  BY <1>1, <1>2 DEF JobsInv, CallsSound, Stop

\* A call begins with a request about a job.
LEMMA BeginSound ==
  ASSUME JobsInv, NEW t \in Turns, NEW r \in Wishes, r.id \in Ids, r.read.agent = "main",
         BeginCall(t, r), NEW step \in {"save", "get", "delete"}, GoOn(t, step)
  PROVE  JobsInv'
<1>1. JobsSound'
  BY DEF JobsInv, JobsSound, BeginCall
<1> QED
  BY <1>1 DEF JobsInv, CallsSound, BeginCall, GoOn

\* A call ends.
LEMMA OverSound ==
  ASSUME JobsInv, NEW t \in Turns, Over(t), UNCHANGED running
  PROVE  CallsSound'
<1>1. NoRequest \in Wishes /\ NoRequest.read.agent = "main"
  BY NoJobIsRow DEF NoRequest, Wishes, Words
<1> QED
  BY <1>1 DEF JobsInv, CallsSound, Over, GoOn

\* A row written whole replaces one row.
LEMMA WriteSound ==
  ASSUME JobsInv, UNCHANGED running, NEW id, NEW j \in JobRows, Sound(j), j.agent = "main",
         jobs' = [jobs EXCEPT ![id] = j]
  PROVE  JobsSound'
BY DEF JobsInv, JobsSound

\* The request that a call of the tool makes.
LEMMA RequestIsWish ==
  ASSUME NEW k \in {"register", "update", "pause", "resume", "delete"}, NEW id \in Ids,
         NEW c \in Words
  PROVE  LET r == [NoRequest EXCEPT !.kind = k, !.id = id, !.content = c]
         IN  r \in Wishes /\ r.id \in Ids /\ r.read.agent = "main"
BY NoJobIsRow DEF NoRequest, Wishes

-----------------------------------------------------------------------------
LEMMA RegisterSound ==
  ASSUME JobsInv, NEW t \in Turns, NEW id \in Ids, NEW a \in Agents, NEW c \in Contents,
         Register(t, id, a, c)
  PROVE  JobsInv'
<1>1. c \in Words
  BY DEF Words
<1>2. BeginCall(t, [NoRequest EXCEPT !.kind = "register", !.id = id, !.content = c]) /\ GoOn(t, "save")
  BY DEF Register
<1> QED
  BY <1>1, <1>2, RequestIsWish, BeginSound

LEMMA ChangeSound ==
  ASSUME JobsInv, NEW t \in Turns, NEW id \in Ids, NEW k \in {"update", "pause", "resume"},
         NEW c \in Words, Change(t, k, id, c)
  PROVE  JobsInv'
<1>1. BeginCall(t, [NoRequest EXCEPT !.kind = k, !.id = id, !.content = c]) /\ GoOn(t, "get")
  BY DEF Change
<1> QED
  BY <1>1, RequestIsWish, BeginSound

LEMMA DeleteSound ==
  ASSUME JobsInv, NEW t \in Turns, NEW id \in Ids, DeleteJob(t, id)
  PROVE  JobsInv'
<1> DEFINE r == [NoRequest EXCEPT !.kind = "delete", !.id = id]
<1>1. r \in Wishes /\ r.id \in Ids /\ r.read.agent = "main"
  BY NoJobIsRow DEF NoRequest, Wishes, Words
<1>2. BeginCall(t, r) /\ GoOn(t, "delete")
  BY DEF DeleteJob
<1> QED
  BY <1>1, <1>2, BeginSound

LEMMA GetSound ==
  ASSUME JobsInv, NEW t \in Turns, Get(t)
  PROVE  JobsInv'
<1> DEFINE id == wanted[t].id
           j == Canonical(jobs[id])
<1>1. id \in Ids
  BY DEF Get, JobsInv, CallsSound
<1>2. jobs[id] \in JobRows /\ Sound(jobs[id])
  BY <1>1 DEF JobsInv, JobsSound
<1>3. j \in JobRows /\ j.agent = "main"
  BY <1>2, CanonicalIsSound
<1>4. wanted' = [wanted EXCEPT ![t].read = j] /\ GoOn(t, "save") /\ UNCHANGED <<jobs, running>>
  BY DEF Get, Read
<1> HIDE DEF j
<1>5. wanted' \in [Turns -> Wishes]
  BY <1>3, <1>4 DEF JobsInv, CallsSound, Wishes
<1>6. \A u \in Turns : wanted'[u].read.agent = "main" /\ wanted'[u].id = wanted[u].id
  BY <1>3, <1>4 DEF JobsInv, CallsSound, Wishes
<1>7. CallsSound'
  BY <1>1, <1>4, <1>5, <1>6 DEF JobsInv, CallsSound, GoOn
<1> QED
  BY <1>4, <1>7 DEF JobsInv, JobsSound

LEMMA SaveRegisteredSound ==
  ASSUME JobsInv, NEW t \in Turns, SaveRegistered(t)
  PROVE  JobsInv'
<1> DEFINE j == Made(wanted[t].content, FALSE)
<1>1. wanted[t].content \in Words
  BY DEF JobsInv, CallsSound, Wishes
<1>2. j \in JobRows /\ Sound(j) /\ j.agent = "main"
  BY <1>1, MadeIsSound
<1>3. jobs' = [jobs EXCEPT ![wanted[t].id] = j] /\ Over(t) /\ UNCHANGED running
  BY DEF SaveRegistered
<1> HIDE DEF j
<1> QED
  BY <1>2, <1>3, WriteSound, OverSound DEF JobsInv

\* update, pause and resume change a row that had the new name, and give it the
\* fingerprint of what it is now.
LEMMA SaveChangedSound ==
  ASSUME JobsInv, NEW t \in Turns, SaveChanged(t)
  PROVE  JobsInv'
<1> DEFINE w == wanted[t]
           changed == CASE w.kind = "update" -> [w.read EXCEPT !.content = w.content]
                        [] w.kind = "pause" -> [w.read EXCEPT !.enabled = FALSE]
                        [] w.kind = "resume" -> [w.read EXCEPT !.enabled = TRUE]
           j == WithFingerprint(changed)
<1>1. w.kind \in {"update", "pause", "resume"}
      /\ jobs' = [jobs EXCEPT ![w.id] = j] /\ Over(t) /\ UNCHANGED running
  BY DEF SaveChanged
<1>2. w.read \in JobRows /\ w.content \in Words /\ w.read.agent = "main"
  BY DEF JobsInv, CallsSound, Wishes
<1>3. changed \in JobRows /\ changed.agent = "main"
  BY <1>1, <1>2 DEF JobRows
<1> HIDE DEF changed
<1>4. Fingerprint(changed.agent, changed.content) \in Prints
  BY <1>3 DEF Prints, JobRows
<1>5. j \in JobRows /\ Sound(j) /\ j.agent = "main"
  BY <1>3, <1>4 DEF WithFingerprint, Sound, JobRows
<1> HIDE DEF j
<1> QED
  BY <1>1, <1>5, WriteSound, OverSound DEF JobsInv

LEMMA DeleteRowSound ==
  ASSUME JobsInv, NEW t \in Turns, DeleteRow(t)
  PROVE  JobsInv'
BY NoJobIsRow, WriteSound, OverSound DEF DeleteRow, JobsInv

LEMMA MissingSound ==
  ASSUME JobsInv, NEW t \in Turns, Missing(t)
  PROVE  JobsInv'
<1>1. JobsSound'
  BY DEF Missing, JobsInv, JobsSound
<1> QED
  BY <1>1, OverSound DEF Missing, JobsInv

\* Every step keeps the rows sound.
LEMMA StepSound == JobsInv /\ [AutomationNext]_automationVars => JobsInv'
<1> SUFFICES ASSUME JobsInv, [AutomationNext]_automationVars PROVE JobsInv'
  OBVIOUS
<1>1. CASE Start
  BY <1>1, StartSound
<1>2. CASE Stop
  BY <1>2, StopSound
<1>3. ASSUME NEW t \in Turns,
             \E id \in Ids, a \in Agents, c \in Contents : Register(t, id, a, c)
      PROVE  JobsInv'
  BY <1>3, RegisterSound
<1>4. ASSUME NEW t \in Turns,
             \E id \in Ids, k \in {"pause", "resume"} : Change(t, k, id, "none")
      PROVE  JobsInv'
  BY <1>4, ChangeSound DEF Words
<1>5. ASSUME NEW t \in Turns, \E id \in Ids, c \in Contents : Change(t, "update", id, c)
      PROVE  JobsInv'
  BY <1>5, ChangeSound DEF Words
<1>6. ASSUME NEW t \in Turns, \E id \in Ids : DeleteJob(t, id) PROVE JobsInv'
  BY <1>6, DeleteSound
<1>7. ASSUME NEW t \in Turns,
             SaveRegistered(t) \/ Get(t) \/ Missing(t) \/ SaveChanged(t) \/ DeleteRow(t)
      PROVE  JobsInv'
  BY <1>7, SaveRegisteredSound, GetSound, MissingSound, SaveChangedSound, DeleteRowSound
<1>8. CASE UNCHANGED automationVars
  BY <1>8 DEF automationVars, JobsInv, JobsSound, CallsSound
<1> QED
  BY <1>1, <1>2, <1>3, <1>4, <1>5, <1>6, <1>7, <1>8 DEF AutomationNext

\* While the service runs, what a job is found by is the fingerprint of what it
\* does: old rows are migrated by the start, and every way a row is written, the
\* tool's whole-row updates of jobs read long ago included, makes it anew
\* (_init_schema, AutomationJob.model_post_init, AutomationStore.update).
THEOREM JobsAreFoundByWhatTheyDo == AutomationInit /\ [][AutomationNext]_automationVars => []FingerprintTells
<1>1. JobsInv => FingerprintTells
  <2> SUFFICES ASSUME JobsInv, running, NEW id \in Ids
               PROVE  Read(id).print = Fingerprint("main", Read(id).content)
    BY DEF FingerprintTells
  <2>1. jobs[id] \in JobRows /\ Sound(jobs[id]) /\ jobs[id].agent = "main"
    BY DEF JobsInv, JobsSound
  <2> QED
    BY <2>1, CanonicalIsSound DEF Read
<1> QED
  BY InitSound, StepSound, <1>1, PTL

-----------------------------------------------------------------------------
(* The memory.                                                              *)

Smaller == {mn \in Nat \X Nat : mn[1] < mn[2]}

\* A set of numbers that is not empty has a least one.
LEMMA LeastNumber ==
    ASSUME NEW N \in SUBSET Nat, N # {}
    PROVE  \E n \in N : \A m \in N : n <= m
<1>1. IsWellFoundedOn(Smaller, Nat)
  BY NatLessThanWellFounded DEF OpToRel, Smaller
<1>2. PICK n \in N : \A m \in N : <<m, n>> \notin Smaller
  BY <1>1, WFMin
<1>3. ASSUME NEW m \in N PROVE n <= m
  <2>1. m \in Nat /\ n \in Nat
    OBVIOUS
  <2>2. m < n => <<m, n>> \in Smaller
    BY <2>1 DEF Smaller
  <2> QED
    BY <1>2, <2>1, <2>2
<1> QED
  BY <1>3

\* A finite set that is ordered somehow has a first element: the one with the
\* fewest before it.
LEMMA FirstOfOrder ==
    ASSUME NEW S, IsFiniteSet(S), S # {}, NEW R,
           \A i \in S : <<i, i>> \notin R,
           \A i, j, k \in S : <<i, j>> \in R /\ <<j, k>> \in R => <<i, k>> \in R
    PROVE  \E i \in S : \A j \in S : <<j, i>> \notin R
<1> DEFINE Below(i) == {j \in S : <<j, i>> \in R}
           Counts == {Cardinality(Below(i)) : i \in S}
<1>1. \A i \in S : IsFiniteSet(Below(i)) /\ Cardinality(Below(i)) \in Nat
  BY FS_Subset, FS_CardinalityType
<1>2. PICK i \in S : \A j \in S : Cardinality(Below(i)) <= Cardinality(Below(j))
  <2> HIDE DEF Below
  <2>1. Counts \in SUBSET Nat /\ Counts # {}
    BY <1>1
  <2>2. PICK n \in Counts : \A m \in Counts : n <= m
    BY <2>1, LeastNumber
  <2> QED
    BY <2>2
<1>3. ASSUME NEW j \in S, <<j, i>> \in R PROVE FALSE
  <2>1. Below(j) \in SUBSET Below(i) /\ j \in Below(i) /\ j \notin Below(j)
    BY <1>3
  <2>2. /\ Cardinality(Below(j)) <= Cardinality(Below(i))
        /\ Cardinality(Below(i)) = Cardinality(Below(j)) => Below(i) = Below(j)
    BY <1>1, <2>1, FS_Subset
  <2>3. Cardinality(Below(i)) = Cardinality(Below(j))
    <3> HIDE DEF Below
    <3> QED
      BY <1>1, <1>2, <2>2
  <2> QED
    BY <2>1, <2>2, <2>3
<1> QED
  BY <1>3

-----------------------------------------------------------------------------
(* The choice within the budget.                                            *)

ItemRecords ==
    [status : {"active", "superseded", "deleted"}, user : People, place : Places, type : Types,
     priority : Nat, length : Nat]

ItemsTyped == item \in Seq(ItemRecords)

\* What is written is finite, and has numbers in it.
LEMMA WrittenFinite ==
    ASSUME ItemsTyped
    PROVE  /\ IsFiniteSet(Written) /\ Written \subseteq Nat
           /\ \A i \in Written : item[i].priority \in Nat /\ item[i].length \in Nat
<1>1. Written = 1 .. Len(item) /\ Len(item) \in Nat
  BY DEF ItemsTyped, Written
<1>2. \A i \in Written : item[i] \in ItemRecords
  BY DEF ItemsTyped, Written
<1>3. IsFiniteSet(Written)
  BY <1>1, FS_Interval
<1> QED
  BY <1>1, <1>2, <1>3 DEF ItemRecords

\* Candidates are in a total order, whatever was found.
LEMMA AheadIsOrder ==
    ASSUME ItemsTyped, NEW found, NEW i \in Written, NEW j \in Written
    PROVE  /\ ~Ahead(found, i, i)
           /\ ~(Ahead(found, i, j) /\ Ahead(found, j, i))
           /\ i # j => Ahead(found, i, j) \/ Ahead(found, j, i)
           /\ \A k \in Written : Ahead(found, i, j) /\ Ahead(found, j, k) => Ahead(found, i, k)
<1>1. i \in Nat /\ j \in Nat /\ item[i].priority \in Nat /\ item[j].priority \in Nat
  BY WrittenFinite
<1>2. \A k \in Written : k \in Nat /\ item[k].priority \in Nat
  BY WrittenFinite
<1>3. i # j => Ahead(found, i, j) \/ Ahead(found, j, i)
  BY <1>1 DEF Ahead
<1>4. ~Ahead(found, i, i)
  BY <1>1 DEF Ahead
<1>5. ~(Ahead(found, i, j) /\ Ahead(found, j, i))
  BY <1>1 DEF Ahead
<1>6. ASSUME NEW k \in Written, Ahead(found, i, j), Ahead(found, j, k) PROVE Ahead(found, i, k)
  BY <1>1, <1>2, <1>6 DEF Ahead
<1> QED
  BY <1>3, <1>4, <1>5, <1>6

\* Of candidates there is a first and a last.
LEMMA FirstAndLast ==
    ASSUME ItemsTyped, NEW found, NEW S \in SUBSET Written, S # {}
    PROVE  /\ \E i \in S : \A j \in S \ {i} : Ahead(found, i, j)
           /\ \E i \in S : \A j \in S \ {i} : Ahead(found, j, i)
<1> DEFINE R == {p \in S \X S : Ahead(found, p[1], p[2])}
           B == {p \in S \X S : Ahead(found, p[2], p[1])}
<1>1. IsFiniteSet(S)
  BY WrittenFinite, FS_Subset
<1>2. \A i, j \in S : (<<i, j>> \in R <=> Ahead(found, i, j)) /\ (<<i, j>> \in B <=> Ahead(found, j, i))
  OBVIOUS
<1> HIDE DEF R, B
<1>3. \A i, j, k \in S :
         /\ ~Ahead(found, i, i)
         /\ i # j => Ahead(found, i, j) \/ Ahead(found, j, i)
         /\ Ahead(found, i, j) /\ Ahead(found, j, k) => Ahead(found, i, k)
  BY AheadIsOrder
<1>4. \E i \in S : \A j \in S : <<j, i>> \notin R
  <2>1. \A i \in S : <<i, i>> \notin R
    BY <1>2, <1>3
  <2>2. \A i, j, k \in S : <<i, j>> \in R /\ <<j, k>> \in R => <<i, k>> \in R
    BY <1>2, <1>3
  <2> QED
    BY <1>1, <2>1, <2>2, FirstOfOrder
<1>5. \E i \in S : \A j \in S : <<j, i>> \notin B
  <2>1. \A i \in S : <<i, i>> \notin B
    BY <1>2, <1>3
  <2>2. \A i, j, k \in S : <<i, j>> \in B /\ <<j, k>> \in B => <<i, k>> \in B
    BY <1>2, <1>3
  <2> QED
    BY <1>1, <2>1, <2>2, FirstOfOrder
<1> QED
  BY <1>2, <1>3, <1>4, <1>5

\* A text is finite.
LEMMA CharactersFinite ==
    ASSUME ItemsTyped, NEW S \in SUBSET Written
    PROVE  IsFiniteSet(Characters(S)) /\ Cardinality(Characters(S)) \in Nat
<1> DEFINE line == [i \in S |-> {i} \X (0 .. item[i].length)]
           all == {line[i] : i \in S}
<1>1. IsFiniteSet(S)
  BY WrittenFinite, FS_Subset
<1>2. IsFiniteSet(all)
  <2>1. line \in Surjection(S, all)
    BY DEF Surjection
  <2> QED
    BY <1>1, <2>1, FS_Surjection
<1>3. \A L \in all : IsFiniteSet(L)
  <2> SUFFICES ASSUME NEW i \in S PROVE IsFiniteSet({i} \X (0 .. item[i].length))
    OBVIOUS
  <2>1. PICK n \in Nat : n = item[i].length
    BY WrittenFinite
  <2>2. IsFiniteSet({i})
    BY FS_Singleton
  <2>3. IsFiniteSet(0 .. n)
    BY FS_Interval
  <2> QED
    BY <2>1, <2>2, <2>3, FS_Product
<1>4. Characters(S) = UNION all
  BY DEF Characters
<1>5. IsFiniteSet(Characters(S))
  BY <1>2, <1>3, <1>4, FS_UNION
<1> QED
  BY <1>5, FS_CardinalityType

\* What is counted while lines are taken is what the text is long.
LEMMA LinesAreText ==
    ASSUME ItemsTyped, NEW found, NEW S \in SUBSET Written, S # {}
    PROVE  Cardinality(Lines(found, S)) = Cardinality(Characters(S)) - 1
<1>1. PICK f \in S : \A j \in S \ {f} : Ahead(found, f, j)
  BY FirstAndLast
<1> DEFINE before(i) == {j \in S : Ahead(found, j, i)}
<1>2. ASSUME NEW i \in S
      PROVE  Cardinality(before(i)) = 0 <=> i = f
  <2>1. IsFiniteSet(before(i))
    BY WrittenFinite, FS_Subset
  <2>2. Cardinality(before(i)) = 0 <=> before(i) = {}
    BY <2>1, FS_EmptySet
  <2>3. before(f) = {}
    BY <1>1, AheadIsOrder
  <2>4. i # f => f \in before(i)
    BY <1>1
  <2> QED
    BY <2>2, <2>3, <2>4
<1>3. ASSUME NEW i \in S
      PROVE  TextOf(i, Cardinality(before(i))) = ({i} \X (0 .. item[i].length)) \ {<<f, 0>>}
  <2>1. item[i].length \in Nat
    BY WrittenFinite
  <2>2. CASE i = f
    <3>1. TextOf(i, Cardinality(before(i))) = {i} \X (1 .. item[i].length)
      BY <1>2, <2>2 DEF TextOf
    <3>2. (0 .. item[i].length) \ {0} = 1 .. item[i].length
      BY <2>1
    <3>3. {i} \X (1 .. item[i].length) = ({i} \X (0 .. item[i].length)) \ {<<i, 0>>}
      BY <3>2
    <3> QED
      BY <3>1, <3>3, <2>2
  <2>3. CASE i # f
    <3>1. TextOf(i, Cardinality(before(i))) = {i} \X (0 .. item[i].length)
      BY <1>2, <2>3 DEF TextOf
    <3>2. <<f, 0>> \notin {i} \X (0 .. item[i].length)
      BY <2>3
    <3> QED
      BY <3>1, <3>2
  <2> QED
    BY <2>2, <2>3
<1>4. Lines(found, S) = Characters(S) \ {<<f, 0>>}
  <2>1. Lines(found, S) = UNION {TextOf(i, Cardinality(before(i))) : i \in S}
    BY DEF Lines
  <2>2. Lines(found, S) = UNION {({i} \X (0 .. item[i].length)) \ {<<f, 0>>} : i \in S}
    <3> HIDE DEF before
    <3> QED
      BY <2>1, <1>3
  <2> QED
    BY <2>2 DEF Characters
<1>5. <<f, 0>> \in Characters(S)
  <2>1. 0 \in 0 .. item[f].length
    BY WrittenFinite
  <2>2. <<f, 0>> \in {f} \X (0 .. item[f].length)
    BY <2>1
  <2> QED
    BY <2>2 DEF Characters
<1>6. PICK C : C = Characters(S)
  OBVIOUS
<1>7. IsFiniteSet(C) /\ <<f, 0>> \in C
  BY <1>5, <1>6, CharactersFinite
<1>8. Cardinality(C \ {<<f, 0>>}) = Cardinality(C) - 1
  BY <1>7, FS_RemoveElement
<1> QED
  BY <1>4, <1>6, <1>8

\* However the candidates are ordered, what is taken keeps to the budget and
\* leaves nothing out that would fit.
LEMMA SelectionIsFull ==
    ASSUME ItemsTyped, NEW all \in SUBSET Written, NEW found, NEW S \in Selections(found, all)
    PROVE  /\ S \subseteq all
           /\ Length(S) <= Budget \/ S = {}
           /\ \A i \in all \ S : Length(S \union {i}) > Budget
<1> USE MemoryAssumption
<1>1. /\ S \subseteq all
      /\ \A i \in all : i \in S <=> Fits(found, {j \in S : Ahead(found, j, i)} \union {i})
  BY DEF Selections
<1>2. ASSUME S # {} PROVE Length(S) <= Budget
  <2>1. PICK i \in S : \A j \in S \ {i} : Ahead(found, j, i)
    BY <1>1, <1>2, FirstAndLast
  <2>2. {j \in S : Ahead(found, j, i)} \union {i} = S
    BY <2>1
  <2>3. Header + Cardinality(Lines(found, S)) <= Budget
    BY <1>1, <2>2 DEF Fits
  <2> QED
    BY <1>1, <1>2, <2>3, LinesAreText DEF Length
<1>3. ASSUME NEW i \in all \ S PROVE Length(S \union {i}) > Budget
  <2> DEFINE some == {j \in S : Ahead(found, j, i)} \union {i}
  <2>1. ~(Header + Cardinality(Lines(found, some)) <= Budget)
    BY <1>1 DEF Fits
  <2>2. some \in SUBSET Written /\ some # {} /\ S \union {i} \in SUBSET Written /\ some \subseteq S \union {i}
    BY <1>1
  <2>3. Characters(some) \subseteq Characters(S \union {i})
    <3> HIDE DEF some
    <3> QED
      BY <2>2 DEF Characters
  <2> HIDE DEF some
  <2>4. Cardinality(Lines(found, some)) = Cardinality(Characters(some)) - 1
    BY <2>2, LinesAreText
  <2>5. /\ Cardinality(Characters(some)) \in Nat /\ Cardinality(Characters(S \union {i})) \in Nat
        /\ Cardinality(Characters(some)) <= Cardinality(Characters(S \union {i}))
    BY <2>2, <2>3, CharactersFinite, FS_Subset
  <2>6. Length(S \union {i}) = Header + (Cardinality(Characters(S \union {i})) - 1)
    BY DEF Length
  <2> QED
    BY <2>1, <2>4, <2>5, <2>6
<1> QED
  BY <1>1, <1>2, <1>3
-----------------------------------------------------------------------------
(* What is kept while calls write.                                          *)

Steps == {"idle", "entries", "targets", "save", "list", "search", "answer"}

CallRecords ==
    [kind : {"none", "append", "replace", "rest", "delete"}, user : People \cup {"none"},
     place : Places \cup {"none"}, type : Types \cup {"none"}, priority : Nat,
     entries : Seq(Nat), targets : Seq(Nat), read : SUBSET Nat]

MemoryTyped ==
    /\ ItemsTyped
    /\ here \in [Callers -> Steps]
    /\ call \in [Callers -> CallRecords]
    /\ shown \in [Callers -> [from : SUBSET Nat, chosen : SUBSET Nat]]

\* Two texts of one user, place and type.
Kin(a, b) == a.user = b.user /\ a.place = b.place /\ a.type = b.type

\* A newer text of its place and type has been written.
Succeeded(i) == \E j \in Written : j > i /\ Kin(item[j], item[i])

\* Whatever is superseded has a successor: not always an active one, which may
\* be superseded or deleted in its turn.
EachSucceeded == \A i \in Written : item[i].status = "superseded" => Succeeded(i)

\* Before its first entry is written a replacement has only texts of its place
\* and type to replace, afterwards only ones that are succeeded; an append has
\* none, and a delete supersedes nothing.
CallSound(c) ==
    /\ call[c].kind \in {"append", "replace", "rest"} =>
          call[c].user \in People /\ call[c].place \in Places /\ call[c].type \in Types
    /\ here[c] = "entries" => call[c].kind \in {"append", "replace", "rest"}
    /\ here[c] = "targets" => call[c].kind \in {"append", "rest", "delete"}
    /\ call[c].kind = "append" => call[c].targets = <<>>
    /\ call[c].kind = "replace" => call[c].entries # <<>>
    /\ \A m \in DOMAIN call[c].targets :
          LET i == call[c].targets[m]
          IN  /\ i \in Written
              /\ call[c].kind = "replace" => Kin(item[i], call[c])
              /\ call[c].kind = "rest" => Succeeded(i)

\* PromptIsFull of one call, whose candidates are there.
ShownSound(c) ==
    /\ shown[c].from \subseteq Written
    /\ here[c] = "answer" =>
          /\ shown[c].chosen \subseteq shown[c].from
          /\ Length(shown[c].chosen) <= Budget \/ shown[c].chosen = {}
          /\ \A i \in shown[c].from \ shown[c].chosen : Length(shown[c].chosen \union {i}) > Budget

MemoryInv ==
    MemoryTyped /\ EachSucceeded /\ \A c \in Callers : CallSound(c) /\ ShownSound(c)

\* What every statement does to the items: texts stay what they are, and none is
\* newly superseded without a successor.
SameText(a, b) == Kin(a, b) /\ a.priority = b.priority /\ a.length = b.length
Grows ==
    /\ item' \in Seq(ItemRecords)
    /\ \A i \in Written : i \in DOMAIN item' /\ SameText(item'[i], item[i])
    /\ \A i \in DOMAIN item' :
          item'[i].status = "superseded" =>
             \/ i \in Written /\ item[i].status = "superseded"
             \/ Succeeded(i)'

LEMMA GrowthKeeps ==
    ASSUME MemoryInv, Grows
    PROVE  /\ ItemsTyped' /\ EachSucceeded' /\ Written \subseteq Written'
           /\ \A i \in Written : Succeeded(i) => Succeeded(i)'
<1>1. Written \subseteq Written'
  BY DEF Grows, Written
<1>2. ASSUME NEW i \in Written, Succeeded(i) PROVE Succeeded(i)'
  <2>1. PICK j \in Written : j > i /\ Kin(item[j], item[i])
    BY <1>2 DEF Succeeded
  <2>2. SameText(item'[i], item[i]) /\ SameText(item'[j], item[j])
    BY DEF Grows
  <2>3. Kin(item'[j], item'[i])
    BY <2>1, <2>2 DEF SameText, Kin
  <2> QED
    BY <1>1, <2>1, <2>3 DEF Succeeded
<1>3. EachSucceeded'
  <2> SUFFICES ASSUME NEW i \in DOMAIN item', item'[i].status = "superseded"
               PROVE  Succeeded(i)'
    BY DEF EachSucceeded, Written
  <2>1. i \in Written /\ item[i].status = "superseded" => Succeeded(i)
    BY DEF MemoryInv, EachSucceeded
  <2> QED
    BY <1>2, <2>1 DEF Grows
<1> QED
  BY <1>1, <1>2, <1>3 DEF Grows, ItemsTyped

\* A prompt is as long as it was.
LEMMA LengthKept ==
    ASSUME Grows, NEW S \in SUBSET Written
    PROVE  Length(S)' = Length(S)
<1>1. \A i \in S : item'[i].length = item[i].length
  BY DEF Grows, SameText
<1>2. Characters(S)' = Characters(S)
  BY <1>1 DEF Characters
<1> QED
  BY <1>2 DEF Length

\* A call is what it was, but for the document it has read.
SameCall(a, b) ==
    /\ a.kind = b.kind /\ a.user = b.user /\ a.place = b.place /\ a.type = b.type
    /\ a.entries = b.entries /\ a.targets = b.targets

LEMMA CallKept ==
    ASSUME MemoryInv, Grows, NEW c \in Callers, SameCall(call'[c], call[c]),
           here'[c] \in {"entries", "targets"} => here'[c] = here[c]
    PROVE  CallSound(c)'
<1> USE DEF MemoryInv, CallSound
<1>1. ASSUME NEW m \in DOMAIN call[c].targets
      PROVE  \E i \in Written :
               /\ i = call[c].targets[m] /\ i \in Written'
               /\ call[c].kind = "replace" => Kin(item'[i], call[c])
               /\ call[c].kind = "rest" => Succeeded(i)'
  <2>1. PICK i \in Written : i = call[c].targets[m]
    OBVIOUS
  <2>2. /\ call[c].kind = "replace" => Kin(item[i], call[c])
        /\ call[c].kind = "rest" => Succeeded(i)
    BY <2>1
  <2>3. SameText(item'[i], item[i])
    BY DEF Grows
  <2>4. call[c].kind = "replace" => Kin(item'[i], call[c])
    BY <2>2, <2>3 DEF SameText, Kin
  <2>5. i \in Written' /\ (Succeeded(i) => Succeeded(i)')
    BY GrowthKeeps
  <2> QED
    BY <2>1, <2>2, <2>4, <2>5
<1>2. ASSUME NEW m \in DOMAIN call'[c].targets
      PROVE  /\ call'[c].targets[m] \in Written'
             /\ call'[c].kind = "replace" => Kin(item'[call'[c].targets[m]], call'[c])
             /\ call'[c].kind = "rest" => Succeeded(call[c].targets[m])'
  <2>1. call'[c].targets = call[c].targets /\ call'[c].kind = call[c].kind
    BY DEF SameCall
  <2>2. PICK i \in Written :
               /\ i = call[c].targets[m] /\ i \in Written'
               /\ call[c].kind = "replace" => Kin(item'[i], call[c])
               /\ call[c].kind = "rest" => Succeeded(i)'
    BY <1>1, <2>1
  <2>3. i = call'[c].targets[m]
    BY <2>1, <2>2
  <2>4. call[c].kind = "replace" => Kin(item'[i], call'[c])
    BY <2>2 DEF SameCall, Kin
  <2> QED
    BY <2>1, <2>2, <2>3, <2>4
<1> QED
  BY <1>2 DEF SameCall

LEMMA ShownKept ==
    ASSUME MemoryInv, Grows, NEW c \in Callers, shown'[c] = shown[c],
           here'[c] = "answer" => here[c] = "answer"
    PROVE  ShownSound(c)'
<1> USE DEF MemoryInv, ShownSound
<1>1. PICK from \in SUBSET Written : from = shown[c].from
  OBVIOUS
<1>2. PICK chosen : chosen = shown[c].chosen
  OBVIOUS
<1>3. from \subseteq Written'
  BY GrowthKeeps
<1>4. ASSUME here'[c] = "answer"
      PROVE  /\ chosen \subseteq from
             /\ Length(chosen)' <= Budget \/ chosen = {}
             /\ \A i \in from \ chosen : Length(chosen \union {i})' > Budget
  <2>1. /\ chosen \subseteq from
        /\ Length(chosen) <= Budget \/ chosen = {}
        /\ \A i \in from \ chosen : Length(chosen \union {i}) > Budget
    BY <1>1, <1>2, <1>4
  <2>2. Length(chosen)' = Length(chosen)
    BY <2>1, LengthKept
  <2>3. \A i \in from \ chosen : Length(chosen \union {i})' = Length(chosen \union {i})
    BY <2>1, LengthKept
  <2> QED
    BY <2>1, <2>2, <2>3
<1>5. shown'[c].from = from /\ shown'[c].chosen = chosen
  BY <1>1, <1>2
<1> QED
  BY <1>3, <1>4, <1>5
-----------------------------------------------------------------------------
(* The statements.                                                          *)

LEMMA NothingGrows ==
    ASSUME MemoryInv, item' = item
    PROVE  Grows
<1>1. \A i \in DOMAIN item : item[i].status = "superseded" => i \in Written
  BY DEF Written
<1> QED
  BY <1>1 DEF Grows, MemoryInv, MemoryTyped, ItemsTyped, Written, SameText, Kin

WithStatus(i, st) == [item EXCEPT ![i].status = st]

\* A status is written and nothing else.
LEMMA Marked ==
    ASSUME ItemsTyped, NEW i \in Written, NEW st \in {"active", "superseded", "deleted"},
           NEW after, after = WithStatus(i, st)
    PROVE  /\ after \in Seq(ItemRecords) /\ Len(after) = Len(item)
           /\ DOMAIN after = Written /\ after[i].status = st
           /\ \A j \in Written : SameText(after[j], item[j])
           /\ \A j \in Written \ {i} : after[j].status = item[j].status
<1>1. PICK n \in Nat : n = Len(item) /\ Written = 1 .. n /\ item \in [1 .. n -> ItemRecords]
  BY DEF ItemsTyped, Written
<1>2. [item[i] EXCEPT !.status = st] \in ItemRecords
  BY <1>1 DEF ItemRecords
<1>3. after = [item EXCEPT ![i] = [item[i] EXCEPT !.status = st]]
  BY DEF WithStatus
<1>4. after \in [1 .. n -> ItemRecords]
  BY <1>1, <1>2, <1>3
<1>5. after[i] = [item[i] EXCEPT !.status = st] /\ \A j \in Written \ {i} : after[j] = item[j]
  BY <1>1, <1>3
<1>6. after[i].status = st /\ SameText(after[i], item[i])
  BY <1>1, <1>5 DEF ItemRecords, SameText, Kin
<1>7. after \in Seq(ItemRecords) /\ Len(after) = n
  BY ONLY n \in Nat, <1>4
<1>8. \A j \in Written : SameText(after[j], item[j])
  BY <1>5, <1>6 DEF SameText, Kin
<1> QED
  BY <1>1, <1>4, <1>5, <1>6, <1>7, <1>8

LEMMA MarkingGrows ==
    ASSUME MemoryInv, NEW i \in Written, NEW st \in {"superseded", "deleted"},
           item' = [item EXCEPT ![i].status = st], st = "superseded" => Succeeded(i)
    PROVE  Grows
<1>1. PICK after : after = item'
  OBVIOUS
<1>2. ItemsTyped
  BY DEF MemoryInv, MemoryTyped
<1>3. /\ after \in Seq(ItemRecords)
      /\ DOMAIN after = Written /\ after[i].status = st
      /\ \A j \in Written : SameText(after[j], item[j])
      /\ \A j \in Written \ {i} : after[j].status = item[j].status
  <2>1. after = WithStatus(i, st) /\ st \in {"active", "superseded", "deleted"}
    BY <1>1 DEF WithStatus
  <2> QED
    BY ONLY ItemsTyped, i \in Written, <1>2, <2>1, Marked
<1>4. ASSUME st = "superseded" PROVE Succeeded(i)'
  <2>1. PICK j \in Written : j > i /\ Kin(item[j], item[i])
    BY <1>4 DEF Succeeded
  <2>2. Kin(after[j], after[i])
    BY <1>3, <2>1 DEF SameText, Kin
  <2> QED
    BY <1>1, <1>3, <2>1, <2>2 DEF Succeeded, Written
<1> QED
  BY <1>1, <1>3, <1>4 DEF Grows

\* A text is written behind the others.
LEMMA Appended ==
    ASSUME NEW s \in Seq(ItemRecords), NEW new \in ItemRecords, NEW after, after = Append(s, new)
    PROVE  /\ after \in Seq(ItemRecords)
           /\ DOMAIN after = DOMAIN s \cup {Len(s) + 1}
           /\ after[Len(s) + 1] = new
           /\ \A j \in DOMAIN s : after[j] = s[j] /\ Len(s) + 1 > j
<1>1. after \in Seq(ItemRecords) /\ Len(after) = Len(s) + 1
  OBVIOUS
<1>2. DOMAIN s = 1 .. Len(s) /\ DOMAIN after = 1 .. Len(after) /\ Len(s) \in Nat
  BY <1>1
<1>3. DOMAIN after = DOMAIN s \cup {Len(s) + 1}
  BY <1>1, <1>2
<1>4. \A j \in DOMAIN s : after[j] = s[j] /\ Len(s) + 1 > j
  BY <1>2
<1>5. after[Len(s) + 1] = new
  BY <1>2
<1> QED
  BY <1>1, <1>3, <1>4, <1>5

\* What is new succeeds all there is of its kind.
LEMMA InsertingGrows ==
    ASSUME MemoryInv, NEW new \in ItemRecords, new.status = "active",
           item' = Append(item, new)
    PROVE  Grows
<1>1. PICK after : after = item'
  OBVIOUS
<1>2. item \in Seq(ItemRecords)
  BY DEF MemoryInv, MemoryTyped, ItemsTyped
<1>3. /\ after \in Seq(ItemRecords)
      /\ DOMAIN after = Written \cup {Len(item) + 1}
      /\ after[Len(item) + 1] = new
      /\ \A j \in Written : after[j] = item[j]
  BY <1>1, <1>2, Appended DEF Written
<1> QED
  BY <1>1, <1>3 DEF Grows, SameText, Kin

LEMMA ReplacingGrows ==
    ASSUME MemoryInv, NEW i \in Written, NEW new \in ItemRecords, new.status = "active",
           Kin(item[i], new), item' = Append([item EXCEPT ![i].status = "superseded"], new)
    PROVE  /\ Grows
           /\ \A j \in Written : Kin(item[j], new) => Succeeded(j)'
<1>1. PICK after : after = item'
  OBVIOUS
<1>2. PICK s : s = [item EXCEPT ![i].status = "superseded"]
  OBVIOUS
<1>3. /\ s \in Seq(ItemRecords) /\ DOMAIN s = Written
      /\ \A j \in Written : SameText(s[j], item[j])
      /\ \A j \in Written \ {i} : s[j].status = item[j].status
  <2>1. ItemsTyped /\ s = WithStatus(i, "superseded")
    BY <1>2 DEF MemoryInv, MemoryTyped, WithStatus
  <2> QED
    BY <2>1, Marked
<1>4. /\ after \in Seq(ItemRecords)
      /\ DOMAIN after = Written \cup {Len(s) + 1}
      /\ after[Len(s) + 1] = new
      /\ \A j \in Written : after[j] = s[j] /\ Len(s) + 1 > j
  BY <1>1, <1>2, <1>3, Appended
<1>5. ASSUME NEW j \in Written, Kin(item[j], new) PROVE Succeeded(j)'
  <2>1. Kin(after[Len(s) + 1], after[j])
    BY <1>3, <1>4, <1>5 DEF SameText, Kin
  <2> QED
    BY <1>1, <1>4, <2>1 DEF Succeeded, Written
<1>6. \A j \in DOMAIN after : after[j].status = "superseded" =>
          (j \in Written /\ item[j].status = "superseded") \/ j = i
  BY <1>3, <1>4
<1>7. Succeeded(i)'
  BY <1>5
<1>8. \A j \in Written : SameText(after[j], item[j])
  BY <1>3, <1>4
<1> QED
  BY <1>1, <1>4, <1>5, <1>6, <1>7, <1>8 DEF Grows
-----------------------------------------------------------------------------
(* The calls.                                                               *)

\* A step of one caller keeps the calls of the others, whatever it writes.
LEMMA CallerMoves ==
    ASSUME MemoryInv, Grows, NEW c \in Callers,
           call' \in [Callers -> CallRecords], here' \in [Callers -> Steps],
           shown' \in [Callers -> [from : SUBSET Nat, chosen : SUBSET Nat]],
           \A d \in Callers \ {c} :
               call'[d] = call[d] /\ here'[d] = here[d] /\ shown'[d] = shown[d],
           CallSound(c)', ShownSound(c)'
    PROVE  MemoryInv'
<1>1. ASSUME NEW d \in Callers \ {c} PROVE CallSound(d)' /\ ShownSound(d)'
  <2>1. call'[d] = call[d] /\ here'[d] = here[d] /\ shown'[d] = shown[d]
    OBVIOUS
  <2>2. SameCall(call'[d], call[d])
    BY <2>1 DEF SameCall
  <2> QED
    BY <2>1, <2>2, CallKept, ShownKept
<1> QED
  BY <1>1, GrowthKeeps DEF MemoryInv, MemoryTyped

\* A listing is of what it lists.
LEMMA ListingOf ==
    ASSUME ItemsTyped, NEW S \in SUBSET Written, NEW list \in InOrder(S)
    PROVE  list \in Seq(Nat) /\ \A m \in DOMAIN list : list[m] \in S
<1>1. list \in [1 .. Cardinality(S) -> S]
  BY DEF InOrder, SetToSeqs
<1>2. IsFiniteSet(S) /\ S \subseteq Nat
  BY WrittenFinite, FS_Subset
<1>3. PICK n \in Nat : n = Cardinality(S)
  BY <1>2, FS_CardinalityType
<1>4. list \in [1 .. n -> S]
  BY <1>1, <1>3
<1>5. list \in [1 .. n -> Nat]
  BY <1>2, <1>4
<1>6. list \in Seq(Nat)
  BY ONLY n \in Nat, <1>5
<1> QED
  BY <1>4, <1>6

\* Any call begins with what it is to do, and nothing written.
LEMMA CalledSound ==
    ASSUME MemoryInv, NEW c \in Callers, NEW kind \in {"append", "replace", "delete"},
           NEW u \in People, NEW p \in Places, NEW t \in Types \cup {"none"},
           NEW entries \in Seq(Nat), NEW targets \in Seq(Nat),
           NEW step \in {"entries", "targets"},
           Called(c, kind, u, p, t, entries, targets), GoTo(c, step),
           kind = "delete" <=> step = "targets",
           kind # "delete" => t \in Types,
           kind = "append" => targets = <<>>,
           kind = "replace" => entries # <<>>,
           \A m \in DOMAIN targets : targets[m] \in Written,
           kind = "replace" =>
               \A m \in DOMAIN targets : LET i == targets[m] IN
                   item[i].user = u /\ item[i].place = p /\ item[i].type = t
    PROVE  MemoryInv'
<1>1. PICK priority \in Priorities :
         call' = [call EXCEPT ![c] = [NoCall EXCEPT !.kind = kind, !.user = u, !.place = p, !.type = t,
                    !.priority = priority, !.entries = entries, !.targets = targets]]
  BY DEF Called
<1> DEFINE k == [NoCall EXCEPT !.kind = kind, !.user = u, !.place = p, !.type = t,
                    !.priority = priority, !.entries = entries, !.targets = targets]
<1>2. /\ k.kind = kind /\ k.user = u /\ k.place = p /\ k.type = t
      /\ k.entries = entries /\ k.targets = targets
  BY DEF NoCall
<1>3. k \in CallRecords
  BY MemoryAssumption DEF NoCall, CallRecords
<1> HIDE DEF k
<1>4. call \in [Callers -> CallRecords] /\ here \in [Callers -> Steps]
  BY DEF MemoryInv, MemoryTyped
<1>5. /\ call' \in [Callers -> CallRecords] /\ call'[c] = k
      /\ \A d \in Callers \ {c} : call'[d] = call[d]
  BY <1>1, <1>3, <1>4 DEF k
<1>6. /\ here' \in [Callers -> Steps] /\ here'[c] = step
      /\ \A d \in Callers \ {c} : here'[d] = here[d]
  BY <1>4 DEF GoTo, Steps
<1>7. item' = item /\ shown' = shown
  BY DEF Called
<1>8. Grows
  BY <1>7, NothingGrows
<1>9. CallSound(c)'
  <2>1. \A m \in DOMAIN targets :
          LET i == targets[m] IN i \in Written' /\ (kind = "replace" => Kin(item'[i], k))
    BY <1>2, <1>7 DEF Kin, Written
  <2> QED
    BY <1>2, <1>5, <1>6, <2>1 DEF CallSound
<1>10. ShownSound(c)'
  BY <1>6, <1>7, <1>8, ShownKept
<1> QED
  BY <1>5, <1>6, <1>7, <1>8, <1>9, <1>10, CallerMoves DEF MemoryInv, MemoryTyped
LEMMA AskSound ==
    ASSUME MemoryInv, NEW c \in Callers, Ask(c)
    PROVE  MemoryInv'
<1>1. ItemsTyped /\ Written \subseteq Nat
  BY WrittenFinite DEF MemoryInv, MemoryTyped
<1>2. PICK u \in People, p \in Places :
         \/ \E t \in Types, length \in Lengths : AskAppend(c, u, p, t, length)
         \/ \E t \in Types, es \in Entries : AskReplace(c, u, p, t, es)
         \/ AskDelete(c, u, p)
  BY DEF Ask
<1>3. CASE \E t \in Types, length \in Lengths : AskAppend(c, u, p, t, length)
  <2>1. PICK t \in Types, length \in Lengths : AskAppend(c, u, p, t, length)
    BY <1>3
  <2>2. Called(c, "append", u, p, t, <<length>>, <<>>) /\ GoTo(c, "entries")
    BY <2>1 DEF AskAppend
  <2>3. <<length>> \in Seq(Nat) /\ <<>> \in Seq(Nat)
    BY MemoryAssumption
  <2>4. \A m \in DOMAIN <<>> : FALSE
    OBVIOUS
  <2> QED
    BY <2>2, <2>3, <2>4, CalledSound
<1>4. CASE \E t \in Types, es \in Entries : AskReplace(c, u, p, t, es)
  <2>1. PICK t \in Types, es \in Entries : AskReplace(c, u, p, t, es)
    BY <1>4
  <2>2. PICK targets \in InOrder(Replaced(u, p, t)) \union {<<i>> : i \in Named(u, p, t)} \union {<<>>} :
           Called(c, "replace", u, p, t, es, targets)
    BY <2>1 DEF AskReplace
  <2>3. /\ targets \in Seq(Nat)
        /\ \A m \in DOMAIN targets : targets[m] \in Named(u, p, t)
    <3>1. Replaced(u, p, t) \subseteq Named(u, p, t) /\ Named(u, p, t) \subseteq Written
      BY DEF Replaced, Named, ActiveOf, Active
    <3>2. CASE targets \in InOrder(Replaced(u, p, t))
      <4>1. Replaced(u, p, t) \in SUBSET Written
        BY <3>1
      <4>2. targets \in Seq(Nat) /\ \A m \in DOMAIN targets : targets[m] \in Replaced(u, p, t)
        BY <1>1, <3>2, <4>1, ListingOf
      <4> QED
        BY <3>1, <4>2
    <3>3. CASE targets \in {<<i>> : i \in Named(u, p, t)}
      <4>1. PICK i \in Named(u, p, t) : targets = <<i>>
        BY <3>3
      <4>2. i \in Nat
        BY <1>1, <3>1
      <4>3. targets \in Seq(Nat) /\ DOMAIN targets = {1} /\ targets[1] = i
        BY <4>1, <4>2
      <4> QED
        BY <4>3
    <3>4. CASE targets = <<>>
      BY ONLY <3>4
    <3> QED
      BY <3>2, <3>3, <3>4
  <2>4. es \in Seq(Nat) /\ es # <<>>
    <3>1. PICK n \in 1 .. MaxEntries : es \in [1 .. n -> Lengths]
      BY DEF Entries
    <3>2. n \in Nat /\ n >= 1
      BY <3>1, MemoryAssumption
    <3>3. es \in [1 .. n -> Nat]
      BY <3>1, MemoryAssumption
    <3>4. es \in Seq(Nat) /\ Len(es) = n
      BY ONLY <3>2, <3>3
    <3> QED
      BY <3>2, <3>4
  <2>5. GoTo(c, "entries")
    BY <2>1 DEF AskReplace
  <2>6. \A m \in DOMAIN targets :
          LET i == targets[m]
          IN  i \in Written /\ item[i].user = u /\ item[i].place = p /\ item[i].type = t
    BY <2>3 DEF Named
  <2> QED
    BY <2>2, <2>3, <2>4, <2>5, <2>6, CalledSound
<1>5. CASE AskDelete(c, u, p)
  <2>1. PICK S \in (SUBSET (Active \intersect OfPlace(u, p))) \union {{i} : i \in OfPlace(u, p)} :
           \E targets \in InOrder(S) : Called(c, "delete", u, p, "none", <<>>, targets)
    BY <1>5 DEF AskDelete
  <2>2. PICK targets \in InOrder(S) : Called(c, "delete", u, p, "none", <<>>, targets)
    BY <2>1
  <2>3. S \in SUBSET Written
    <3>1. OfPlace(u, p) \subseteq Written
      BY DEF OfPlace
    <3>2. S \in SUBSET (Active \intersect OfPlace(u, p)) \/ \E i \in OfPlace(u, p) : S = {i}
      OBVIOUS
    <3> QED
      BY <3>1, <3>2
  <2>4. targets \in Seq(Nat) /\ \A m \in DOMAIN targets : targets[m] \in Written
    BY <1>1, <2>3, ListingOf
  <2>5. GoTo(c, "targets") /\ <<>> \in Seq(Nat)
    BY <1>5 DEF AskDelete
  <2> QED
    BY <2>2, <2>4, <2>5, CalledSound
<1> QED
  BY <1>2, <1>3, <1>4, <1>5

\* The first entry replaces a text of its place and type and is the successor of
\* all that are left to supersede; the others are appended.
LEMMA WriteEntrySound ==
    ASSUME MemoryInv, NEW c \in Callers, WriteEntry(c)
    PROVE  MemoryInv'
<1> DEFINE k == call[c]
           new == NewItem(c, k.entries[1])
<1>1. /\ k \in CallRecords /\ call \in [Callers -> CallRecords] /\ here \in [Callers -> Steps]
      /\ shown \in [Callers -> [from : SUBSET Nat, chosen : SUBSET Nat]] /\ CallSound(c)
  BY DEF MemoryInv, MemoryTyped
<1>2. /\ here[c] = "entries" /\ k.entries # <<>> /\ here' = here /\ shown' = shown
      /\ k.kind \in {"append", "replace", "rest"}
      /\ k.user \in People /\ k.place \in Places /\ k.type \in Types
  BY <1>1 DEF WriteEntry, CallSound
<1>3. k.entries \in Seq(Nat) /\ k.targets \in Seq(Nat) /\ k.priority \in Nat
  BY <1>1 DEF CallRecords
<1>4. k.entries[1] \in Nat
  BY <1>2, <1>3
<1>5. new \in ItemRecords /\ new.status = "active" /\ Kin(new, k)
  BY <1>2, <1>3, <1>4 DEF NewItem, ItemRecords, Kin
<1> DEFINE after == [k EXCEPT !.entries = Tail(@), !.kind = IF @ = "replace" THEN "rest" ELSE @,
                              !.targets = IF k.kind = "replace" /\ @ # <<>> THEN Tail(@) ELSE @]
<1>6. call' = [call EXCEPT ![c] = after]
  BY DEF WriteEntry
<1>7. /\ after.kind = (IF k.kind = "replace" THEN "rest" ELSE k.kind)
      /\ after.targets = (IF k.kind = "replace" /\ k.targets # <<>> THEN Tail(k.targets) ELSE k.targets)
      /\ after.user = k.user /\ after.place = k.place /\ after.type = k.type
  BY <1>1 DEF CallRecords
<1>8. after \in CallRecords
  <2>1. Tail(k.entries) \in Seq(Nat) /\ (k.targets # <<>> => Tail(k.targets) \in Seq(Nat))
    BY <1>2, <1>3
  <2> QED
    BY <1>1, <1>2, <2>1 DEF CallRecords
<1>9. /\ call' \in [Callers -> CallRecords] /\ call'[c] = after
      /\ \A d \in Callers \ {c} : call'[d] = call[d]
  BY <1>1, <1>6, <1>8
<1> HIDE DEF after
<1>10. CASE k.kind = "replace" /\ k.targets # <<>>
  <2>1. k.targets[1] \in Written /\ Kin(item[k.targets[1]], k)
    BY <1>1, <1>3, <1>10 DEF CallSound
  <2>2. item' = Append([item EXCEPT ![k.targets[1]].status = "superseded"], new)
    BY <1>10 DEF WriteEntry, SupersedeAndInsert
  <2>3. Kin(item[k.targets[1]], new)
    BY <1>5, <2>1 DEF Kin
  <2>4. Grows /\ \A j \in Written : Kin(item[j], new) => Succeeded(j)'
    <3> HIDE DEF new
    <3> QED
      BY <1>5, <2>1, <2>2, <2>3, ReplacingGrows
  <2>5. ASSUME NEW m \in DOMAIN after.targets
        PROVE  \E i \in Written : i = after.targets[m] /\ i \in Written' /\ Succeeded(i)'
    <3>1. after.targets = Tail(k.targets) /\ m + 1 \in DOMAIN k.targets
            /\ after.targets[m] = k.targets[m + 1]
      BY <1>3, <1>7, <1>10
    <3>2. PICK i \in Written : i = k.targets[m + 1] /\ Kin(item[i], k)
      BY <1>1, <1>10, <3>1 DEF CallSound
    <3>3. Kin(item[i], new)
      BY <1>5, <3>2 DEF Kin
    <3> QED
      BY <2>4, <3>1, <3>2, <3>3, GrowthKeeps
  <2>6. CallSound(c)'
    BY <1>2, <1>7, <1>9, <1>10, <2>5 DEF CallSound
  <2>7. ShownSound(c)'
    BY <1>2, <2>4, ShownKept
  <2> QED
    BY <1>1, <1>2, <1>9, <2>4, <2>6, <2>7, CallerMoves
<1>11. CASE k.targets = <<>> \/ k.kind = "rest"
  <2>1. k.kind = "replace" => k.targets = <<>>
    BY <1>11
  <2>2. item' = Append(item, new)
    BY <1>2, <1>11 DEF WriteEntry, Insert
  <2>3. Grows
    <3> HIDE DEF new
    <3> QED
      BY <1>5, <2>2, InsertingGrows
  <2>4. after.targets = k.targets
    BY <1>7, <2>1
  <2>5. ASSUME NEW m \in DOMAIN after.targets
        PROVE  \E i \in Written : i = after.targets[m] /\ i \in Written' /\ Succeeded(i)'
    <3>1. k.kind = "rest"
      BY <1>11, <2>4
    <3>2. PICK i \in Written : i = k.targets[m] /\ Succeeded(i)
      BY <1>1, <2>4, <3>1 DEF CallSound
    <3> QED
      BY <2>3, <2>4, <3>2, GrowthKeeps
  <2>6. CallSound(c)'
    BY <1>1, <1>2, <1>7, <1>9, <2>4, <2>5 DEF CallSound
  <2>7. ShownSound(c)'
    BY <1>2, <2>3, ShownKept
  <2> QED
    BY <1>1, <1>2, <1>9, <2>3, <2>6, <2>7, CallerMoves
<1> QED
  BY <1>2, <1>10, <1>11 DEF WriteEntry
\* What is superseded has a successor, and a delete does not supersede.
LEMMA WriteTargetSound ==
    ASSUME MemoryInv, NEW c \in Callers, WriteTarget(c)
    PROVE  MemoryInv'
<1> DEFINE k == call[c]
           after == [k EXCEPT !.targets = Tail(@)]
<1>1. /\ k \in CallRecords /\ call \in [Callers -> CallRecords] /\ here \in [Callers -> Steps]
      /\ shown \in [Callers -> [from : SUBSET Nat, chosen : SUBSET Nat]] /\ CallSound(c)
  BY DEF MemoryInv, MemoryTyped
<1>2. here[c] = "targets" /\ k.targets # <<>> /\ here' = here /\ shown' = shown
  BY DEF WriteTarget
<1>3. k.targets \in Seq(Nat) /\ Tail(k.targets) \in Seq(Nat)
  BY <1>1, <1>2 DEF CallRecords
<1>4. call' = [call EXCEPT ![c] = after]
  BY DEF WriteTarget
<1>5. /\ after \in CallRecords /\ after.kind = k.kind /\ after.targets = Tail(k.targets)
      /\ after.user = k.user /\ after.place = k.place /\ after.type = k.type
      /\ after.entries = k.entries
  BY <1>1, <1>3 DEF CallRecords
<1>6. /\ call' \in [Callers -> CallRecords] /\ call'[c] = after
      /\ \A d \in Callers \ {c} : call'[d] = call[d]
  BY <1>1, <1>4, <1>5
<1> HIDE DEF after
<1>7. k.kind \in {"rest", "delete"}
  BY <1>1, <1>2 DEF CallSound
<1>8. 1 \in DOMAIN k.targets
  BY <1>2, <1>3
<1>9. Grows
  <2>1. PICK i \in Written : i = k.targets[1] /\ (k.kind = "rest" => Succeeded(i))
    BY <1>1, <1>8 DEF CallSound
  <2>2. CASE k.kind = "delete"
    <3>1. item' = [item EXCEPT ![i].status = "deleted"]
      BY <2>1, <2>2 DEF WriteTarget, DeleteItem
    <3> QED
      BY <3>1, MarkingGrows
  <2>3. CASE k.kind = "rest"
    <3>1. item' = [item EXCEPT ![i].status = "superseded"]
      BY <2>1, <2>3 DEF WriteTarget, Supersede
    <3> QED
      BY <2>1, <2>3, <3>1, MarkingGrows
  <2> QED
    BY <1>7, <2>2, <2>3
<1>10. ASSUME NEW m \in DOMAIN after.targets
       PROVE  \E i \in Written : /\ i = after.targets[m] /\ i \in Written'
                                 /\ k.kind = "rest" => Succeeded(i)'
  <2>1. m + 1 \in DOMAIN k.targets /\ after.targets[m] = k.targets[m + 1]
    BY <1>3, <1>5, <1>2
  <2>2. PICK i \in Written : i = k.targets[m + 1] /\ (k.kind = "rest" => Succeeded(i))
    BY <1>1, <2>1 DEF CallSound
  <2> QED
    BY <1>9, <2>1, <2>2, GrowthKeeps
<1>11. CallSound(c)'
  BY <1>1, <1>2, <1>5, <1>6, <1>7, <1>10 DEF CallSound
<1>12. ShownSound(c)'
  BY <1>2, <1>9, ShownKept
<1> QED
  BY <1>1, <1>2, <1>6, <1>9, <1>11, <1>12, CallerMoves

\* The steps after the writes change no item.
LEMMA ReadingSound ==
    ASSUME MemoryInv, NEW c \in Callers,
           EntriesWritten(c) \/ ReadDocument(c) \/ WriteExport(c)
    PROVE  MemoryInv'
<1>1. /\ call \in [Callers -> CallRecords] /\ here \in [Callers -> Steps]
      /\ shown \in [Callers -> [from : SUBSET Nat, chosen : SUBSET Nat]]
      /\ CallSound(c) /\ Written \subseteq Nat
  BY WrittenFinite DEF MemoryInv, MemoryTyped
<1>2. item' = item /\ shown' = shown
  BY DEF EntriesWritten, ReadDocument, WriteExport
<1>3. Grows
  BY <1>2, NothingGrows
<1>4. CASE EntriesWritten(c)
  <2>1. /\ call' = call /\ here[c] = "entries" /\ call[c].entries = <<>>
        /\ here' = [here EXCEPT ![c] = "targets"]
    BY <1>4 DEF EntriesWritten, GoTo
  <2>2. here' \in [Callers -> Steps] /\ here'[c] = "targets" /\ \A d \in Callers \ {c} : here'[d] = here[d]
    BY <1>1, <2>1 DEF Steps
  <2>3. CallSound(c)'
    <3>1. call[c].kind \in {"append", "rest"}
      BY <1>1, <2>1 DEF CallSound
    <3> QED
      BY <1>1, <1>2, <2>1, <2>2, <3>1 DEF CallSound, Succeeded, Written
  <2>4. ShownSound(c)'
    BY <1>2, <1>3, <2>2, ShownKept
  <2> QED
    BY <1>1, <1>2, <1>3, <2>1, <2>2, <2>3, <2>4, CallerMoves
<1>5. CASE ReadDocument(c)
  <2>1. /\ call' = [call EXCEPT ![c].read = ActiveOf(call[c].user)]
        /\ here' = [here EXCEPT ![c] = "save"]
    BY <1>5 DEF ReadDocument, GoTo
  <2>2. here' \in [Callers -> Steps] /\ here'[c] = "save" /\ \A d \in Callers \ {c} : here'[d] = here[d]
    BY <1>1, <2>1 DEF Steps
  <2>3. ActiveOf(call[c].user) \subseteq Nat
    BY <1>1 DEF ActiveOf, Active
  <2>4. [call[c] EXCEPT !.read = ActiveOf(call[c].user)] \in CallRecords
    BY <1>1, <2>3 DEF CallRecords
  <2>5. /\ call' \in [Callers -> CallRecords]
        /\ call'[c] = [call[c] EXCEPT !.read = ActiveOf(call[c].user)]
        /\ \A d \in Callers \ {c} : call'[d] = call[d]
    BY <1>1, <2>1, <2>4
  <2>6. SameCall(call'[c], call[c])
    BY <1>1, <2>5 DEF SameCall, CallRecords
  <2>7. CallSound(c)' /\ ShownSound(c)'
    BY <1>2, <1>3, <2>2, <2>6, CallKept, ShownKept
  <2> QED
    BY <1>1, <1>2, <1>3, <2>2, <2>5, <2>7, CallerMoves
<1>6. CASE WriteExport(c)
  <2>1. call' = call /\ here' = [here EXCEPT ![c] = "list"]
    BY <1>6 DEF WriteExport, GoTo
  <2>2. here' \in [Callers -> Steps] /\ here'[c] = "list" /\ \A d \in Callers \ {c} : here'[d] = here[d]
    BY <1>1, <2>1 DEF Steps
  <2>3. SameCall(call'[c], call[c])
    BY <2>1 DEF SameCall
  <2>4. CallSound(c)' /\ ShownSound(c)'
    BY <1>2, <1>3, <2>2, <2>3, CallKept, ShownKept
  <2> QED
    BY <1>1, <1>2, <1>3, <2>1, <2>2, <2>4, CallerMoves
<1> QED
  BY <1>4, <1>5, <1>6

\* Candidates are items, and what is chosen of them is full.
LEMMA LoadingSound ==
    ASSUME MemoryInv, NEW c \in Callers, ListScopes(c) \/ Search(c)
    PROVE  MemoryInv'
<1>1. /\ call \in [Callers -> CallRecords] /\ here \in [Callers -> Steps]
      /\ shown \in [Callers -> [from : SUBSET Nat, chosen : SUBSET Nat]]
      /\ ShownSound(c) /\ ItemsTyped /\ Written \subseteq Nat
  BY WrittenFinite DEF MemoryInv, MemoryTyped
<1>2. item' = item /\ call' = call
  BY DEF ListScopes, Search
<1>3. Grows
  BY <1>2, NothingGrows
<1>4. SameCall(call'[c], call[c])
  BY <1>2 DEF SameCall
<1>5. CASE ListScopes(c)
  <2>1. PICK first : /\ first \subseteq Written
                     /\ shown' = [shown EXCEPT ![c].from = first]
    BY <1>5 DEF ListScopes, ActiveOf, Active
  <2>2. here' = [here EXCEPT ![c] = "search"]
    BY <1>5 DEF ListScopes, GoTo
  <2>3. here' \in [Callers -> Steps] /\ here'[c] = "search" /\ \A d \in Callers \ {c} : here'[d] = here[d]
    BY <1>1, <2>2 DEF Steps
  <2>4. /\ shown' \in [Callers -> [from : SUBSET Nat, chosen : SUBSET Nat]]
        /\ shown'[c].from = first
        /\ \A d \in Callers \ {c} : shown'[d] = shown[d]
    BY <1>1, <2>1
  <2>5. CallSound(c)'
    BY <1>3, <1>4, <2>3, CallKept
  <2>6. ShownSound(c)'
    BY <1>2, <2>1, <2>3, <2>4 DEF ShownSound, Written
  <2> QED
    BY <1>1, <1>2, <1>3, <2>3, <2>4, <2>5, <2>6, CallerMoves
<1>6. CASE Search(c)
  <2>1. PICK found \in SUBSET (index \intersect ActiveOf(call[c].user)) :
           \E S \in Selections(found, shown[c].from \union found) :
             shown' = [shown EXCEPT ![c] = [from |-> shown[c].from \union found, chosen |-> S]]
    BY <1>6 DEF Search
  <2> DEFINE all == shown[c].from \union found
  <2>2. PICK S \in Selections(found, all) :
           shown' = [shown EXCEPT ![c] = [from |-> all, chosen |-> S]]
    BY <2>1
  <2>3. all \in SUBSET Written
    BY <1>1 DEF ShownSound, ActiveOf, Active
  <2> HIDE DEF all
  <2>4. /\ S \subseteq all
        /\ Length(S) <= Budget \/ S = {}
        /\ \A i \in all \ S : Length(S \union {i}) > Budget
    BY <1>1, <2>3, SelectionIsFull
  <2>5. here' = [here EXCEPT ![c] = "answer"]
    BY <1>6 DEF Search, GoTo
  <2>6. here' \in [Callers -> Steps] /\ here'[c] = "answer" /\ \A d \in Callers \ {c} : here'[d] = here[d]
    BY <1>1, <2>5 DEF Steps
  <2>7. /\ shown' \in [Callers -> [from : SUBSET Nat, chosen : SUBSET Nat]]
        /\ shown'[c].from = all /\ shown'[c].chosen = S
        /\ \A d \in Callers \ {c} : shown'[d] = shown[d]
    BY <1>1, <2>2, <2>3, <2>4
  <2>8. CallSound(c)'
    BY <1>3, <1>4, <2>6, CallKept
  <2>9. ShownSound(c)'
    <3>1. Length(S)' = Length(S) /\ \A i \in all : Length(S \union {i})' = Length(S \union {i})
      BY <1>3, <2>3, <2>4, LengthKept
    <3>2. all \subseteq Written'
      BY <1>2, <2>3 DEF Written
    <3> QED
      BY <2>4, <2>7, <3>1, <3>2 DEF ShownSound
  <2> QED
    BY <1>1, <1>2, <1>3, <2>6, <2>7, <2>8, <2>9, CallerMoves
<1> QED
  BY <1>5, <1>6

\* A call that fails leaves what it has written.
LEMMA EndSound ==
    ASSUME MemoryInv, NEW c \in Callers, End(c)
    PROVE  MemoryInv'
<1>1. /\ call \in [Callers -> CallRecords] /\ here \in [Callers -> Steps]
      /\ shown \in [Callers -> [from : SUBSET Nat, chosen : SUBSET Nat]]
  BY DEF MemoryInv, MemoryTyped
<1>2. Grows
  BY NothingGrows DEF End
<1>3. /\ here' = [here EXCEPT ![c] = "idle"]
      /\ call' = [call EXCEPT ![c] = NoCall]
      /\ shown' = [shown EXCEPT ![c] = NotShown]
  BY DEF End, GoTo
<1>4. NoCall \in CallRecords /\ NotShown \in [from : SUBSET Nat, chosen : SUBSET Nat]
  BY DEF NoCall, NotShown, CallRecords
<1>5. /\ call' \in [Callers -> CallRecords] /\ here' \in [Callers -> Steps]
      /\ shown' \in [Callers -> [from : SUBSET Nat, chosen : SUBSET Nat]]
      /\ call'[c] = NoCall /\ here'[c] = "idle" /\ shown'[c] = NotShown
      /\ \A d \in Callers \ {c} :
            call'[d] = call[d] /\ here'[d] = here[d] /\ shown'[d] = shown[d]
  BY <1>1, <1>3, <1>4 DEF Steps
<1>6. NoCall.kind = "none" /\ NoCall.targets = <<>> /\ NotShown.from = {}
  BY DEF NoCall, NotShown
<1>7. CallSound(c)'
  <2>1. \A m \in DOMAIN call'[c].targets : FALSE
    BY ONLY <1>5, <1>6
  <2> QED
    BY <1>5, <1>6, <2>1 DEF CallSound
<1>8. ShownSound(c)'
  BY <1>5, <1>6 DEF ShownSound
<1> QED
  BY <1>2, <1>5, <1>7, <1>8, CallerMoves

\* Nothing is written and nobody is at work.
LEMMA MemoryAtFirst == MemoryInit => MemoryInv
<1> SUFFICES ASSUME MemoryInit PROVE MemoryInv
  OBVIOUS
<1>1. item = <<>> /\ item \in Seq(ItemRecords) /\ \A i \in DOMAIN item : FALSE
  BY DEF MemoryInit
<1>2. NoCall \in CallRecords /\ NotShown \in [from : SUBSET Nat, chosen : SUBSET Nat]
  BY DEF NoCall, NotShown, CallRecords
<1>3. MemoryTyped
  BY <1>1, <1>2 DEF MemoryInit, MemoryTyped, ItemsTyped, Steps
<1>4. ASSUME NEW c \in Callers PROVE CallSound(c) /\ ShownSound(c)
  <2>1. NoCall.kind = "none" /\ NoCall.targets = <<>> /\ NotShown.from = {}
    BY DEF NoCall, NotShown
  <2>2. call[c] = NoCall /\ here[c] = "idle" /\ shown[c] = NotShown
    BY DEF MemoryInit
  <2>3. \A m \in DOMAIN call[c].targets : FALSE
    BY ONLY <2>1, <2>2
  <2> QED
    BY <2>1, <2>2, <2>3 DEF CallSound, ShownSound
<1> QED
  BY <1>1, <1>3, <1>4 DEF MemoryInv, EachSucceeded, Written

LEMMA MemoryKept == MemoryInv /\ [MemoryNext]_memoryVars => MemoryInv'
<1> SUFFICES ASSUME MemoryInv, [MemoryNext]_memoryVars PROVE MemoryInv'
  OBVIOUS
<1>1. CASE UNCHANGED memoryVars
  <2>1. item' = item /\ here' = here /\ call' = call /\ shown' = shown
    BY <1>1 DEF memoryVars
  <2>2. Grows
    BY <2>1, NothingGrows
  <2>3. ASSUME NEW c \in Callers PROVE CallSound(c)' /\ ShownSound(c)'
    <3>1. SameCall(call'[c], call[c])
      BY <2>1 DEF SameCall
    <3> QED
      BY <2>1, <2>2, <3>1, CallKept, ShownKept
  <2> QED
    BY <2>1, <2>2, <2>3, GrowthKeeps DEF MemoryInv, MemoryTyped
<1>2. ASSUME NEW c \in Callers,
             \/ Ask(c) \/ WriteEntry(c) \/ EntriesWritten(c) \/ WriteTarget(c)
             \/ ReadDocument(c) \/ WriteExport(c) \/ ListScopes(c) \/ Search(c) \/ End(c)
      PROVE  MemoryInv'
  BY <1>2, AskSound, WriteEntrySound, ReadingSound, WriteTargetSound, LoadingSound, EndSound
<1> QED
  BY <1>1, <1>2 DEF MemoryNext

\* Of the texts of a place and type the newest has no successor: it is active or
\* was deleted.
LEMMA NewestIsKept ==
    ASSUME MemoryInv, NEW u \in People, NEW p \in Places, NEW t \in Types,
           Named(u, p, t) # {}, Replaced(u, p, t) = {}
    PROVE  \E i \in Named(u, p, t) : item[i].status = "deleted"
<1>1. item \in Seq(ItemRecords) /\ Named(u, p, t) \subseteq Written
  BY DEF MemoryInv, MemoryTyped, ItemsTyped, Named
<1>2. Written = 1 .. Len(item) /\ Len(item) \in Nat
  BY <1>1 DEF Written
<1> DEFINE left == {Len(item) - i : i \in Named(u, p, t)}
<1>3. left \in SUBSET Nat /\ left # {}
  <2>1. \A i \in Named(u, p, t) : Len(item) - i \in Nat
    BY <1>1, <1>2
  <2> QED
    BY <2>1
<1>4. PICK x \in left : \A y \in left : x <= y
  BY <1>3, LeastNumber
<1>5. PICK i \in Named(u, p, t) : x = Len(item) - i
  BY <1>4
<1>6. ~Succeeded(i)
  <2> SUFFICES ASSUME NEW j \in Written, j > i, Kin(item[j], item[i]) PROVE FALSE
    BY DEF Succeeded
  <2>1. j \in Named(u, p, t)
    BY DEF Named, Kin
  <2>2. Len(item) - i <= Len(item) - j
    BY <1>4, <1>5, <2>1
  <2>3. i \in Nat /\ j \in Nat
    BY <1>1, <1>2
  <2> QED
    BY <1>2, <2>2, <2>3
<1>7. item[i] \in ItemRecords /\ item[i].status # "superseded"
  BY <1>1, <1>6 DEF MemoryInv, EachSucceeded, Written
<1>8. item[i].status # "active"
  BY DEF Replaced, ActiveOf, Active, Named
<1> QED
  BY <1>7, <1>8 DEF ItemRecords

\* Replacements and deletes of several turns that interleave statement by
\* statement, fail or are cut short leave a text where there was one, unless it
\* was deleted; and the prompt's memory keeps to its budget and fills it: for any
\* users, places, types, priorities, lengths and lines of a replacement.
THEOREM MemoryStays == MemorySpec => []MemoryIsKept
<1>1. MemoryInv => MemoryIsKept
  BY NewestIsKept DEF MemoryIsKept, PlaceKeepsText, PromptIsFull, MemoryInv, ShownSound
<1> QED
  BY MemoryAtFirst, MemoryKept, <1>1, PTL DEF MemorySpec
=============================================================================
