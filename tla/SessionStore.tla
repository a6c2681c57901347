---------------------------- MODULE SessionStore ----------------------------
(* SQLiteSessionStore of session/sqlite_store.py: session rows, their        *)
(* messages and the bindings of conversations to sessions, changed by the    *)
(* threads of the service (turns, subagents, the compaction worker) and by   *)
(* the maintenance command line.                                             *)
(*                                                                           *)
(* A mutator reads the row, then the messages, and later writes both back    *)
(* whole in one transaction; every SELECT is a transaction of its own. Each  *)
(* of these steps is an action here. bind_conversation, delete_session and   *)
(* prune_sessions are one transaction and one action each.                   *)
EXTENDS Naturals, Sequences, FiniteSets

CONSTANTS NumSessions, \* sessions that may be created
          Clients,     \* threads and processes that use the store
          Convs,       \* channel and conversation pairs
          Direct,      \* those of them without a channel
          Users,       \* identified users
          NoUser,      \* an empty user_id
          Messages,
          MaxRange,    \* compacted ranges end in 1..MaxRange
          Kinds        \* the operations that clients call

ASSUME SomeSessions == NumSessions \in Nat
ASSUME DirectAreConvs == Direct \subseteq Convs
ASSUME NoUserIsNoUser == NoUser \notin Users
ASSUME RangeIsBounded == MaxRange \in Nat

\* Session ids in order of creation; 0 stands for NULL.
Sessions == 1..NumSessions
Owners == Users \cup {NoUser}
Keys == Convs \X Owners

VARIABLES created, \* ids handed out
          row,     \* table sessions
          msgs,    \* table session_messages
          bind,    \* table session_bindings: the session of a conversation and user
          at,      \* where a client is
          job,     \* what it was called for
          rec,     \* the row it has read
          log,     \* the messages it has read
          saved    \* messages acknowledged and not withdrawn, with their session

storeVars == <<created, row, msgs, bind>>
clientVars == <<at, job, rec, log>>
vars == <<storeVars, clientVars, saved>>

NoRow == [exists |-> FALSE, conv |-> <<>>, user |-> NoUser, parent |-> 0, ctx |-> 0]
NewRow(conv, user, parent) ==
    [exists |-> TRUE, conv |-> conv, user |-> user, parent |-> parent, ctx |-> 0]
\* ctx is the end of latest_compacted_context's range, 0 without one. Fields that
\* no property tells apart are left out.
Rows == [exists : {TRUE}, conv : Convs, user : Owners, parent : 0..NumSessions,
         ctx : 0..MaxRange] \cup {NoRow}

NoJob == [kind |-> "none", session |-> 0, message |-> <<>>, user |-> NoUser, range |-> 0]
Job(kind, s) == [NoJob EXCEPT !.kind = kind, !.session = s]

Exists(s) == row[s].exists
Idle(c) == at[c] = "idle"
Go(c, place) == at' = [at EXCEPT ![c] = place]
Done(c) ==
    /\ Go(c, "idle")
    /\ job' = [job EXCEPT ![c] = NoJob]
    /\ rec' = [rec EXCEPT ![c] = NoRow]
    /\ log' = [log EXCEPT ![c] = <<>>]

Init ==
    /\ created = 0
    /\ row = [s \in Sessions |-> NoRow]
    /\ msgs = [s \in Sessions |-> <<>>]
    /\ bind = [k \in Keys |-> 0]
    /\ at = [c \in Clients |-> "idle"]
    /\ job = [c \in Clients |-> NoJob]
    /\ rec = [c \in Clients |-> NoRow]
    /\ log = [c \in Clients |-> <<>>]
    /\ saved = {}

-----------------------------------------------------------------------------
(* Resolving a conversation.                                                *)

Anonymous(s) == row[s].user = NoUser

\* The newest anonymous session whose row names a conversation without channel.
NewestOf(conv) ==
    LET of == {s \in Sessions : Exists(s) /\ row[s].conv = conv /\ Anonymous(s)}
    IN  IF conv \in Direct /\ of # {} THEN CHOOSE s \in of : \A t \in of : t <= s ELSE 0

\* resolve_session_for_conversation; 0 is None.
Resolved(conv, user) ==
    LET open == bind[<<conv, NoUser>>]
        mine == IF user = NoUser THEN 0 ELSE bind[<<conv, user>>]
    IN  IF mine # 0 THEN mine
        ELSE IF open # 0 /\ Anonymous(open) THEN open
        ELSE IF user = NoUser THEN NewestOf(conv) ELSE 0

-----------------------------------------------------------------------------
(* Mutators: read the row, read the messages, write both.                   *)

\* The row a call starts from; get raises KeyError when there is none.
ReadRow(c, j) ==
    /\ Idle(c)
    /\ j.kind \in Kinds
    /\ Exists(j.session)
    /\ job' = [job EXCEPT ![c] = j]
    /\ rec' = [rec EXCEPT ![c] = row[j.session]]

\* append_message with a message not appended before.
BeginAppend(c, s, m) ==
    /\ \A p \in saved : p[2] # m
    /\ \A d \in Clients : job[d].message # m
    /\ \A t \in Sessions : \A i \in 1..Len(msgs[t]) : msgs[t][i] # m
    /\ ReadRow(c, [Job("append", s) EXCEPT !.message = m])

\* remove_last_message_if_match, by the turn that appended the message.
BeginWithdraw(c, s, m) ==
    /\ <<s, m>> \in saved
    /\ \A d \in Clients : job[d].message # m
    /\ ReadRow(c, [Job("withdraw", s) EXCEPT !.message = m])

\* mark_run, set_active_agent, set_bootstrap_manifest, set_latest_actual_usage,
\* append_tool_outcome_summary: they set fields that are left out here.
BeginTouch(c, s) == ReadRow(c, Job("touch", s))

\* set_compacted_context.
BeginCompact(c, s, range) == ReadRow(c, [Job("compact", s) EXCEPT !.range = range])

Begin(c) ==
    /\ \E s \in Sessions :
         \/ \E m \in Messages : BeginAppend(c, s, m) \/ BeginWithdraw(c, s, m)
         \/ BeginTouch(c, s)
         \/ \E range \in 1..MaxRange : BeginCompact(c, s, range)
    /\ Go(c, "row")
    /\ UNCHANGED <<storeVars, log, saved>>

\* A turn resolves its session when it starts and later calls
\* set_catalog_metadata with its user.
BeginTurn(c, s, conv, user) ==
    /\ Idle(c)
    /\ "catalog" \in Kinds
    /\ Resolved(conv, user) = s
    /\ job' = [job EXCEPT ![c] = [Job("catalog", s) EXCEPT !.user = user]]
    /\ Go(c, "turn")
    /\ UNCHANGED <<storeVars, rec, log, saved>>

BeginCatalog(c) ==
    /\ at[c] = "turn"
    /\ Exists(job[c].session)
    /\ rec' = [rec EXCEPT ![c] = row[job[c].session]]
    /\ Go(c, "row")
    /\ UNCHANGED <<storeVars, job, log, saved>>

\* get raises, or the trigger refuses a binding: the session is gone.
SessionGone(c) ==
    /\ at[c] \in {"turn", "bind"}
    /\ ~Exists(job[c].session)
    /\ Done(c)
    /\ UNCHANGED <<storeVars, saved>>

\* The second SELECT of get: the messages, as they are by now.
ReadMessages(c) ==
    /\ at[c] = "row"
    /\ Go(c, "loaded")
    /\ log' = [log EXCEPT ![c] = msgs[job[c].session]]
    /\ UNCHANGED <<storeVars, job, rec, saved>>

\* Mutant: the last message is removed whatever it is.
IsLastAny(m, s) == s # <<>>

IsLast(m, s) == s # <<>> /\ s[Len(s)] = m

\* remove_last_message_if_match returns without a write.
NothingToRemove(c) ==
    /\ at[c] = "loaded"
    /\ job[c].kind = "withdraw"
    /\ ~IsLast(job[c].message, log[c])
    /\ Done(c)
    /\ UNCHANGED <<storeVars, saved>>

\* The messages and the row as the caller has changed them.
NewLog(c) ==
    CASE job[c].kind = "append" -> Append(log[c], job[c].message)
      [] job[c].kind = "withdraw" -> SubSeq(log[c], 1, Len(log[c]) - 1)
      [] OTHER -> log[c]

NewRec(c) ==
    CASE job[c].kind = "catalog" -> [rec[c] EXCEPT !.user = job[c].user]
      [] job[c].kind = "compact" -> [rec[c] EXCEPT !.ctx = job[c].range]
      [] OTHER -> rec[c]

\* The triggers refuse a row whose parent does not exist.
ParentThere(r) == r.parent # 0 => Exists(r.parent)

\* _write_record: the row is inserted or replaced, the messages replaced.
WriteRecord(c) ==
    /\ at[c] = "loaded"
    /\ job[c].kind = "withdraw" => IsLast(job[c].message, log[c])
    /\ ParentThere(rec[c])
    /\ row' = [row EXCEPT ![job[c].session] = NewRec(c)]
    /\ msgs' = [msgs EXCEPT ![job[c].session] = NewLog(c)]
    /\ saved' = CASE job[c].kind = "append" -> saved \cup {<<job[c].session, job[c].message>>}
                  [] job[c].kind = "withdraw" -> saved \ {<<job[c].session, job[c].message>>}
                  [] OTHER -> saved
    /\ IF job[c].kind = "catalog" THEN Go(c, "bind") /\ UNCHANGED <<job, rec, log>> ELSE Done(c)
    /\ UNCHANGED <<created, bind>>

\* The write is refused and the call raises.
WriteRefused(c) ==
    /\ at[c] \in {"loaded", "new"}
    /\ ~ParentThere(rec[c])
    /\ Done(c)
    /\ UNCHANGED <<storeVars, saved>>

-----------------------------------------------------------------------------
(* Creating sessions.                                                       *)

\* A record with a fresh id and the present time, still to be written.
BeginNew(c, r) ==
    /\ Idle(c)
    /\ created < NumSessions
    /\ created' = created + 1
    /\ job' = [job EXCEPT ![c] = [Job("create", created + 1) EXCEPT !.user = r.user]]
    /\ rec' = [rec EXCEPT ![c] = r]
    /\ Go(c, "new")
    /\ UNCHANGED <<row, msgs, bind, log, saved>>

\* create, by get_or_create_for_conversation that finds no session or by
\* session.new.
BeginCreate(c, conv, user) ==
    /\ \/ ("open" \in Kinds /\ Resolved(conv, user) = 0)
       \/ ("new" \in Kinds /\ Resolved(conv, user) # 0)
    /\ BeginNew(c, NewRow(conv, user, 0))

\* create_child_session: the owner is the parent's, the conversation a new one.
BeginChild(c, parent, conv) ==
    /\ "child" \in Kinds
    /\ Exists(parent)
    /\ \A s \in Sessions : row[s].conv # conv
    /\ BeginNew(c, NewRow(conv, row[parent].user, parent))

\* _write_record of a new session.
WriteNew(c) ==
    /\ at[c] = "new"
    /\ ParentThere(rec[c])
    /\ row' = [row EXCEPT ![job[c].session] = rec[c]]
    /\ Go(c, "bind")
    /\ UNCHANGED <<created, msgs, bind, job, rec, log, saved>>

-----------------------------------------------------------------------------
(* Bindings.                                                                *)

\* The bindings after s is bound to conv and user: those of s under another
\* key go; with a user, so do the anonymous and the user's own ones of conv.
Rebound(conv, user, s) ==
    LET key == <<conv, user>>
        dropped == {k \in Keys : bind[k] = s \/ (user # NoUser /\ k = <<conv, NoUser>>)}
    IN  [k \in Keys |-> IF k = key THEN s ELSE IF k \in dropped THEN 0 ELSE bind[k]]

\* Mutant: the binding is moved and the session's row is not.
BindToOnly(conv, user, s) ==
    /\ bind' = Rebound(conv, user, s)
    /\ UNCHANGED row

\* bind_conversation; the trigger refuses a session that does not exist.
BindTo(conv, user, s) ==
    /\ bind' = Rebound(conv, user, s)
    /\ row' = [row EXCEPT ![s].conv = conv,
                          ![s].user = IF user = NoUser THEN @ ELSE user]

\* create binds to the conversation it was called for, set_catalog_metadata to
\* the one in the record it has read.
BindNew(c) ==
    /\ at[c] = "bind"
    /\ Exists(job[c].session)
    /\ BindTo(rec[c].conv, job[c].user, job[c].session)
    /\ Done(c)
    /\ UNCHANGED <<created, msgs, saved>>

\* session.resume: the session must be visible to the user. Any one may be
\* the target, for the session the turn started with may not be the bound one.
Resume(c, conv, user, s) ==
    /\ Idle(c)
    /\ "resume" \in Kinds
    /\ Exists(s)
    /\ row[s].user = user
    /\ BindTo(conv, user, s)
    /\ UNCHANGED <<created, msgs, clientVars, saved>>

-----------------------------------------------------------------------------
(* Compacted context of the worker: SELECT, then UPDATE.                    *)

\* Mutant: a compaction replaces any other.
NewerAlways(range, r) == TRUE

\* _should_apply_compacted_context, of ranges with increasing times.
Newer(range, r) == range > r.ctx

BeginIfNewer(c, s, range) ==
    /\ Idle(c)
    /\ "newer" \in Kinds
    /\ Exists(s)
    /\ Newer(range, row[s])
    /\ job' = [job EXCEPT ![c] = [Job("newer", s) EXCEPT !.range = range]]
    /\ Go(c, "newer")
    /\ UNCHANGED <<storeVars, rec, log, saved>>

\* The UPDATE changes the two columns of the row, if it is still there.
UpdateContext(c) ==
    LET s == job[c].session
    IN  /\ at[c] = "newer"
        /\ row' = IF Exists(s) THEN [row EXCEPT ![s].ctx = job[c].range] ELSE row
        /\ Done(c)
        /\ UNCHANGED <<created, msgs, bind, saved>>

-----------------------------------------------------------------------------
(* Maintenance.                                                             *)

IsChild(s, p) == row[s].exists /\ row[s].parent = p

\* The session and all its descendants: the least set with s that has the
\* children of its members.
Lineage(s) ==
    {t \in Sessions : \A d \in SUBSET Sessions :
        s \in d /\ (\A p \in d : \A x \in Sessions : IsChild(x, p) => x \in d) => t \in d}

\* The ancestors of the sessions in a: the least set with the parents of a
\* and of its members.
Ancestors(a) ==
    {t \in Sessions : \A d \in SUBSET Sessions :
        (\A x \in a \cup d : row[x].parent # 0 => row[x].parent \in d) => t \in d}

DeleteAll(d) ==
    /\ row' = [s \in Sessions |-> IF s \in d THEN NoRow ELSE row[s]]
    /\ msgs' = [s \in Sessions |-> IF s \in d THEN <<>> ELSE msgs[s]]
    /\ bind' = [k \in Keys |-> IF bind[k] \in d THEN 0 ELSE bind[k]]
    /\ saved' = {p \in saved : p[1] \notin d}
    /\ UNCHANGED <<created, clientVars>>

\* delete_session.
Delete(c, s) ==
    /\ Idle(c)
    /\ "delete" \in Kinds
    /\ Exists(s)
    /\ DeleteAll(Lineage(s))

\* prune_sessions: the inactive sessions that no active one descends from.
\* Activity is a matter of timestamps, so any sessions may be inactive.
Prune(c, inactive) ==
    /\ Idle(c)
    /\ "prune" \in Kinds
    /\ inactive # {}
    /\ \A s \in inactive : Exists(s)
    /\ DeleteAll(inactive \ Ancestors({s \in Sessions \ inactive : Exists(s)}))

-----------------------------------------------------------------------------
Next ==
    \E c \in Clients :
        \/ Begin(c)
        \/ \E s \in Sessions, conv \in Convs, user \in Owners : BeginTurn(c, s, conv, user)
        \/ BeginCatalog(c)
        \/ ReadMessages(c)
        \/ NothingToRemove(c)
        \/ WriteRecord(c)
        \/ WriteRefused(c)
        \/ \E conv \in Convs, user \in Owners : BeginCreate(c, conv, user)
        \/ \E parent \in Sessions, conv \in Convs : BeginChild(c, parent, conv)
        \/ WriteNew(c)
        \/ BindNew(c)
        \/ SessionGone(c)
        \/ \E conv \in Convs, user \in Owners, s \in Sessions : Resume(c, conv, user, s)
        \/ \E s \in Sessions, range \in 1..MaxRange : BeginIfNewer(c, s, range)
        \/ UpdateContext(c)
        \/ \E s \in Sessions : Delete(c, s)
        \/ \E inactive \in SUBSET Sessions : Prune(c, inactive)

Spec == Init /\ [][Next]_vars

=============================================================================
