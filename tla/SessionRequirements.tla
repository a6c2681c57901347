------------------------- MODULE SessionRequirements -------------------------
(* What is required of the session store.                                   *)
EXTENDS SessionStore

Jobs == [kind : Kinds \cup {"none", "create"}, session : 0..NumSessions,
         message : Messages \cup {<<>>}, user : Owners, range : 0..MaxRange]

TypeOK ==
    /\ created \in 0..NumSessions
    /\ row \in [Sessions -> Rows]
    /\ msgs \in [Sessions -> Seq(Messages)]
    /\ bind \in [Keys -> 0..NumSessions]
    /\ at \in [Clients -> {"idle", "turn", "row", "loaded", "new", "bind", "newer"}]
    /\ job \in [Clients -> Jobs]
    /\ rec \in [Clients -> Rows]
    /\ log \in [Clients -> Seq(Messages)]
    /\ saved \subseteq Sessions \X Messages

\* A conversation is bound to a session that exists, though sessions are
\* deleted between a client's reads and its writes.
BoundSessionExists == \A k \in Keys : bind[k] # 0 => Exists(bind[k])

\* A session is bound to one conversation of one user at most: a resume moves
\* it exclusively, whatever records other clients hold.
OneBindingPerSession ==
    \A k, l \in Keys : bind[k] # 0 /\ bind[k] = bind[l] => k = l

\* A child session's parent exists and is older, so a lineage is a finite tree
\* and the recursive query of delete_session ends.
ParentExists ==
    \A s \in Sessions : row[s].parent # 0 => row[s].parent < s /\ Exists(row[s].parent)

\* A client between its reads of a session and its write of both.
Loaded(c, s) == at[c] = "loaded" /\ job[c].session = s

Stored(p) == \E i \in 1..Len(msgs[p[1]]) : msgs[p[1]][i] = p[2]

\* A message stored, which every record about to be written holds too.
Seen(p) ==
    /\ Stored(p)
    /\ \A c \in Clients : Loaded(c, p[1]) => \E i \in 1..Len(log[c]) : log[c][i] = p[2]

\* A message is stored when its append returns, and once no client is left that
\* read the messages before that, it stays until it is withdrawn or the session
\* deleted: no call may remove it, whatever other clients append, withdraw,
\* resume or delete between the SELECTs and the transaction of a call.
MessagesSettle ==
    [][\A p \in saved' : IF p \in saved THEN Seen(p) => Seen(p)' ELSE Stored(p)']_vars

\* The row of a conversation's session names the conversation and the user.
RowAgrees(conv, user) ==
    LET s == bind[<<conv, user>>]
    IN  s # 0 /\ row[s].conv = conv /\ (user # NoUser => row[s].user = user)

\* A client has begun a call on session s with another conversation or user.
Disputes(c, s, conv, user) ==
    /\ job[c].session = s
    /\ \/ at[c] \in {"row", "loaded"} /\ rec[c].conv # conv
       \/ user # NoUser /\ at[c] \in {"turn", "row", "loaded"}
                        /\ user # IF job[c].kind = "catalog" THEN job[c].user ELSE rec[c].user

Agreed(conv, user) ==
    /\ RowAgrees(conv, user)
    /\ \A c \in Clients : ~Disputes(c, bind[<<conv, user>>], conv, user)

\* A conversation's new session gets a row that names conversation and user, as
\* the next turn resolves it by either; and once no client is at work that read
\* another row or was called for another user, it stays so until the
\* conversation is bound to another session, or the session to another one.
BindingsSettle ==
    [][\A conv \in Convs, user \in Owners :
         LET k == <<conv, user>>
         IN  bind'[k] # 0 => IF bind'[k] # bind[k] THEN RowAgrees(conv, user)'
                             ELSE Agreed(conv, user) => Agreed(conv, user)']_vars

\* Range r is the session's, or an older one than it, and no client will write an
\* older one.
Kept(s, r) ==
    /\ Exists(s) /\ row[s].ctx >= r
    /\ \A c \in Clients : job[c].session = s =>
         /\ at[c] \in {"row", "loaded"} => NewRec(c).ctx >= r
         /\ at[c] = "newer" => job[c].range >= r

\* Once no client is left that read the row before a compaction or carries an
\* older one, the compaction stands until a newer one: the worker that compares
\* in one transaction and writes in another does not undo it, nor does a turn
\* but with set_compacted_context, which replaces it by its own.
ContextSettles ==
    [][\A s \in Sessions, r \in 1..MaxRange :
         Kept(s, r) => \/ Kept(s, r)'
                       \/ ~Exists(s)'
                       \/ \E c \in Clients : /\ Idle(c)
                                             /\ job'[c].kind = "compact"
                                             /\ job'[c].session = s
                                             /\ job'[c].range < r]_vars
=============================================================================
