------------------------------- MODULE Memory --------------------------------
(***************************************************************************)
(* The durable memory of users (memory/service.py, sqlite_store.py,        *)
(* loader.py, export.py) as the memory tool drives it: calls of several    *)
(* turns at once, each a chain of transactions on the items and their text *)
(* index, then a read and a write of the exported file, then the loading   *)
(* of what the prompt shows.  A statement may fail (the database is        *)
(* locked) and the process may end between any two steps.                  *)
(***************************************************************************)
EXTENDS Naturals, Sequences, FiniteSets, SequencesExt

CONSTANTS
  Callers,      \* turns that may call the tool at the same time
  People,       \* users with a stable id
  Places,       \* a scope with its agent or workspace, and a section
  Types,        \* preference, fact, constraint, workflow_hint
  MaxItems,     \* bound: items ever written
  MaxEntries,   \* bound: lines of a replacement
  Priorities, Lengths,
  Listed,       \* per_scope_limit
  Header, Budget  \* length of "User memory:\n" and prompt_char_limit

ASSUME MemoryAssumption ==
  /\ Priorities \subseteq Nat /\ Lengths \subseteq Nat
  /\ MaxItems \in Nat /\ MaxEntries \in Nat
  /\ Header \in Nat /\ Budget \in Nat

VARIABLES
  item,    \* items in order of creation, with their status
  index,   \* rows of memory_items_fts
  file,    \* user -> items shown by the exported MEMORY.md
  here,    \* caller -> "idle" or the step its call is at
  call,    \* caller -> what it was called with and has read
  shown    \* caller -> candidates and selection of the prompt memory

memoryVars == <<item, index, file, here, call, shown>>

Items == 1 .. MaxItems
Written == DOMAIN item
Active == {i \in Written : item[i].status = "active"}
ActiveOf(u) == {i \in Active : item[i].user = u}

NoCall == [kind |-> "none", user |-> "none", place |-> "none", type |-> "none", priority |-> 1,
           entries |-> <<>>, targets |-> <<>>, read |-> {}]
NotShown == [from |-> {}, chosen |-> {}]

MemoryInit ==
  /\ item = <<>> /\ index = {}
  /\ file = [u \in People |-> {}]
  /\ here = [c \in Callers |-> "idle"]
  /\ call = [c \in Callers |-> NoCall]
  /\ shown = [c \in Callers |-> NotShown]

-----------------------------------------------------------------------------
(* The order of the lists: priority, then the newest.                      *)

Before(i, j) == item[i].priority > item[j].priority \/ (item[i].priority = item[j].priority /\ i > j)
InOrder(S) ==
  {list \in SetToSeqs(S) : \A m, n \in DOMAIN list : m < n => Before(list[m], list[n])}

\* Of an entry its length; the rest of a new item comes from the call.
NewItem(c, length) ==
  [status |-> "active", user |-> call[c].user, place |-> call[c].place, type |-> call[c].type,
   priority |-> call[c].priority, length |-> length]

GoTo(c, step) == here' = [here EXCEPT ![c] = step]
Room(n) == Len(item) + n <= MaxItems

-----------------------------------------------------------------------------
(* Statements of the store: each is one transaction.                       *)

\* append.
Insert(c, length) ==
  /\ item' = Append(item, NewItem(c, length))
  /\ index' = index \union {Len(item) + 1}

\* Mutant: the new item is left to the next statement.
SupersedeOnly(c, i, length) ==
  /\ item' = [item EXCEPT ![i].status = "superseded"]
  /\ index' = index \ {i}

\* replace: whatever the status of the old item by now.
SupersedeAndInsert(c, i, length) ==
  /\ item' = Append([item EXCEPT ![i].status = "superseded"], NewItem(c, length))
  /\ index' = (index \ {i}) \union {Len(item) + 1}

\* supersede and delete.
Supersede(i) == item' = [item EXCEPT ![i].status = "superseded"] /\ index' = index \ {i}
DeleteItem(i) == item' = [item EXCEPT ![i].status = "deleted"] /\ index' = index \ {i}

-----------------------------------------------------------------------------
(* append, replace and delete of ThinMemoryService.                        *)

Called(c, kind, u, p, t, entries, targets) ==
  /\ here[c] = "idle"
  /\ \E priority \in Priorities :
       call' = [call EXCEPT ![c] = [NoCall EXCEPT !.kind = kind, !.user = u, !.place = p, !.type = t,
                                      !.priority = priority, !.entries = entries, !.targets = targets]]
  /\ UNCHANGED <<item, index, file, shown>>

AskAppend(c, u, p, t, length) ==
  /\ here[c] = "idle" /\ Room(1)
  /\ Called(c, "append", u, p, t, <<length>>, <<>>)
  /\ GoTo(c, "entries")

\* What a replacement replaces: the active items of the place and type, or the
\* one that is named, active or not, if it is one of these, and else none.
Replaced(u, p, t) == {i \in ActiveOf(u) : item[i].place = p /\ item[i].type = t}
Named(u, p, t) == {i \in Written : item[i].user = u /\ item[i].place = p /\ item[i].type = t}

AskReplace(c, u, p, t, entries) ==
  /\ here[c] = "idle" /\ Room(Len(entries))
  /\ \E targets \in InOrder(Replaced(u, p, t)) \union {<<i>> : i \in Named(u, p, t)}
                                              \union {<<>>} :
       Called(c, "replace", u, p, t, entries, targets)
  /\ GoTo(c, "entries")

OfPlace(u, p) == {i \in Written : item[i].user = u /\ item[i].place = p}

\* A delete takes any type of its place: all that is active there, what has a
\* given content, or the item that is named.
AskDelete(c, u, p) ==
  /\ \E S \in (SUBSET (Active \intersect OfPlace(u, p))) \union {{i} : i \in OfPlace(u, p)} :
       \E targets \in InOrder(S) : Called(c, "delete", u, p, "none", <<>>, targets)
  /\ GoTo(c, "targets")

\* The first entry replaces the first target, the others are appended.
WriteEntry(c) ==
  /\ here[c] = "entries" /\ call[c].entries # <<>> /\ Room(1)
  /\ \/ /\ call[c].targets # <<>> /\ call[c].kind = "replace"
        /\ SupersedeAndInsert(c, call[c].targets[1], call[c].entries[1])
     \/ /\ call[c].targets = <<>> \/ call[c].kind = "rest"
        /\ Insert(c, call[c].entries[1])
  /\ call' = [call EXCEPT ![c].entries = Tail(@), ![c].kind = IF @ = "replace" THEN "rest" ELSE @,
                          ![c].targets = IF call[c].kind = "replace" /\ @ # <<>> THEN Tail(@) ELSE @]
  /\ UNCHANGED <<file, here, shown>>

EntriesWritten(c) ==
  /\ here[c] = "entries" /\ call[c].entries = <<>>
  /\ GoTo(c, "targets")
  /\ UNCHANGED <<item, index, file, call, shown>>

WriteTarget(c) ==
  /\ here[c] = "targets" /\ call[c].targets # <<>>
  /\ IF call[c].kind = "delete" THEN DeleteItem(call[c].targets[1]) ELSE Supersede(call[c].targets[1])
  /\ call' = [call EXCEPT ![c].targets = Tail(@)]
  /\ UNCHANGED <<file, here, shown>>

\* _save reads the document and writes the file.
ReadDocument(c) ==
  /\ here[c] = "targets" /\ call[c].targets = <<>>
  /\ call' = [call EXCEPT ![c].read = ActiveOf(call[c].user)]
  /\ GoTo(c, "save")
  /\ UNCHANGED <<item, index, file, shown>>

WriteExport(c) ==
  /\ here[c] = "save"
  /\ file' = [file EXCEPT ![call[c].user] = call[c].read]
  /\ GoTo(c, "list")
  /\ UNCHANGED <<item, index, call, shown>>

-----------------------------------------------------------------------------
(* MemoryLoader.load: lists, a search, the choice within the budget.   *)

\* Each scope's list is cut; the search looks at the index and may find any
\* item of the user there.
ListScopes(c) ==
  /\ here[c] = "list"
  /\ LET first(p) == LET S == {i \in ActiveOf(call[c].user) : item[i].place = p}
                     IN  {i \in S : Cardinality({j \in S : Before(j, i)}) < Listed}
     IN  shown' = [shown EXCEPT ![c].from = UNION {first(p) : p \in Places}]
  /\ GoTo(c, "search")
  /\ UNCHANGED <<item, index, file, call>>

\* Mutant: the separator is forgotten.
TextOnly(i, n) == {i} \X (1 .. item[i].length)

\* The characters of a line behind n others: the first has no separator.
TextOf(i, n) == {i} \X ((IF n = 0 THEN 1 ELSE 0) .. item[i].length)

\* At one priority those that were found come first, then the newest.
Ahead(found, i, j) ==
  \/ item[i].priority > item[j].priority
  \/ /\ item[i].priority = item[j].priority
     /\ IF (i \in found) = (j \in found) THEN i > j ELSE i \in found

Lines(found, S) == UNION {TextOf(i, Cardinality({j \in S : Ahead(found, j, i)})) : i \in S}
Fits(found, S) == Header + Cardinality(Lines(found, S)) <= Budget

\* A line is taken if it fits behind those that were taken before it: one that
\* does not is left out, and shorter ones behind it may still come.
Selections(found, all) ==
  {S \in SUBSET all :
     \A i \in all : i \in S <=> Fits(found, {j \in S : Ahead(found, j, i)} \union {i})}

Search(c) ==
  /\ here[c] = "search"
  /\ \E found \in SUBSET (index \intersect ActiveOf(call[c].user)) :
       LET all == shown[c].from \union found
       IN  \E S \in Selections(found, all) :
             shown' = [shown EXCEPT ![c] = [from |-> all, chosen |-> S]]
  /\ GoTo(c, "answer")
  /\ UNCHANGED <<item, index, file, call>>

\* The call is answered; or a statement raises or the process ends, and it is
\* over where it is.
End(c) ==
  /\ here[c] # "idle"
  /\ GoTo(c, "idle")
  /\ call' = [call EXCEPT ![c] = NoCall]
  /\ shown' = [shown EXCEPT ![c] = NotShown]
  /\ UNCHANGED <<item, index, file>>

Entries == UNION {[1 .. n -> Lengths] : n \in 1 .. MaxEntries}

Ask(c) ==
  \E u \in People, p \in Places :
    \/ \E t \in Types, length \in Lengths : AskAppend(c, u, p, t, length)
    \/ \E t \in Types, es \in Entries : AskReplace(c, u, p, t, es)
    \/ AskDelete(c, u, p)

MemoryNext ==
  \E c \in Callers :
    \/ Ask(c) \/ WriteEntry(c) \/ EntriesWritten(c) \/ WriteTarget(c)
    \/ ReadDocument(c) \/ WriteExport(c) \/ ListScopes(c) \/ Search(c) \/ End(c)

MemorySpec == MemoryInit /\ [][MemoryNext]_memoryVars

-----------------------------------------------------------------------------
(* Requirements.                                                           *)

\* A place that ever had a text of a type has one still, unless a delete took
\* one: a replacement that is interrupted anywhere, or meets others that
\* replace or delete the same text, leaves the old text or a new one.
PlaceKeepsText ==
  \A u \in People, p \in Places, t \in Types :
    Named(u, p, t) # {} /\ Replaced(u, p, t) = {} =>
      \E i \in Named(u, p, t) : item[i].status = "deleted"

\* The prompt memory keeps to its budget and leaves out no line that would
\* still have fitted. (A text of lines is as long as they are, each with the
\* end of its line but the last.)
Characters(S) == UNION {{i} \X (0 .. item[i].length) : i \in S}
Length(S) == Header + (IF S = {} THEN 0 ELSE Cardinality(Characters(S)) - 1)
PromptIsFull ==
  \A c \in Callers : here[c] = "answer" =>
    /\ Length(shown[c].chosen) <= Budget \/ shown[c].chosen = {}
    /\ \A i \in shown[c].from \ shown[c].chosen : Length(shown[c].chosen \union {i}) > Budget

\* What was saved is kept, and shown as far as the budget allows (the two
\* promises above).
MemoryIsKept == PlaceKeepsText /\ PromptIsFull
=============================================================================
