---------------------------- MODULE CommandTree ----------------------------
(***************************************************************************)
(* The tree of commands of command.cpp and commandmanager.cpp: built at    *)
(* the start by the initialisers of the command groups, each validated     *)
(* when it returns, and then only read, to resolve the tokens of requests. *)
(*                                                                         *)
(* A command is its place in the order of creation, which is also the      *)
(* order of its parent's children_; the root is 0.  An initialiser         *)
(* configures the command it has made last.                                *)
(***************************************************************************)
EXTENDS Integers, FiniteSetsExt, SequencesExt

CONSTANTS Names,
          MaxCommands, MaxNames   \* bounds: commands, and names_ of one

Root == 0
Nothing == -1   \* nullptr

VARIABLES parent,    \* parent_ of each command
          names,     \* names_
          acts,      \* action_ is set
          group,     \* the group being initialised, or Root
          stage      \* starting, serving, or ended by an exception

tree == <<parent, names, acts>>
vars == <<tree, group, stage>>

Commands == DOMAIN parent
Newest == Len(parent)

Init == /\ parent = <<>> /\ names = <<>> /\ acts = <<>>
        /\ group = Root
        /\ stage = "starting"

Children(c) == {d \in Commands : parent[d] = c}

Insert(c) ==
    /\ Newest < MaxCommands
    /\ parent' = Append(parent, c)
    /\ names' = Append(names, <<>>)
    /\ acts' = Append(acts, FALSE)

\* No name stands twice in the lists of the children.
NamesDiffer(c) ==
    \A d, e \in Children(c) : \A i \in DOMAIN names[d], j \in DOMAIN names[e] :
        names[d][i] = names[e][j] => d = e /\ i = j

\* Variant of Valid: the children are not validated.
ValidTop(g) == NamesDiffer(g) /\ (Children(g) = {}) = acts[g]

\* A group is validated before the next one is made: its commands are the
\* newest ones.
Valid(g) ==
    \A c \in g..Newest : NamesDiffer(c) /\ (Children(c) = {}) = acts[c]

Building == stage = "starting" /\ group # Root

\* initializeCommand makes a child of the root and hands it over.
InitializeCommand ==
    /\ stage = "starting" /\ group = Root
    /\ Insert(Root)
    /\ group' = Newest + 1
    /\ UNCHANGED stage

AddChild == /\ Building
            /\ \E c \in group..Newest : Insert(c)
            /\ UNCHANGED <<group, stage>>

SetName == /\ Building /\ Len(names[Newest]) < MaxNames
           /\ \E n \in Names : names' = [names EXCEPT ![Newest] = <<n>> \o @]
           /\ UNCHANGED <<parent, acts, group, stage>>

MakeAction == /\ Building
              /\ acts' = [acts EXCEPT ![Newest] = TRUE]
              /\ UNCHANGED <<parent, names, group, stage>>

\* The initialiser has returned; an exception here ends main.
Validate == /\ Building
            /\ group' = Root
            /\ stage' = IF Valid(group) THEN stage ELSE "ended"
            /\ UNCHANGED tree

Serve == /\ stage = "starting" /\ group = Root
         /\ stage' = "serving"
         /\ UNCHANGED <<tree, group>>

Next == \/ InitializeCommand \/ AddChild \/ SetName \/ MakeAction
        \/ Validate \/ Serve

-----------------------------------------------------------------------------
GetChild(c, name) ==
    LET called == {d \in Children(c) : Contains(names[d], name)}
    IN IF called = {} THEN Nothing ELSE Min(called)

\* The nodes that resolveCommand walks through, Nothing after the last.
Walk(tokens) ==
    LET node[i \in 0..Len(tokens)] ==
            IF i = 0 THEN Root
            ELSE IF node[i - 1] = Nothing THEN Nothing
            ELSE GetChild(node[i - 1], tokens[i])
    IN node

ResolveCommand(tokens) ==
    LET node == Walk(tokens)
    IN node[Max({i \in DOMAIN node : node[i] # Nothing})]

-----------------------------------------------------------------------------
Path(c) ==
    LET path[d \in Commands] ==
            IF parent[d] = Root THEN <<d>> ELSE Append(path[parent[d]], d)
    IN IF c = Root THEN <<>> ELSE path[c]

Spells(tokens, c) ==
    /\ Len(tokens) = Len(Path(c))
    /\ \A i \in DOMAIN tokens : Contains(names[Path(c)[i]], tokens[i])

\* A group of the same name was registered before the one of c.
Shadowed(c, name) ==
    \E g \in Children(Root) : g < Path(c)[1] /\ Contains(names[g], name)

\* What tokens reach is spelled by the beginning of them, and the next one
\* names none of its children; and every command they spell is what they
\* reach, unless it is shadowed.
Resolves(tokens) ==
    LET c == ResolveCommand(tokens)
        depth == Len(Path(c))
    IN /\ Spells(SubSeq(tokens, 1, depth), c)
       /\ depth < Len(tokens) =>
             \A d \in Children(c) : ~Contains(names[d], tokens[depth + 1])
       /\ \A d \in Commands :
             Spells(tokens, d) => c = d \/ Shadowed(d, tokens[1])

\* Once the daemon serves, every spelling of a command, by any of its names,
\* reaches it, unless a group registered earlier has the name it begins with;
\* what a request reaches is spelled by the beginning of its tokens, and the
\* next token names none of its children; and an action is found exactly at
\* the leaves.  validate never looks at the root, so nothing but the choice
\* of names keeps two groups apart (command.cpp:9, commandmanager.cpp:12, 26).
NamesReach ==
    stage = "serving" =>
        /\ \A tokens \in BoundedSeq(Names, 3) : Resolves(tokens)
        /\ \A c \in Commands : acts[c] <=> Children(c) = {}
=============================================================================
