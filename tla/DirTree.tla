------------------------------ MODULE DirTree ------------------------------
(***************************************************************************)
(* What the namespace operations promise their callers: a tree of          *)
(* directories whose entries name objects, each call one atomic change of  *)
(* it or none.  Link counts, storage and inode maps are not visible here.  *)
(***************************************************************************)
EXTENDS Integers, FiniteSets

CONSTANTS Objects, Names, Root

VARIABLES
    edges,  \* <<directory, name, object>>
    dirs    \* the objects that are directories

vars == <<edges, dirs>>

Present     == {Root} \cup {e[3] : e \in edges}
Named(d, n) == {e[3] : e \in {x \in edges : x[1] = d /\ x[2] = n}}
Empty(d)    == \A e \in edges : e[1] # d

\* The directories on the way up from d, d included.
Above(d) ==
    LET up[k \in 0..Cardinality(Objects)] ==
            IF k = 0 THEN {d} ELSE up[k - 1] \cup {e[1] : e \in {x \in edges : x[3] \in up[k - 1]}}
    IN  up[Cardinality(Objects)]

Init == edges = {} /\ dirs = {Root}

Add(d, n, o, isDir) ==
    /\ d \in dirs /\ n \in Names /\ Named(d, n) = {}
    /\ o \in Objects \ Present
    /\ edges' = edges \cup {<<d, n, o>>}
    /\ dirs' = IF isDir THEN dirs \cup {o} ELSE dirs

Link(d, n, o) ==
    /\ d \in dirs /\ n \in Names /\ Named(d, n) = {}
    /\ o \in Present \ dirs
    /\ edges' = edges \cup {<<d, n, o>>}
    /\ UNCHANGED dirs

Remove(d, n, o) ==
    /\ o \in Named(d, n) /\ (o \in dirs => Empty(o))
    /\ edges' = edges \ {<<d, n, o>>}
    /\ dirs' = dirs \ {o}

\* The object moves and what the new name named goes, in one step; a directory
\* never moves below itself and only replaces an empty one.
Rename(d, n, e, m, o) ==
    /\ o \in Named(d, n) /\ o \notin Named(e, m)
    /\ e \in dirs /\ m \in Names
    /\ o \in dirs => o \notin Above(e)
    /\ \A t \in Named(e, m) : (t \in dirs) = (o \in dirs) /\ (t \in dirs => Empty(t))
    /\ edges' = (edges \ ({<<d, n, o>>} \cup {<<e, m, t>> : t \in Named(e, m)}))
                  \cup {<<e, m, o>>}
    /\ dirs' = dirs \ Named(e, m)

\* A step is recognised by the entries it adds and those it takes away.
Next ==
    \/ \E x \in edges' \ edges :
         \/ \E isDir \in BOOLEAN : Add(x[1], x[2], x[3], isDir)
         \/ Link(x[1], x[2], x[3])
         \/ \E y \in edges \ edges' : Rename(y[1], y[2], x[1], x[2], x[3])
    \/ \E x \in edges \ edges' : Remove(x[1], x[2], x[3])

Spec == Init /\ [][Next]_vars
=============================================================================
