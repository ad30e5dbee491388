---------------------------- MODULE MCItemStore ----------------------------
(* Instances of ItemStore for TLC. *)
EXTENDS ItemStore, TLC

CONSTANTS a1, a2

Maintained == [scanners |-> {a1}, located |-> {}, lookups |-> 0, restarts |-> 1, maintenances |-> 1]
\* The first version of the file has coordinates; the second, which may be read while
\* the place of those is looked up, has none.
MaintainedLocated == [scanners |-> {a1}, located |-> {1}, lookups |-> 1, restarts |-> 0, maintenances |-> 1]
TwoScanners == [scanners |-> {a1, a2}, located |-> {}, lookups |-> 0, restarts |-> 0, maintenances |-> 0]

BothThreads == {a1, a2}
Settings == {Maintained, MaintainedLocated, TwoScanners}
OnlyTwo == {TwoScanners}

Symmetry == Permutations(Thread)

\* Who uses a node.
Role == Scanner \cup {"index", "db", "loc"}

NodeOf(r) == CASE r = "index" -> cur [] r = "db" -> dbNode [] r = "loc" -> loc.node
             [] OTHER -> held[r]

\* Who refers to metadata: the entries in use and those who hold a copy.
Holder == (Role \X {"entry"}) \cup ((Scanner \cup {"db", "loc", "write"}) \X {"copy"})

Held(h) ==
    IF h[2] = "entry" THEN IF NodeOf(h[1]) = 0 THEN Null ELSE node[NodeOf(h[1])].md
    ELSE CASE h[1] = "db" -> dbMd [] h[1] = "loc" -> loc.md [] h[1] = "write" -> pending.md
         [] OTHER -> work[h[1]].md

\* A place may yet be saved: only then does it matter who shares an object.
MayPlace ==
    \/ lookups # <<>> \/ loc.pc \in {"null", "read"}
    \/ \E v \in setting.located : v = file \/ v > clock \/ \E a \in Scanner : work[a].md.of = v

Unnumbered(m) == [of |-> m.of, at |-> IF m = Null THEN 0 ELSE 1]

\* Two states are the same but for the numbers of their nodes and objects when the
\* same users share them and their contents are the same; what nobody refers to is
\* not used again.
View ==
    <<setting, clock, file, row, pc, dbPc, lookups, misplaced, past,
      [a \in Scanner |-> [work[a] EXCEPT !.md = Unnumbered(@)]], Unnumbered(dbMd),
      [pending EXCEPT !.md = Unnumbered(@)], [loc EXCEPT !.node = 0, !.md = Unnumbered(@)],
      [r \in Role |-> {q \in Role : NodeOf(q) = NodeOf(r)}],
      [r \in Role |-> IF NodeOf(r) = 0 THEN NoEntry
                      ELSE [node[NodeOf(r)] EXCEPT !.md = Unnumbered(@)]],
      LET ref == [h \in Holder |-> Held(h)] IN
      IF MayPlace THEN {<<Place(m), {h \in Holder : ref[h] = m}>> : m \in {ref[h] : h \in Holder}}
      ELSE IF places = <<>> THEN {} ELSE {[h \in Holder |-> Place(ref[h])]}>>

\* Once two threads have been inside one entry the invariants say no more.
Calm == ~torn
=============================================================================
