----------------------------- MODULE CardFiles -----------------------------
(***************************************************************************)
(* What the calls of the emulated BIOS on a memory card promise            *)
(* (src/libpcsxcore/psxbios.cpp, "bu00:" and "bu10:"; BiosCard is how they *)
(* keep it): files that have a name and one block of words each.  A call   *)
(* changes the file it is about, where its caller thinks it is in it, and  *)
(* no other; a file is created only when there is none of that name and a  *)
(* block is free.                                                          *)
(***************************************************************************)
EXTENDS Integers, FiniteSets, Sequences, Functions

CONSTANTS Names, Room, Words, Values, NULL

VARIABLES
  files,  \* from the names to the contents
  held,   \* the file the caller has open, where it is in it and whether it
          \* reads asynchronously, or NULL
  got     \* what this call has read, if it was one of read

vars == <<files, held, got>>

Here(name, content) == [n \in DOMAIN files \union {name} |->
                          IF n = name THEN content ELSE files[n]]

Init == files = <<>> /\ held = NULL /\ got = <<>>

(* Opening another file gives up the one that is open.  A call that finds  *)
(* no file, or no room for one, rewinds the one that is open and sets its  *)
(* mode.                                                                   *)
Beginning(name, async) == [name |-> name, at |-> 1, async |-> async]

Rewound(async) == IF held = NULL THEN NULL ELSE Beginning(held.name, async)

Open(name, async) ==
  /\ held' = IF name \in DOMAIN files THEN Beginning(name, async) ELSE Rewound(async)
  /\ got' = <<>> /\ UNCHANGED files

Create(name, async) ==
  /\ name \notin DOMAIN files
  /\ \/ /\ Cardinality(DOMAIN files) < Room
        /\ \E content \in [1..Words -> Values] : files' = Here(name, content)
        /\ held' = Beginning(name, async)
     \/ Cardinality(DOMAIN files) = Room /\ held' = Rewound(async) /\ UNCHANGED files
  /\ got' = <<>>

Write(values) ==
  /\ held # NULL /\ held.at + Len(values) <= Words + 1
  /\ files' = Here(held.name, [w \in 1..Words |->
       IF w \in held.at..(held.at + Len(values) - 1)
       THEN values[w - held.at + 1] ELSE files[held.name][w]])
  /\ held' = [held EXCEPT !.at = @ + Len(values)]
  /\ got' = <<>>

(* An asynchronous read leaves its caller where it is.                     *)
Read(n) ==
  /\ held # NULL /\ held.at + n <= Words + 1
  /\ got' = [i \in 1..n |-> files[held.name][held.at + i - 1]]
  /\ held' = IF held.async THEN held ELSE [held EXCEPT !.at = @ + n]
  /\ UNCHANGED files

Seek(at) == held # NULL /\ held' = [held EXCEPT !.at = at] /\ got' = <<>> /\ UNCHANGED files

Close == held' = NULL /\ got' = <<>> /\ UNCHANGED files

Delete(name) ==
  /\ name \in DOMAIN files
  /\ files' = Restrict(files, DOMAIN files \ {name})
  /\ held' = IF held # NULL /\ held.name = name THEN NULL ELSE held
  /\ got' = <<>>

Rename(old, new) ==
  /\ old \in DOMAIN files /\ new \notin DOMAIN files
  /\ files' = [n \in (DOMAIN files \ {old}) \union {new} |->
                 files[IF n = new THEN old ELSE n]]
  /\ held' = IF held # NULL /\ held.name = old THEN [held EXCEPT !.name = new] ELSE held
  /\ got' = <<>>

Next ==
  \/ \E name \in Names, async \in BOOLEAN : Open(name, async) \/ Create(name, async)
  \/ \E name \in Names : Delete(name)
  \/ \E values \in UNION {[1..n -> Values] : n \in 1..Words} : Write(values)
  \/ \E n \in 1..Words : Read(n)
  \/ \E at \in 1..Words+1 : Seek(at)
  \/ Close
  \/ \E old, new \in Names : Rename(old, new)

Spec == Init /\ [][Next]_vars
=============================================================================
