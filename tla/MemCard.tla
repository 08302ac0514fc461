------------------------------ MODULE MemCard ------------------------------
(***************************************************************************)
(* What a memory card promises: a page changes only as a whole, to the     *)
(* bytes that were sent for it, at the address that was given before them; *)
(* the file of the card follows at once unless it cannot be written, and   *)
(* then at most that page of it is cut short; and a restart finds what the *)
(* file holds.                                                             *)
(***************************************************************************)
EXTENDS Integers, Sequences

CONSTANTS Cards, Pages, PageSize, Data

VARIABLES
  card,     \* the pages the guest reads
  disk,     \* the pages in the file of each card
  outbox,   \* the bytes sent for the next page
  addr      \* where that page goes

vars == <<card, disk, outbox, addr>>

Page == [1..PageSize -> Data]

Init ==
  /\ card \in [Cards -> [Pages -> Page]] /\ disk = card
  /\ outbox = <<>> /\ addr \in Pages

Address(a) ==
  /\ outbox = <<>> /\ addr' = a
  /\ UNCHANGED <<card, disk, outbox>>

Send(b) ==
  /\ Len(outbox) < PageSize
  /\ outbox' = Append(outbox, b)
  /\ UNCHANGED <<card, disk, addr>>

(* The file follows by a page or by the whole card, or it fails to, in the *)
(* middle of the page perhaps.                                             *)
Partly(page, bytes) ==
  [i \in 1..PageSize |-> IF i <= bytes THEN outbox[i] ELSE page[i]]

Store(c) ==
  /\ Len(outbox) = PageSize
  /\ card' = [card EXCEPT ![c][addr] = outbox]
  /\ \/ disk' \in {[disk EXCEPT ![c][addr] = outbox],
                   [disk EXCEPT ![c] = card'[c]], disk}
     \/ \E n \in 1..PageSize : disk' = [disk EXCEPT ![c][addr] = Partly(@, n)]
  /\ outbox' = <<>>
  /\ UNCHANGED addr

Abandon ==
  /\ outbox' = <<>>
  /\ UNCHANGED <<card, disk, addr>>

Restart(loaded) ==
  /\ card' = [c \in Cards |-> IF c \in loaded THEN disk[c] ELSE card[c]]
  /\ outbox' = <<>> /\ addr' \in Pages
  /\ UNCHANGED disk

Next ==
  \/ \E a \in Pages : Address(a)
  \/ \E b \in Data : Send(b)
  \/ \E c \in Cards : Store(c)
  \/ Abandon
  \/ \E loaded \in SUBSET Cards : Restart(loaded)

Spec == Init /\ [][Next]_vars
=============================================================================
