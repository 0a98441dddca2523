-------------------------- MODULE PublicationLedger --------------------------
(***************************************************************************)
(* What the service promises its clients, without threads, locks, receipts *)
(* or fences: a ledger of publications to which every request is added at  *)
(* most once and inside its window, and from which a restart takes back    *)
(* nothing that was confirmed (fastdb/docs/service-protocol.md, Writes).   *)
(***************************************************************************)
EXTENDS Integers, Sequences

CONSTANTS
    Publications,   \* records [req, ok, base] that may be published
    Window          \* how far above its afterSequence a request may land

VARIABLES
    ledger,         \* the publications in order
    confirmed       \* the positions clients have been told of

vars == <<ledger, confirmed>>

Init == ledger = <<>> /\ confirmed = {}

MayFollow(e, log) ==
    /\ \A n \in 1..Len(log) : log[n].req.hash # e.req.hash
    /\ e.req.after <= Len(log) /\ Len(log) < e.req.after + Window
    /\ e.ok => e.base = Len(log)

Publish ==
    /\ \E e \in Publications : MayFollow(e, ledger) /\ ledger' = Append(ledger, e)
    /\ UNCHANGED confirmed

Confirm ==
    /\ \E n \in 1..Len(ledger) : confirmed' = confirmed \cup {n}
    /\ UNCHANGED ledger

\* A restart: the last publication, while unconfirmed, may be gone, and one whose
\* outcome was unknown may have arrived.
Recover ==
    /\ \E keep \in {Len(ledger) - 1, Len(ledger)} :
          /\ keep >= 0
          /\ \A n \in confirmed : n <= keep
          /\ LET kept == SubSeq(ledger, 1, keep)
             IN  \/ ledger' = kept
                 \/ \E e \in Publications : MayFollow(e, kept) /\ ledger' = Append(kept, e)
    /\ UNCHANGED confirmed

Next == Publish \/ Confirm \/ Recover

Spec == Init /\ [][Next]_vars
=============================================================================
