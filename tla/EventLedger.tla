---------------------------- MODULE EventLedger ----------------------------
(***************************************************************************)
(* What the event stream of a thread promises its readers: the events are  *)
(* a ledger that only grows at its end, numbered in the order of its       *)
(* entries, and what a reader has been shown is at every moment a prefix   *)
(* of the ledger: nothing twice, nothing out of order, no gap.             *)
(***************************************************************************)
EXTENDS Naturals, Sequences

CONSTANT Readers

VARIABLES
    ledger,     \* the numbers of the events published, in order
    view        \* view[r]: the numbers of the events reader r has been shown

ledgerVars == <<ledger, view>>

LedgerInit ==
    /\ ledger = << >>
    /\ view = [r \in Readers |-> << >>]

Publish ==
    /\ Len(ledger') = Len(ledger) + 1
    /\ SubSeq(ledger', 1, Len(ledger)) = ledger
    /\ ledger # << >> => ledger'[Len(ledger')] > ledger[Len(ledger)]
    /\ UNCHANGED view

\* Readers may be shown several entries at once, and each its own number.
Show(r) ==
    /\ \E n \in (Len(view[r]) + 1)..Len(ledger) :
          view' = [view EXCEPT ![r] = SubSeq(ledger, 1, n)]
    /\ UNCHANGED ledger

LedgerNext == Publish \/ \E r \in Readers : Show(r)

LedgerSpec == LedgerInit /\ [][LedgerNext]_ledgerVars
=============================================================================
