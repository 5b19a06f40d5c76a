--------------------------- MODULE ReliableStream ---------------------------
(***************************************************************************)
(* What a GProxy++ session promises one direction of the W3GS stream:      *)
(* packets are numbered from 1 in the order they are sent, and the reader  *)
(* is handed 1, 2, 3, ... - nothing twice, and nothing skipped but what    *)
(* the writer has declared lost - for as long as it is handed anything,    *)
(* however many sockets the session goes through.  The writer may stop at  *)
(* any time.  A reader that has been made to skip a packet counts wrong    *)
(* from then on, so it is promised nothing more.                           *)
(***************************************************************************)
EXTENDS Naturals, Sequences

VARIABLES
    sent,   \* how many packets the writer has numbered
    lost,   \* the numbers the writer has given up
    got,    \* the numbers the reader was handed, in order
    open    \* whether the writer may still send

vars == <<sent, lost, got, open>>

(* Nothing was skipped so far. *)
Whole == \A i \in 1..Len(got) : got[i] = i

Init ==
    /\ sent \in Nat
    /\ lost = {}
    /\ Whole
    /\ Len(got) <= sent
    /\ open = TRUE

(* The writer numbers some packets, or gives some up, and may have done so  *)
(* for the last time.                                                       *)
Write ==
    /\ open
    /\ sent' \in Nat /\ sent' >= sent
    /\ lost \subseteq lost' /\ lost' \subseteq Nat
    /\ open' \in BOOLEAN
    /\ UNCHANGED got

(* The reader is handed the next packet that is not lost, or a lost one     *)
(* that came through after all.                                             *)
Read ==
    /\ \E n \in 1..sent :
          /\ Whole => n > Len(got) /\ Len(got) + 1 .. n - 1 \subseteq lost
          /\ got' = Append(got, n)
    /\ UNCHANGED <<sent, lost, open>>

Next == Write \/ Read

Spec == Init /\ [][Next]_vars
=============================================================================
